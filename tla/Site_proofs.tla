----------------------------- MODULE Site_proofs -----------------------------
(***************************************************************************)
(* Proofs about the public site, for any clients, limits, cache lifetime,  *)
(* accounts and amounts, whatever flows of the page are under way at once. *)
(***************************************************************************)
EXTENDS Site, SequenceTheorems, FiniteSetTheorems, TLAPS

-----------------------------------------------------------------------------
(* The inductive invariant.                                                 *)

\* A stored deposit has its intent on chain and is answered, or its answer was
\* lost; nothing is answered that is not stored.
RowsAnswered ==
  /\ \A i \in rows : posts[i].tx = "mined" /\ posts[i].stage \in {"answered", "failed"}
  /\ \A i \in DOMAIN posts : posts[i].stage = "answered" => i \in rows

\* The ticket names a stored deposit, and so will the one a flow waits for.
TicketStored ==
  /\ ticket # NoTicket => ticket \in rows
  /\ \A f \in Flows : At(f, "posted") => flow[f].tx \in DOMAIN posts

\* One read at most is in flight, and only while nothing is kept; what is read
\* or kept is no older than the last answer and not from the future.
ReadsAlone ==
  /\ \A r, s \in reads : r = s
  /\ reads # {} => ~Cached
  /\ \A r \in reads : served.since <= r.since /\ r.since <= now

CacheFresh ==
  /\ served.since <= now
  /\ cache.since <= now
  /\ cache.until > 0 => served.since <= cache.since /\ cache.until = cache.doneAt + Ttl
  /\ served.at = served.doneAt \/ served.at < served.doneAt + Ttl

BehindChain == {"checking", "approving", "approved", "rereading", "burning"}

\* A flow that does nothing is blank, only flows that use the wallet come where
\* the wallet is used, and one that waits for a receipt has sent its transaction.
FlowsPlain ==
  \A f \in Flows :
    /\ At(f, "none") => flow[f] = NoFlow
    /\ flow[f].alone \/ flow[f].at \in BehindChain \cup {"accounts", "chain", "burned"} =>
         flow[f].kind \in WalletKinds
    /\ flow[f].at \in {"approved", "burned"} => flow[f].tx \in DOMAIN txs

UsesWallet(f) == ~At(f, "none") /\ flow[f].kind \in WalletKinds

\* What a flow that is alone relies on: no other flow uses the wallet, and only
\* a transaction of its own is pending.
AloneIsAlone ==
  \A f \in Flows : flow[f].alone =>
    /\ \A g \in Flows \ {f} : ~UsesWallet(g)
    /\ \A i \in DOMAIN txs : txs[i].state = "pending" =>
         flow[f].at \in {"approved", "burned"} /\ i = flow[f].tx

Approved(a, amount) == token[a].allowance >= amount

\* Behind ensureSepolia such a flow keeps its account and its chain, its approval
\* is the last word on the allowance, and it burns what the allowance covers.
AloneIsCovered ==
  \A f \in Flows : flow[f].alone /\ flow[f].at \in BehindChain =>
    /\ flow[f].account = account /\ sepolia
    /\ At(f, "approved") => LET tx == txs[flow[f].tx] IN
         /\ tx.kind = "approve" /\ tx.from = flow[f].account
         /\ tx.amount = flow[f].amount /\ tx.sepolia
         /\ tx.state = "mined" => Approved(tx.from, tx.amount)
    /\ flow[f].at \in {"rereading", "burning"} /\ flow[f].account # NoAccount =>
         Approved(flow[f].account, flow[f].amount)

\* A burn of such a flow has nothing pending before it.
BurnIsNext ==
  \A i \in DOMAIN txs :
    txs[i].kind = "burn" /\ txs[i].state = "pending" /\ txs[i].alone =>
      \A j \in 1 .. i - 1 : txs[j].state # "pending"

Opened(k) == buckets[k].resetAt - Window[KindOf(k)]

\* The requests with key k that came in a span and were let through, and all that
\* came since its window opened.
Admitted(k, t, u) ==
  {i \in PostsOf(k) : posts[i].refusedBy = NoKey /\ t <= posts[i].at /\ posts[i].at < u}

SinceOpened(k) == {i \in PostsOf(k) : posts[i].at >= Opened(k)}

NowAdmitted(k) == Admitted(k, Opened(k), buckets[k].resetAt)

LastAdmitted(k) == Admitted(k, Opened(k) - Window[KindOf(k)] + 1, Opened(k))

\* A key's bucket counts what came since its window opened.  At most the limit got
\* through since then, and at most the limit in one window's length before, so no
\* span of that length holds more than both.
Metered(k) == LET limit == Limit[KindOf(k)] window == Window[KindOf(k)] IN
  /\ \A i \in PostsOf(k) : posts[i].at < buckets[k].resetAt
  /\ buckets[k].resetAt <= now + window
  /\ buckets[k].count = Cardinality(SinceOpened(k))
  /\ Cardinality(NowAdmitted(k)) <= limit
  /\ Cardinality(LastAdmitted(k)) <= limit
  /\ \A t \in Int : Cardinality(Admitted(k, t, t + window)) <= 2 * limit

AskedBefore(k, i) ==
  {j \in PostsOf(k) : j < i /\ posts[j].at > posts[i].at - Window[KindOf(k)]}

\* A key without a limit lets nothing through, and a key refuses what it has been
\* asked too often.
KeyMetered(k) ==
  /\ Limit[KindOf(k)] > 0 => Metered(k)
  /\ Limit[KindOf(k)] <= 0 => \A i \in PostsOf(k) : posts[i].refusedBy # NoKey
  /\ \A i \in PostsOf(k) : posts[i].refusedBy = k =>
       Cardinality(AskedBefore(k, i)) >= Limit[KindOf(k)]

LimiterInv == \A k \in Keys : KeyMetered(k)

SiteInv ==
  /\ SiteTypeOK
  /\ LimiterInv
  /\ RowsAnswered /\ TicketStored
  /\ ReadsAlone /\ CacheFresh
  /\ FlowsPlain /\ AloneIsAlone /\ AloneIsCovered /\ BurnIsNext /\ BurnsCovered

-----------------------------------------------------------------------------
(* Types: the server.                                                       *)

\* A counter's key is of one of the kinds that have a limit and a window.
LEMMA KindsHaveLimits ==
  ASSUME NEW k
  PROVE  KindOf(k) \in Kinds /\ Limit[KindOf(k)] \in Int /\ Window[KindOf(k)] \in Nat \ {0}
<1>1. KindOf(k) \in Kinds BY DEF KindOf, Kinds
<1> QED BY <1>1, CostLimiterAssumption

\* A counted key keeps a count and the end of its window.
LEMMA CountedIsBucket ==
  ASSUME NEW k \in Keys, now \in Nat, buckets \in [Keys -> Bucket]
  PROVE  Counted(k) \in Bucket
<1>1. Window[KindOf(k)] \in Nat BY KindsHaveLimits
<1> QED BY <1>1 DEF Counted, Bucket

\* Only keys are asked.
LEMMA AskedAreKeys ==
  ASSUME NEW ip \in Ips, NEW recipient \in Recipients
  PROVE  Asked(ip, recipient) \subseteq Keys
BY DEF Asked, Order, Keys

\* The key that refuses is a key, or there is none.
LEMMA RefuserIsKey ==
  ASSUME NEW ip \in Ips, NEW recipient \in Recipients
  PROVE  Refuser(ip, recipient) \in Keys \cup {NoKey}
<1>1. CASE Allowed(ip, recipient) BY <1>1 DEF Refuser
<1>2. CASE ~Allowed(ip, recipient)
  <2>1. PICK k \in Asked(ip, recipient) : ~HasRoom(k) BY <1>2 DEF Allowed
  <2>2. (CHOOSE j \in Asked(ip, recipient) : ~HasRoom(j)) \in Asked(ip, recipient) BY <2>1
  <2> QED BY <1>2, <2>2, AskedAreKeys DEF Refuser
<1> QED BY <1>1, <1>2

\* Counting leaves buckets.
LEMMA CountKeepsBuckets ==
  ASSUME now \in Nat, buckets \in [Keys -> Bucket],
         NEW ip \in Ips, NEW recipient \in Recipients, Count(ip, recipient)
  PROVE  buckets' \in [Keys -> Bucket]
<1>1. \A k \in Keys : Counted(k) \in Bucket BY CountedIsBucket
<1> QED BY <1>1 DEF Count

\* A request is added behind the others, which stay as they are.
LEMMA PostAppends ==
  ASSUME ApiTypeOK, NEW client \in Callers, NEW ip \in Ips, NEW recipient \in Recipients,
         PostDeposit(client, ip, recipient)
  PROVE  /\ posts' \in Seq(Post) /\ Len(posts') = Len(posts) + 1
         /\ \A i \in DOMAIN posts : i \in DOMAIN posts' /\ posts'[i] = posts[i]
         /\ posts'[Len(posts) + 1].tx = "none"
         /\ posts'[Len(posts) + 1].stage \in {"funding", "failed"}
         /\ DOMAIN posts' = DOMAIN posts \cup {Len(posts) + 1}
         /\ buckets' \in [Keys -> Bucket]
         /\ life' = life /\ rows' = rows /\ funds' = funds
<1> DEFINE new ==
      [client |-> client, at |-> now, keys |-> Asked(ip, recipient),
       refusedBy |-> Refuser(ip, recipient), tx |-> "none",
       stage |-> IF Allowed(ip, recipient) THEN "funding" ELSE "failed"]
<1>1. now \in Nat /\ posts \in Seq(Post) /\ buckets \in [Keys -> Bucket]
      BY MaxTimeAssumption DEF ApiTypeOK
<1>2. new \in Post BY <1>1, AskedAreKeys, RefuserIsKey DEF Post, Stages
<1>3. posts' = Append(posts, new) BY DEF PostDeposit
<1>4. new.tx = "none" /\ new.stage \in {"funding", "failed"} OBVIOUS
<1> HIDE DEF new
<1>5. /\ posts' \in Seq(Post) /\ Len(posts') = Len(posts) + 1
      /\ \A i \in 1 .. Len(posts) : posts'[i] = posts[i]
      /\ posts'[Len(posts) + 1] = new
      BY <1>1, <1>2, <1>3, AppendProperties
<1>6. buckets' \in [Keys -> Bucket] BY <1>1, CountKeepsBuckets DEF PostDeposit
<1>7. DOMAIN posts = 1 .. Len(posts) /\ DOMAIN posts' = 1 .. Len(posts') /\ Len(posts) \in Nat
      BY <1>1, <1>5, LenProperties
<1> QED BY <1>4, <1>5, <1>6, <1>7 DEF PostDeposit

\* A request changes in place.
LEMMA PostChanges ==
  ASSUME posts \in Seq(Post), NEW i \in DOMAIN posts, NEW p \in Post,
         posts' = [posts EXCEPT ![i] = p]
  PROVE  /\ posts' \in Seq(Post) /\ Len(posts') = Len(posts) /\ DOMAIN posts' = DOMAIN posts
         /\ posts'[i] = p /\ \A j \in DOMAIN posts : j # i => posts'[j] = posts[j]
<1>1. DOMAIN posts = 1 .. Len(posts) BY LenProperties
<1>2. posts' \in Seq(Post) /\ Len(posts') = Len(posts) BY <1>1, ExceptSeq
<1>3. DOMAIN posts' = 1 .. Len(posts') BY <1>2, LenProperties
<1> QED BY <1>1, <1>2, <1>3

\* A request goes to another stage in place.
LEMMA GoesInPlace ==
  ASSUME posts \in Seq(Post), NEW i \in DOMAIN posts, NEW to \in Stages,
         posts' = [posts EXCEPT ![i].stage = to]
  PROVE  /\ posts' \in Seq(Post) /\ Len(posts') = Len(posts) /\ DOMAIN posts' = DOMAIN posts
         /\ posts'[i].stage = to /\ posts'[i].tx = posts[i].tx
         /\ \A j \in DOMAIN posts : j # i => posts'[j] = posts[j]
<1> DEFINE p == [posts[i] EXCEPT !.stage = to]
<1>1. posts[i] \in Post BY ElementOfSeq, LenProperties
<1>2. p \in Post /\ p.stage = to /\ p.tx = posts[i].tx BY <1>1 DEF Post
<1>3. posts' = [posts EXCEPT ![i] = p] OBVIOUS
<1> HIDE DEF p
<1> QED BY <1>2, <1>3, PostChanges

\* A request sends its transaction in place.
LEMMA SendsInPlace ==
  ASSUME posts \in Seq(Post), NEW i \in DOMAIN posts, NEW to \in Stages,
         NEW tx \in {"none", "pending", "mined", "reverted"},
         posts' = [posts EXCEPT ![i].stage = to, ![i].tx = tx]
  PROVE  /\ posts' \in Seq(Post) /\ Len(posts') = Len(posts) /\ DOMAIN posts' = DOMAIN posts
         /\ posts'[i].stage = to /\ posts'[i].tx = tx
         /\ \A j \in DOMAIN posts : j # i => posts'[j] = posts[j]
<1> DEFINE p == [posts[i] EXCEPT !.stage = to, !.tx = tx]
<1>1. posts[i] \in Post BY ElementOfSeq, LenProperties
<1>2. p \in Post /\ p.stage = to /\ p.tx = tx BY <1>1 DEF Post
<1>3. posts' = [posts EXCEPT ![i] = p] BY <1>1 DEF Post
<1> HIDE DEF p
<1> QED BY <1>2, <1>3, PostChanges

\* An intent's transaction ends in place.
LEMMA EndsInPlace ==
  ASSUME posts \in Seq(Post), NEW i \in DOMAIN posts,
         NEW tx \in {"none", "pending", "mined", "reverted"},
         posts' = [posts EXCEPT ![i].tx = tx]
  PROVE  /\ posts' \in Seq(Post) /\ Len(posts') = Len(posts) /\ DOMAIN posts' = DOMAIN posts
         /\ posts'[i].stage = posts[i].stage /\ posts'[i].tx = tx
         /\ \A j \in DOMAIN posts : j # i => posts'[j] = posts[j]
<1> DEFINE p == [posts[i] EXCEPT !.tx = tx]
<1>1. posts[i] \in Post BY ElementOfSeq, LenProperties
<1>2. p \in Post /\ p.stage = posts[i].stage /\ p.tx = tx BY <1>1 DEF Post
<1>3. posts' = [posts EXCEPT ![i] = p] OBVIOUS
<1> HIDE DEF p
<1> QED BY <1>2, <1>3, PostChanges

-----------------------------------------------------------------------------
(* Requests: their types, and that what is stored is answered.              *)

Requests ==
  /\ posts \in Seq(Post) /\ life \in 0 .. Len(posts) /\ buckets \in [Keys -> Bucket]
  /\ rows \subseteq DOMAIN posts /\ funds \in Nat
  /\ RowsAnswered

\* No request and no row goes away.
RequestsGrow == Requests' /\ rows \subseteq rows' /\ DOMAIN posts \subseteq DOMAIN posts'

\* A new request is neither answered nor stored.
LEMMA PostDepositStep ==
  ASSUME ApiTypeOK, Requests, NEW client \in Callers, NEW ip \in Ips,
         NEW recipient \in Recipients, PostDeposit(client, ip, recipient)
  PROVE  RequestsGrow /\ Len(posts) + 1 \in DOMAIN posts'
<1>1. /\ posts' \in Seq(Post) /\ Len(posts') = Len(posts) + 1
      /\ \A i \in DOMAIN posts : i \in DOMAIN posts' /\ posts'[i] = posts[i]
      /\ posts'[Len(posts) + 1].stage \in {"funding", "failed"}
      /\ DOMAIN posts' = DOMAIN posts \cup {Len(posts) + 1}
      /\ buckets' \in [Keys -> Bucket]
      /\ life' = life /\ rows' = rows /\ funds' = funds
      BY PostAppends
<1>2. Len(posts) \in Nat BY LenProperties DEF Requests
<1>3. RowsAnswered' BY <1>1 DEF RowsAnswered, Requests
<1> QED BY <1>1, <1>2, <1>3 DEF RequestsGrow, Requests

\* The balance and the range are checked before anything is sent.
LEMMA FundingCheckedStep ==
  ASSUME Requests, NEW i \in DOMAIN posts, FundingChecked(i)
  PROVE  RequestsGrow
<1>1. /\ rows' = rows /\ funds' = funds /\ life' = life /\ buckets' = buckets
      /\ posts[i].stage = "funding"
      BY DEF FundingChecked, OnlyPosts, Goes
<1>2. PICK to \in {"creating", "failed"} : posts' = [posts EXCEPT ![i].stage = to]
      BY DEF FundingChecked, Goes
<1>3. /\ posts' \in Seq(Post) /\ Len(posts') = Len(posts) /\ DOMAIN posts' = DOMAIN posts
      /\ posts'[i].stage = to /\ posts'[i].tx = posts[i].tx
      /\ \A j \in DOMAIN posts : j # i => posts'[j] = posts[j]
      BY <1>2, GoesInPlace DEF Requests, Stages
<1>4. RowsAnswered' BY <1>1, <1>2, <1>3 DEF RowsAnswered, Requests
<1> QED BY <1>1, <1>3, <1>4 DEF RequestsGrow, Requests

\* The transaction is sent for a request that is not answered yet.
LEMMA IntentSentStep ==
  ASSUME Requests, NEW i \in DOMAIN posts, IntentSent(i)
  PROVE  RequestsGrow
<1>1. /\ rows' = rows /\ life' = life /\ buckets' = buckets /\ posts[i].stage = "creating"
      BY DEF IntentSent, OnlyPosts
<1>2. CASE funds > 0 /\ funds' = funds - 1
           /\ posts' = [posts EXCEPT ![i].stage = "waiting", ![i].tx = "pending"]
  <2>1. /\ posts' \in Seq(Post) /\ Len(posts') = Len(posts) /\ DOMAIN posts' = DOMAIN posts
        /\ posts'[i].stage = "waiting"
        /\ \A j \in DOMAIN posts : j # i => posts'[j] = posts[j]
        BY <1>2, SendsInPlace DEF Requests, Stages
  <2>2. RowsAnswered' BY <1>1, <2>1 DEF RowsAnswered, Requests
  <2>3. funds' \in Nat BY <1>2 DEF Requests
  <2> QED BY <1>1, <2>1, <2>2, <2>3 DEF RequestsGrow, Requests
<1>3. CASE funds' = funds /\ Goes(i, "creating", "failed")
  <2>1. /\ posts' \in Seq(Post) /\ Len(posts') = Len(posts) /\ DOMAIN posts' = DOMAIN posts
        /\ posts'[i].stage = "failed"
        /\ \A j \in DOMAIN posts : j # i => posts'[j] = posts[j]
        BY <1>3, GoesInPlace DEF Requests, Stages, Goes
  <2>2. RowsAnswered' BY <1>1, <2>1 DEF RowsAnswered, Requests
  <2> QED BY <1>1, <1>3, <2>1, <2>2 DEF RequestsGrow, Requests
<1> QED BY <1>2, <1>3 DEF IntentSent

\* Only a transaction that is out is mined, and none of a stored row is.
LEMMA IntentMinedStep ==
  ASSUME Requests, NEW i \in DOMAIN posts, IntentMined(i)
  PROVE  RequestsGrow
<1>1. /\ rows' = rows /\ funds' = funds /\ life' = life /\ buckets' = buckets
      /\ posts[i].tx = "pending"
      BY DEF IntentMined, OnlyPosts
<1>2. PICK end \in {"mined", "reverted"} : posts' = [posts EXCEPT ![i].tx = end]
      BY DEF IntentMined
<1>3. /\ posts' \in Seq(Post) /\ Len(posts') = Len(posts) /\ DOMAIN posts' = DOMAIN posts
      /\ posts'[i].stage = posts[i].stage
      /\ \A j \in DOMAIN posts : j # i => posts'[j] = posts[j]
      BY <1>2, EndsInPlace DEF Requests
<1>4. RowsAnswered' BY <1>1, <1>3 DEF RowsAnswered, Requests
<1> QED BY <1>1, <1>3, <1>4 DEF RequestsGrow, Requests

\* A request is answered with its row, and only when its intent is on chain.
LEMMA ReceiptArrivesStep ==
  ASSUME Requests, NEW i \in DOMAIN posts, ReceiptArrives(i)
  PROVE  RequestsGrow
<1>1. funds' = funds /\ life' = life /\ buckets' = buckets /\ posts[i].stage = "waiting"
      BY DEF ReceiptArrives, OnlyPosts, Goes
<1>2. CASE posts[i].tx = "mined" /\ Goes(i, "waiting", "answered") /\ rows' = rows \cup {i}
  <2>1. /\ posts' \in Seq(Post) /\ Len(posts') = Len(posts) /\ DOMAIN posts' = DOMAIN posts
        /\ posts'[i].stage = "answered" /\ posts'[i].tx = posts[i].tx
        /\ \A j \in DOMAIN posts : j # i => posts'[j] = posts[j]
        BY <1>2, GoesInPlace DEF Requests, Stages, Goes
  <2>2. RowsAnswered' BY <1>1, <1>2, <2>1 DEF RowsAnswered, Requests
  <2> QED BY <1>1, <1>2, <2>1, <2>2 DEF RequestsGrow, Requests
<1>3. CASE rows' = rows /\ Goes(i, "waiting", "failed")
  <2>1. /\ posts' \in Seq(Post) /\ Len(posts') = Len(posts) /\ DOMAIN posts' = DOMAIN posts
        /\ posts'[i].stage = "failed" /\ posts'[i].tx = posts[i].tx
        /\ \A j \in DOMAIN posts : j # i => posts'[j] = posts[j]
        BY <1>3, GoesInPlace DEF Requests, Stages, Goes
  <2>2. RowsAnswered' BY <1>1, <1>3, <2>1 DEF RowsAnswered, Requests
  <2> QED BY <1>1, <1>3, <2>1, <2>2 DEF RequestsGrow, Requests
<1> QED BY <1>2, <1>3 DEF ReceiptArrives

\* A request that fails on its way has no row.
LEMMA RequestFailsStep ==
  ASSUME Requests, NEW i \in DOMAIN posts, RequestFails(i)
  PROVE  RequestsGrow
<1>1. /\ rows' = rows /\ life' = life /\ buckets' = buckets
      /\ posts[i].stage \in {"funding", "creating", "waiting"}
      BY DEF RequestFails, OnlyPosts, Handling
<1>2. CASE posts' = [posts EXCEPT ![i].stage = "failed"] /\ funds' = funds
  <2>1. /\ posts' \in Seq(Post) /\ Len(posts') = Len(posts) /\ DOMAIN posts' = DOMAIN posts
        /\ posts'[i].stage = "failed"
        /\ \A j \in DOMAIN posts : j # i => posts'[j] = posts[j]
        BY <1>2, GoesInPlace DEF Requests, Stages
  <2>2. RowsAnswered' BY <1>1, <2>1 DEF RowsAnswered, Requests
  <2> QED BY <1>1, <1>2, <2>1, <2>2 DEF RequestsGrow, Requests
<1>3. CASE funds > 0 /\ funds' = funds - 1
           /\ posts' = [posts EXCEPT ![i].stage = "failed", ![i].tx = "pending"]
  <2>1. /\ posts' \in Seq(Post) /\ Len(posts') = Len(posts) /\ DOMAIN posts' = DOMAIN posts
        /\ posts'[i].stage = "failed"
        /\ \A j \in DOMAIN posts : j # i => posts'[j] = posts[j]
        BY <1>3, SendsInPlace DEF Requests, Stages
  <2>2. RowsAnswered' BY <1>1, <2>1 DEF RowsAnswered, Requests
  <2>3. funds' \in Nat BY <1>3 DEF Requests
  <2> QED BY <1>1, <2>1, <2>2, <2>3 DEF RequestsGrow, Requests
<1> QED BY <1>2, <1>3 DEF RequestFails

\* An answer that is lost leaves its row.
LEMMA AnswerLostStep ==
  ASSUME Requests, NEW i \in DOMAIN posts, AnswerLost(i)
  PROVE  RequestsGrow
<1>1. /\ rows' = rows /\ funds' = funds /\ life' = life /\ buckets' = buckets
      /\ posts' = [posts EXCEPT ![i].stage = "failed"]
      BY DEF AnswerLost, OnlyPosts, Goes
<1>2. /\ posts' \in Seq(Post) /\ Len(posts') = Len(posts) /\ DOMAIN posts' = DOMAIN posts
      /\ posts'[i].stage = "failed" /\ posts'[i].tx = posts[i].tx
      /\ \A j \in DOMAIN posts : j # i => posts'[j] = posts[j]
      BY <1>1, GoesInPlace DEF Requests, Stages
<1>3. RowsAnswered' BY <1>1, <1>2 DEF RowsAnswered, Requests
<1> QED BY <1>1, <1>2, <1>3 DEF RequestsGrow, Requests

\* A restart fails the requests in progress, which have no rows.
LEMMA ApiRestartsStep ==
  ASSUME Requests, ApiRestarts
  PROVE  RequestsGrow
<1> DEFINE after(i) == IF Handling(i) THEN [posts[i] EXCEPT !.stage = "failed"] ELSE posts[i]
<1>1. /\ rows' = rows /\ funds' = funds /\ life' = Len(posts)
      /\ buckets' = [k \in Keys |-> NoBucket]
      /\ posts' = [i \in 1 .. Len(posts) |-> after(i)]
      BY LenProperties DEF ApiRestarts, Requests
<1>2. \A i \in 1 .. Len(posts) :
        /\ after(i) \in Post /\ after(i).tx = posts[i].tx
        /\ after(i).stage \in {posts[i].stage, "failed"}
  <2> TAKE i \in 1 .. Len(posts)
  <2>1. posts[i] \in Post BY ElementOfSeq DEF Requests
  <2>2. [posts[i] EXCEPT !.stage = "failed"] \in Post BY <2>1 DEF Post, Stages
  <2>3. [posts[i] EXCEPT !.stage = "failed"].tx = posts[i].tx BY <2>1 DEF Post
  <2>4. [posts[i] EXCEPT !.stage = "failed"].stage = "failed" BY <2>1 DEF Post
  <2>5. CASE Handling(i) BY <2>2, <2>3, <2>4, <2>5
  <2>6. CASE ~Handling(i) BY <2>1, <2>6
  <2> QED BY <2>5, <2>6
<1> HIDE DEF after
<1>3. DOMAIN posts = 1 .. Len(posts) /\ Len(posts) \in Nat BY LenProperties DEF Requests
<1>4. posts' \in Seq(Post) /\ Len(posts') = Len(posts) /\ DOMAIN posts' = DOMAIN posts
      BY <1>1, <1>2, <1>3, IsASeq
<1>5. \A i \in DOMAIN posts :
        posts'[i].tx = posts[i].tx /\ posts'[i].stage \in {posts[i].stage, "failed"}
      BY <1>1, <1>2, <1>3
<1>6. RowsAnswered' BY <1>1, <1>4, <1>5 DEF RowsAnswered, Requests
<1>7. buckets' \in [Keys -> Bucket] BY <1>1 DEF Bucket, NoBucket
<1> QED BY <1>1, <1>3, <1>4, <1>6, <1>7 DEF RequestsGrow, Requests

\* Steps of the status cache, the clock and the wallet leave the requests alone.
LEMMA RequestsStay ==
  ASSUME Requests, UNCHANGED intentVars
  PROVE  RequestsGrow
<1>1. /\ posts' = posts /\ life' = life /\ rows' = rows
      /\ funds' = funds /\ buckets' = buckets
      BY DEF intentVars
<1>2. RowsAnswered' BY <1>1 DEF RowsAnswered, Requests
<1> QED BY <1>1, <1>2 DEF RequestsGrow, Requests

-----------------------------------------------------------------------------
(* The status cache.                                                        *)

Statuses == ReadsAlone /\ CacheFresh

StatusTypeOK ==
  /\ now \in 0 .. MaxTime
  /\ cache \in [since : Nat, doneAt : Nat, until : Nat] /\ reads \subseteq Read
  /\ told \in [Callers -> {{}, {NotTold}} \cup {{t} : t \in 0 .. MaxTime}]
  /\ served \in [since : Nat, doneAt : Nat, at : Nat]

\* What an answer may be, and what the cache and the reads are afterwards.
Answers ==
  /\ StatusTypeOK' /\ Statuses'
  /\ served'.since >= served.since
  /\ served'.at = served'.doneAt \/ served'.at < served'.doneAt + Ttl

\* A caller that asks while something is kept is answered with what is kept, and
\* otherwise waits for the one read.
LEMMA AskStatusStep ==
  ASSUME StatusTypeOK, Statuses, NEW c \in Callers, AskStatus(c)
  PROVE  Answers
<1>1. now' = now /\ cache' = cache BY DEF AskStatus, OnlyStatus, ServesCached, Joins
<1>2. now \in Nat /\ now <= MaxTime /\ MaxTime \in Nat /\ Ttl \in Nat
      BY MaxTimeAssumption, PublicApiAssumption DEF StatusTypeOK
<1>3. CASE ServesCached(c)
  <2>1. /\ cache.until > 0 /\ now < cache.until /\ reads' = reads
        /\ served' = [since |-> cache.since, doneAt |-> cache.doneAt, at |-> now]
        /\ told' = [d \in Callers |-> IF d \in {c} \ {Other} THEN {cache.since} ELSE told[d]]
        BY <1>3 DEF ServesCached, Cached, Tell
  <2>2. /\ cache.since \in Nat /\ cache.doneAt \in Nat /\ cache.until \in Nat
        /\ served.since \in Nat /\ cache.since <= now /\ served.since <= cache.since
        /\ cache.until = cache.doneAt + Ttl
        BY <2>1 DEF StatusTypeOK, Statuses, CacheFresh
  <2>3. cache.since \in 0 .. MaxTime BY <1>2, <2>2
  <2>4. reads = {} BY <2>1 DEF Statuses, ReadsAlone, Cached
  <2>5. told' \in [Callers -> {{}, {NotTold}} \cup {{t} : t \in 0 .. MaxTime}]
        BY <2>1, <2>3 DEF StatusTypeOK
  <2>6. /\ served' \in [since : Nat, doneAt : Nat, at : Nat]
        /\ served'.since = cache.since /\ served'.at = now /\ served'.doneAt = cache.doneAt
        BY <1>2, <2>1, <2>2
  <2>7. StatusTypeOK' BY <1>1, <2>1, <2>5, <2>6 DEF StatusTypeOK
  <2>8. ReadsAlone' BY <2>1, <2>4 DEF ReadsAlone
  <2>9. now < cache.doneAt + Ttl BY <2>1, <2>2
  <2>10. CacheFresh' BY <1>1, <2>2, <2>6, <2>9 DEF CacheFresh
  <2> QED BY <2>2, <2>6, <2>7, <2>8, <2>9, <2>10 DEF Answers, Statuses
<1>4. CASE Joins(c)
  <2>1. told' = told /\ served' = served /\ ~Cached BY <1>4 DEF Joins
  <2>2. served.since \in Nat /\ served.since <= now BY DEF StatusTypeOK, Statuses, CacheFresh
  <2>3. reads' \subseteq Read /\ (\A r, s \in reads' : r = s)
        /\ \A r \in reads' : served.since <= r.since /\ r.since <= now
    <3>1. CASE reads = {}
      <4> DEFINE first == [since |-> now, callers |-> {c}]
      <4>1. reads' = {first} BY <1>4, <3>1 DEF Joins
      <4>2. first \in Read /\ first.since = now BY <1>2 DEF Read
      <4> HIDE DEF first
      <4> QED BY <1>2, <2>2, <4>1, <4>2
    <3>2. CASE reads # {}
      <4>1. PICK r \in reads : reads = {r} BY <3>2 DEF Statuses, ReadsAlone
      <4> DEFINE joined == [r EXCEPT !.callers = @ \cup {c}]
      <4>2. reads' = {[s EXCEPT !.callers = @ \cup {c}] : s \in reads}
            BY <1>4, <3>2 DEF Joins
      <4>3. reads' = {joined} BY <4>1, <4>2
      <4>4. r \in Read BY <4>1 DEF StatusTypeOK
      <4>5. joined \in Read /\ joined.since = r.since BY <4>4 DEF Read
      <4>6. served.since <= r.since /\ r.since <= now BY <4>1 DEF Statuses, ReadsAlone
      <4> HIDE DEF joined
      <4> QED BY <4>3, <4>5, <4>6
    <3> QED BY <3>1, <3>2
  <2>4. StatusTypeOK' BY <1>1, <2>1, <2>3 DEF StatusTypeOK
  <2>5. ~Cached' BY <1>1, <2>1 DEF Cached
  <2>6. ReadsAlone' BY <1>1, <2>1, <2>3, <2>5 DEF ReadsAlone
  <2>7. CacheFresh' BY <1>1, <2>1 DEF CacheFresh, Statuses
  <2>8. served'.since >= served.since BY <2>1, <2>2
  <2>9. served'.at = served'.doneAt \/ served'.at < served'.doneAt + Ttl
        BY <2>1 DEF Statuses, CacheFresh
  <2> QED BY <2>4, <2>6, <2>7, <2>8, <2>9 DEF Answers, Statuses
<1> QED BY <1>3, <1>4 DEF AskStatus

\* Telling callers a time up to now, or that there is no answer.
LEMMA TellKeepsTold ==
  ASSUME StatusTypeOK, NEW callers, NEW value \in {NotTold} \cup 0 .. MaxTime,
         Tell(callers, value)
  PROVE  told' \in [Callers -> {{}, {NotTold}} \cup {{t} : t \in 0 .. MaxTime}]
BY DEF Tell, StatusTypeOK

\* The one read in flight ends: what it read is kept and answered.
LEMMA ReadEndsStep ==
  ASSUME StatusTypeOK, Statuses, NEW r \in reads, ReadEnds(r)
  PROVE  Answers
<1>1. /\ now' = now /\ reads' = reads \ {r}
      /\ cache' = [since |-> r.since, doneAt |-> now, until |-> now + Ttl]
      /\ served' = [since |-> r.since, doneAt |-> now, at |-> now]
      /\ Tell(r.callers, r.since)
      BY DEF ReadEnds, OnlyStatus
<1>2. now \in Nat /\ now <= MaxTime /\ MaxTime \in Nat /\ Ttl \in Nat
      BY MaxTimeAssumption, PublicApiAssumption DEF StatusTypeOK
<1>3. /\ r.since \in Nat /\ served.since \in Nat
      /\ served.since <= r.since /\ r.since <= now
      BY DEF StatusTypeOK, Read, Statuses, ReadsAlone
<1>4. reads' = {} BY <1>1 DEF Statuses, ReadsAlone
<1>5. r.since \in 0 .. MaxTime BY <1>2, <1>3
<1>6. told' \in [Callers -> {{}, {NotTold}} \cup {{t} : t \in 0 .. MaxTime}]
      BY <1>1, <1>5, TellKeepsTold
<1>7. /\ cache' \in [since : Nat, doneAt : Nat, until : Nat]
      /\ cache'.since = r.since /\ cache'.doneAt = now /\ cache'.until = now + Ttl
      BY <1>1, <1>2, <1>3
<1>8. /\ served' \in [since : Nat, doneAt : Nat, at : Nat]
      /\ served'.since = r.since /\ served'.doneAt = now /\ served'.at = now
      BY <1>1, <1>2, <1>3
<1>9. StatusTypeOK' BY <1>1, <1>4, <1>6, <1>7, <1>8 DEF StatusTypeOK
<1>10. ReadsAlone' BY <1>4 DEF ReadsAlone
<1>11. CacheFresh' BY <1>1, <1>3, <1>7, <1>8 DEF CacheFresh
<1> QED BY <1>3, <1>8, <1>9, <1>10, <1>11 DEF Answers, Statuses

\* What neither answers nor keeps anything new: reads that go on are among those
\* that there were, the kept status stays or is dropped, and time may pass.
LEMMA NothingAnswered ==
  ASSUME StatusTypeOK, Statuses, StatusTypeOK',
         served' = served, now <= now',
         cache' \in {cache, NoCache},
         \A s \in reads' : \E r \in reads : s.since = r.since,
         \A r, s \in reads' : r = s
  PROVE  Answers
<1>1. served.since \in Nat /\ now \in Nat /\ now' \in Nat /\ Ttl \in Nat /\ cache.until \in Nat
      /\ cache.since \in Nat
      BY MaxTimeAssumption, PublicApiAssumption DEF StatusTypeOK
<1>2. served.since <= now /\ cache.since <= now BY DEF Statuses, CacheFresh
<1>3. reads' # {} => ~Cached'
  <2> SUFFICES ASSUME reads' # {} PROVE ~Cached' OBVIOUS
  <2>1. reads # {} OBVIOUS
  <2>2. ~(cache.until > 0 /\ now < cache.until)
        BY <2>1 DEF Statuses, ReadsAlone, Cached
  <2>3. CASE cache' = cache BY <1>1, <2>2, <2>3 DEF Cached
  <2>4. CASE cache' = NoCache BY <2>4 DEF Cached, NoCache
  <2> QED BY <2>3, <2>4
<1>4. ASSUME NEW s \in reads' PROVE served'.since <= s.since /\ s.since <= now'
  <2>1. PICK r \in reads : s.since = r.since OBVIOUS
  <2>2. served.since <= r.since /\ r.since <= now /\ r.since \in Nat
        BY DEF Statuses, ReadsAlone, StatusTypeOK, Read
  <2> QED BY <1>1, <2>1, <2>2
<1>5. ReadsAlone' BY <1>3, <1>4 DEF ReadsAlone
<1>6. CacheFresh'
  <2>1. CASE cache' = cache BY <1>1, <1>2, <2>1 DEF CacheFresh, Statuses
  <2>2. CASE cache' = NoCache
    <3>1. cache'.since = 0 /\ cache'.until = 0 BY <2>2 DEF NoCache
    <3> QED BY <1>1, <1>2, <3>1 DEF CacheFresh, Statuses
  <2> QED BY <2>1, <2>2
<1>7. served'.since >= served.since BY <1>1
<1>8. served'.at = served'.doneAt \/ served'.at < served'.doneAt + Ttl
      BY DEF Statuses, CacheFresh
<1> QED BY <1>5, <1>6, <1>7, <1>8 DEF Answers, Statuses

\* A read that fails tells those who wait.
LEMMA ReadFailsStep ==
  ASSUME StatusTypeOK, Statuses, NEW r \in reads, ReadFails(r)
  PROVE  Answers
<1>1. /\ now' = now /\ reads' = reads \ {r} /\ cache' = cache /\ served' = served
      /\ Tell(r.callers, NotTold)
      BY DEF ReadFails, OnlyStatus
<1>2. told' \in [Callers -> {{}, {NotTold}} \cup {{t} : t \in 0 .. MaxTime}]
      BY <1>1, TellKeepsTold
<1>3. StatusTypeOK' BY <1>1, <1>2 DEF StatusTypeOK
<1>4. (\A s \in reads' : \E q \in reads : s.since = q.since) /\ \A q, s \in reads' : q = s
      BY <1>1 DEF Statuses, ReadsAlone
<1>5. now <= now' BY <1>1, MaxTimeAssumption DEF StatusTypeOK
<1> QED BY <1>1, <1>3, <1>4, <1>5, NothingAnswered

\* A restart drops the reads and what is kept.
LEMMA RestartDropsStatus ==
  ASSUME StatusTypeOK, Statuses, ApiRestarts
  PROVE  Answers
<1>1. /\ now' = now /\ reads' = {} /\ cache' = NoCache /\ served' = served
      /\ Tell(UNION {r.callers : r \in reads}, NotTold)
      BY DEF ApiRestarts
<1>2. told' \in [Callers -> {{}, {NotTold}} \cup {{t} : t \in 0 .. MaxTime}]
      BY <1>1, TellKeepsTold
<1>3. cache' \in [since : Nat, doneAt : Nat, until : Nat] BY <1>1 DEF NoCache
<1>4. StatusTypeOK' BY <1>1, <1>2, <1>3 DEF StatusTypeOK
<1>5. now <= now' BY <1>1, MaxTimeAssumption DEF StatusTypeOK
<1> QED BY <1>1, <1>4, <1>5, NothingAnswered

\* Time passes.
LEMMA PassStep ==
  ASSUME StatusTypeOK, Statuses, Pass
  PROVE  Answers
<1>1. now' \in now + 1 .. MaxTime /\ cache' = cache /\ reads' = reads /\ told' = told
      /\ served' = served
      BY DEF Pass, Tick, statusVars
<1>2. now' \in 0 .. MaxTime /\ now <= now' BY <1>1, MaxTimeAssumption DEF StatusTypeOK
<1>3. StatusTypeOK' BY <1>1, <1>2 DEF StatusTypeOK
<1>4. (\A s \in reads' : \E q \in reads : s.since = q.since) /\ \A q, s \in reads' : q = s
      BY <1>1 DEF Statuses, ReadsAlone
<1> QED BY <1>1, <1>2, <1>3, <1>4, NothingAnswered

\* The page that is loaded anew waits for nothing.
LEMMA ReloadDropsCallers ==
  ASSUME StatusTypeOK, Statuses, Reload
  PROVE  Answers
<1>1. /\ now' = now /\ cache' = cache /\ served' = served
      /\ told' = [c \in Callers |-> {}]
      /\ reads' = {[r EXCEPT !.callers = @ \ Flows] : r \in reads}
      BY DEF Reload
<1>2. reads' \subseteq Read BY <1>1 DEF StatusTypeOK, Read
<1>3. told' \in [Callers -> {{}, {NotTold}} \cup {{t} : t \in 0 .. MaxTime}] BY <1>1
<1>4. StatusTypeOK' BY <1>1, <1>2, <1>3 DEF StatusTypeOK
<1>5. \A s \in reads' : \E r \in reads : s.since = r.since BY <1>1 DEF StatusTypeOK, Read
<1>6. \A q, s \in reads' : q = s BY <1>1 DEF Statuses, ReadsAlone
<1>7. now <= now' BY <1>1, MaxTimeAssumption DEF StatusTypeOK
<1> QED BY <1>1, <1>4, <1>5, <1>6, <1>7, NothingAnswered

\* What an answer leaves when it is shown.
LEMMA ToldTaken ==
  ASSUME StatusTypeOK, Statuses, NEW f, told' = [told EXCEPT ![f] = {}],
         UNCHANGED <<now, cache, reads, served>>
  PROVE  Answers
<1>1. StatusTypeOK' BY DEF StatusTypeOK
<1>2. now <= now' BY MaxTimeAssumption DEF StatusTypeOK
<1>3. (\A s \in reads' : \E q \in reads : s.since = q.since) /\ \A q, s \in reads' : q = s
      BY DEF Statuses, ReadsAlone
<1> QED BY <1>1, <1>2, <1>3, NothingAnswered

\* Other steps leave the cache and the clock alone.
LEMMA StatusStays ==
  ASSUME StatusTypeOK, Statuses, UNCHANGED <<now, statusVars>>
  PROVE  Answers
<1>1. now' = now /\ cache' = cache /\ reads' = reads /\ told' = told /\ served' = served
      BY DEF statusVars
<1>2. StatusTypeOK' BY <1>1 DEF StatusTypeOK
<1>3. now <= now' BY <1>1, MaxTimeAssumption DEF StatusTypeOK
<1>4. (\A s \in reads' : \E q \in reads : s.since = q.since) /\ \A q, s \in reads' : q = s
      BY <1>1 DEF Statuses, ReadsAlone
<1> QED BY <1>1, <1>2, <1>3, <1>4, NothingAnswered

-----------------------------------------------------------------------------
(* Which steps of the page leave the server alone.                          *)

\* The steps of a flow that do not speak to the server.
PageAlone(f) ==
  \/ RefreshBegins(f) \/ ConnectBegins(f)
  \/ \E amount \in Amounts : ApproveBegins(f, amount) \/ RedeemBegins(f, amount)
  \/ DepositLands(f) \/ WalletRead(f) \/ AccountsAnswered(f) \/ ChainAnswered(f)
  \/ AllowanceChecked(f) \/ ApprovePrompted(f) \/ ApproveReceipt(f) \/ ApproveRead(f)
  \/ BurnPrompted(f) \/ BurnReceipt(f)

WalletAlone == AccountSwitched \/ ChainSwitched \/ \E i \in DOMAIN txs : TxMined(i)

Spends == budget' = budget \/ \E move \in Moves : Spend(move)

\* Reading the wallet may spend a fault.
LEMMA WalletStateSpends ==
  ASSUME NEW f, WalletState(f)
  PROVE  Spends
BY DEF WalletState, Spends, Moves

\* The other steps of the page and the wallet leave the server alone.
LEMMA PageLeavesServer ==
  ASSUME NEW f, PageAlone(f) \/ WalletAlone
  PROVE  UNCHANGED <<now, intentVars, statusVars>> /\ Spends
<1>1. CASE RefreshBegins(f) BY <1>1 DEF RefreshBegins, Spends, Moves
<1>2. CASE ConnectBegins(f) BY <1>2 DEF ConnectBegins, Spends, Moves
<1>3. CASE \E amount \in Amounts : ApproveBegins(f, amount)
      BY <1>3 DEF ApproveBegins, Spends, Moves
<1>4. CASE \E amount \in Amounts : RedeemBegins(f, amount)
      BY <1>4 DEF RedeemBegins, Spends, Moves
<1>5. CASE DepositLands(f) BY <1>5 DEF DepositLands, OnlyPage, apiVars, Spends
<1>6. CASE WalletRead(f) BY <1>6, WalletStateSpends DEF WalletRead, OnlyWallet
<1>7. CASE AccountsAnswered(f) BY <1>7 DEF AccountsAnswered, OnlyPage, apiVars, Spends
<1>8. CASE ChainAnswered(f) BY <1>8 DEF ChainAnswered, apiVars, Spends
<1>9. CASE AllowanceChecked(f) BY <1>9, WalletStateSpends DEF AllowanceChecked, OnlyWallet
<1>10. CASE ApprovePrompted(f) BY <1>10 DEF ApprovePrompted, Prompted, apiVars, Spends
<1>11. CASE ApproveReceipt(f) BY <1>11 DEF ApproveReceipt, OnlyPage, apiVars, Spends
<1>12. CASE ApproveRead(f) BY <1>12, WalletStateSpends DEF ApproveRead, OnlyWallet
<1>13. CASE BurnPrompted(f) BY <1>13 DEF BurnPrompted, Prompted, apiVars, Spends
<1>14. CASE BurnReceipt(f) BY <1>14 DEF BurnReceipt, OnlyPage, apiVars, Spends
<1>15. CASE AccountSwitched BY <1>15 DEF AccountSwitched, Spends, Moves
<1>16. CASE ChainSwitched BY <1>16 DEF ChainSwitched, Spends, Moves
<1>17. CASE \E i \in DOMAIN txs : TxMined(i)
  <2>1. PICK i \in DOMAIN txs : TxMined(i) BY <1>17
  <2>2. UNCHANGED apiVars BY <2>1 DEF TxMined
  <2> QED BY <2>2 DEF apiVars, Spends
<1> QED BY <1>1, <1>2, <1>3, <1>4, <1>5, <1>6, <1>7, <1>8, <1>9, <1>10, <1>11, <1>12,
           <1>13, <1>14, <1>15, <1>16, <1>17 DEF PageAlone, WalletAlone

\* The steps by the part of the system they belong to.
LEMMA NextByPart ==
  ASSUME Next
  PROVE  \/ (Serving \/ ApiFaults \/ Pass \/ OtherAsks) /\ OnlyApi
         \/ \E ip \in Ips, recipient \in Recipients : OtherPosts(ip, recipient) /\ OnlyApi
         \/ \E f \in Flows : PageAsks(f) \/ StatusLands(f) \/ DepositBegins(f) \/ PageAlone(f)
         \/ WalletAlone
         \/ Reload
<1>1. CASE \E f \in Flows : Begins(f) \/ Continues(f)
      BY <1>1 DEF Begins, Continues, PageAlone
<1> QED BY <1>1 DEF Next, WalletAlone

\* Budgets are only spent.
LEMMA BudgetIsSpent ==
  ASSUME budget \in [Moves -> Nat], Spends
  PROVE  budget' \in [Moves -> Nat]
<1>1. CASE budget' = budget BY <1>1
<1>2. CASE \E move \in Moves : Spend(move)
  <2>1. PICK move \in Moves : Spend(move) BY <1>2
  <2>2. budget[move] \in Nat /\ budget[move] > 0 BY <2>1 DEF Spend
  <2>3. budget[move] - 1 \in Nat BY <2>2
  <2> QED BY <2>1, <2>3 DEF Spend
<1> QED BY <1>1, <1>2 DEF Spends

\* Every step spends at most from one budget.
LEMMA EveryStepSpends ==
  ASSUME Next
  PROVE  Spends
<1>1. CASE Serving
      BY <1>1 DEF Serving, FundingChecked, IntentSent, ReceiptArrives, IntentMined, ReadEnds, Spends
<1>2. CASE ApiFaults
      BY <1>2 DEF ApiFaults, RequestFails, AnswerLost, ReadFails, ApiRestarts, Spends, Moves
<1>3. CASE Pass \/ OtherAsks BY <1>3 DEF Pass, OtherAsks, Spends, Moves
<1>4. CASE \E ip \in Ips, recipient \in Recipients : OtherPosts(ip, recipient)
      BY <1>4 DEF OtherPosts, Spends, Moves
<1>5. CASE \E f \in Flows : PageAsks(f) BY <1>5 DEF PageAsks, Spends
<1>6. CASE \E f \in Flows : StatusLands(f) BY <1>6 DEF StatusLands, Spends
<1>7. CASE \E f \in Flows : DepositBegins(f) BY <1>7 DEF DepositBegins, Spends, Moves
<1>8. CASE \E f \in Flows : PageAlone(f) BY <1>8, PageLeavesServer
<1>9. CASE WalletAlone BY <1>9, PageLeavesServer
<1>10. CASE Reload BY <1>10 DEF Reload, Spends, Moves
<1> QED BY <1>1, <1>2, <1>3, <1>4, <1>5, <1>6, <1>7, <1>8, <1>9, <1>10, NextByPart

\* Every step answers with nothing older than before.
LEMMA StatusStep ==
  ASSUME StatusTypeOK, Statuses, [Next]_vars
  PROVE  Answers
<1>1. CASE \E r \in reads : ReadEnds(r) BY <1>1, ReadEndsStep
<1>2. CASE Serving /\ ~\E r \in reads : ReadEnds(r)
  <2>1. UNCHANGED <<now, statusVars>>
        BY <1>2 DEF Serving, FundingChecked, IntentSent, ReceiptArrives, IntentMined, OnlyPosts
  <2> QED BY <2>1, StatusStays
<1>3. CASE \E r \in reads : ReadFails(r) BY <1>3, ReadFailsStep
<1>4. CASE \E i \in DOMAIN posts : RequestFails(i) \/ AnswerLost(i)
  <2>1. UNCHANGED <<now, statusVars>> BY <1>4 DEF RequestFails, AnswerLost, OnlyPosts
  <2> QED BY <2>1, StatusStays
<1>5. CASE ApiRestarts BY <1>5, RestartDropsStatus
<1>6. CASE Pass BY <1>6, PassStep
<1>7. CASE OtherAsks BY <1>7, AskStatusStep, PublicApiAssumption DEF OtherAsks
<1>8. CASE \E ip \in Ips, recipient \in Recipients : OtherPosts(ip, recipient)
  <2>1. UNCHANGED <<now, statusVars>> BY <1>8 DEF OtherPosts
  <2> QED BY <2>1, StatusStays
<1>9. CASE \E f \in Flows : PageAsks(f) BY <1>9, AskStatusStep DEF PageAsks, Flows
<1>10. CASE \E f \in Flows : StatusLands(f)
  <2>1. PICK f \in Flows : StatusLands(f) BY <1>10
  <2>2. told' = [told EXCEPT ![f] = {}] /\ UNCHANGED <<now, cache, reads, served>>
        BY <2>1 DEF StatusLands
  <2> QED BY <2>2, ToldTaken
<1>11. CASE \E f \in Flows : DepositBegins(f)
  <2>1. UNCHANGED <<now, statusVars>> BY <1>11 DEF DepositBegins
  <2> QED BY <2>1, StatusStays
<1>12. CASE WalletAlone \/ \E f \in Flows : PageAlone(f)
  <2>1. UNCHANGED <<now, statusVars>> BY <1>12, PageLeavesServer
  <2> QED BY <2>1, StatusStays
<1>13. CASE Reload BY <1>13, ReloadDropsCallers
<1>14. CASE UNCHANGED vars
  <2>1. UNCHANGED <<now, statusVars>> BY <1>14 DEF vars, apiVars
  <2> QED BY <2>1, StatusStays
<1> QED BY <1>1, <1>2, <1>3, <1>4, <1>5, <1>6, <1>7, <1>8, <1>9, <1>10, <1>11, <1>12,
           <1>13, <1>14, NextByPart DEF ApiFaults

\* Every step keeps the requests and their rows.
LEMMA RequestsStep ==
  ASSUME ApiTypeOK, Requests, [Next]_vars
  PROVE  RequestsGrow
<1>1. CASE Serving /\ ~\E r \in reads : ReadEnds(r)
      BY <1>1, FundingCheckedStep, IntentSentStep, ReceiptArrivesStep, IntentMinedStep DEF Serving
<1>2. CASE \E r \in reads : ReadEnds(r) \/ ReadFails(r)
  <2>1. UNCHANGED intentVars BY <1>2 DEF ReadEnds, ReadFails, OnlyStatus
  <2> QED BY <2>1, RequestsStay
<1>3. CASE ApiFaults /\ ~\E r \in reads : ReadFails(r)
      BY <1>3, RequestFailsStep, AnswerLostStep, ApiRestartsStep DEF ApiFaults
<1>4. CASE Pass \/ OtherAsks
  <2>1. UNCHANGED intentVars BY <1>4 DEF Pass, OtherAsks, AskStatus, OnlyStatus
  <2> QED BY <2>1, RequestsStay
<1>5. CASE \E ip \in Ips, recipient \in Recipients : OtherPosts(ip, recipient)
      BY <1>5, PostDepositStep, PublicApiAssumption DEF OtherPosts
<1>6. CASE \E f \in Flows : PageAsks(f) \/ StatusLands(f)
  <2>1. UNCHANGED intentVars BY <1>6 DEF PageAsks, StatusLands, AskStatus, OnlyStatus
  <2> QED BY <2>1, RequestsStay
<1>7. CASE \E f \in Flows : DepositBegins(f)
      BY <1>7, PostDepositStep, WebPageAssumption DEF DepositBegins, Flows
<1>8. CASE WalletAlone \/ \E f \in Flows : PageAlone(f)
  <2>1. UNCHANGED intentVars BY <1>8, PageLeavesServer
  <2> QED BY <2>1, RequestsStay
<1>9. CASE Reload
  <2>1. UNCHANGED intentVars BY <1>9 DEF Reload
  <2> QED BY <2>1, RequestsStay
<1>10. CASE UNCHANGED vars
  <2>1. UNCHANGED intentVars BY <1>10 DEF vars, apiVars
  <2> QED BY <2>1, RequestsStay
<1> QED BY <1>1, <1>2, <1>3, <1>4, <1>5, <1>6, <1>7, <1>8, <1>9, <1>10, NextByPart DEF ApiFaults

-----------------------------------------------------------------------------
(* Types: the page and the wallet.                                          *)

Steps == {"asking", "told", "reading", "chain", "checking", "approving", "approved",
          "rereading", "burning", "burned"}

\* A flow of the same call, further on.
GoesOn(f, r) ==
  /\ r \in Flow /\ r.kind = flow[f].kind /\ r.amount = flow[f].amount
  /\ r.alone = flow[f].alone

\* A flow that does nothing is a flow.
LEMMA NoFlowIsFlow ==
  /\ NoFlow \in Flow /\ NoFlow.at = "none" /\ NoFlow.alone = FALSE
  /\ NoFlow.kind = "refresh"
BY DEF NoFlow, Flow

\* A flow moves to another await.
LEMMA MovesToStep ==
  ASSUME PageTypeOK, NEW f \in Flows, NEW at \in Steps, MovesTo(f, at)
  PROVE  \E r \in Flow : /\ flow' = [flow EXCEPT ![f] = r] /\ GoesOn(f, r)
                         /\ r.at = at /\ r.account = account /\ r.tx = flow[f].tx
<1> DEFINE r == [flow[f] EXCEPT !.at = at, !.account = account]
<1>1. flow[f] \in Flow /\ account \in Accounts \cup {NoAccount} BY DEF PageTypeOK
<1>2. /\ r \in Flow /\ r.at = at /\ r.account = account /\ r.tx = flow[f].tx
      /\ r.kind = flow[f].kind /\ r.amount = flow[f].amount /\ r.alone = flow[f].alone
      BY <1>1 DEF Flow, Steps, WalletKinds
<1>3. flow' = [flow EXCEPT ![f] = r] BY <1>1 DEF MovesTo, Flow
<1> HIDE DEF r
<1> QED BY <1>2, <1>3 DEF GoesOn

\* A flow moves on for the account it has.
LEMMA GoesOnStep ==
  ASSUME PageTypeOK, NEW f \in Flows, NEW at \in Steps, flow' = [flow EXCEPT ![f].at = at]
  PROVE  \E r \in Flow : /\ flow' = [flow EXCEPT ![f] = r] /\ GoesOn(f, r)
                         /\ r.at = at /\ r.account = flow[f].account /\ r.tx = flow[f].tx
<1> DEFINE r == [flow[f] EXCEPT !.at = at]
<1>1. flow[f] \in Flow BY DEF PageTypeOK
<1>2. /\ r \in Flow /\ r.at = at /\ r.account = flow[f].account /\ r.tx = flow[f].tx
      /\ r.kind = flow[f].kind /\ r.amount = flow[f].amount /\ r.alone = flow[f].alone
      BY <1>1 DEF Flow, Steps, WalletKinds
<1>3. flow' = [flow EXCEPT ![f] = r] OBVIOUS
<1> HIDE DEF r
<1> QED BY <1>2, <1>3 DEF GoesOn

\* What the other flows are while one moves.
LEMMA OneFlowMoves ==
  ASSUME PageTypeOK, NEW f \in Flows, NEW r \in Flow, flow' = [flow EXCEPT ![f] = r]
  PROVE  /\ flow' \in [Flows -> Flow] /\ flow'[f] = r
         /\ \A g \in Flows \ {f} : flow'[g] = flow[g]
BY DEF PageTypeOK

\* A flow ends: it is blank, and resets what it has set.
LEMMA EndsStep ==
  ASSUME PageTypeOK, NEW f \in Flows, Ends(f)
  PROVE  /\ flow' = [flow EXCEPT ![f] = NoFlow] /\ flow' \in [Flows -> Flow]
         /\ busy' \in BOOLEAN /\ walletBusy' \in BOOLEAN
<1>1. flow' = [flow EXCEPT ![f] = NoFlow] BY DEF Ends
<1>2. flow' \in [Flows -> Flow] BY <1>1, NoFlowIsFlow, OneFlowMoves
<1>3. busy' \in BOOLEAN /\ walletBusy' \in BOOLEAN BY DEF Ends
<1> QED BY <1>1, <1>2, <1>3

\* Flows that are disturbed are the same flows.
LEMMA DisturbedFlows ==
  ASSUME PageTypeOK
  PROVE  /\ Disturbed \in [Flows -> Flow]
         /\ \A g \in Flows : /\ Disturbed[g].alone = FALSE
                             /\ Disturbed[g].kind = flow[g].kind
                             /\ Disturbed[g].at = flow[g].at
                             /\ Disturbed[g].tx = flow[g].tx
                             /\ flow[g] = NoFlow => Disturbed[g] = NoFlow
<1>1. /\ Disturbed \in [Flows -> Flow]
      /\ \A g \in Flows : /\ Disturbed[g].alone = FALSE
                          /\ Disturbed[g].kind = flow[g].kind
                          /\ Disturbed[g].at = flow[g].at
                          /\ Disturbed[g].tx = flow[g].tx
  <2> DEFINE d(p) == [p EXCEPT !.alone = FALSE]
  <2>1. ASSUME NEW p \in Flow
        PROVE  /\ d(p) \in Flow /\ d(p).alone = FALSE /\ d(p).kind = p.kind
               /\ d(p).at = p.at /\ d(p).tx = p.tx
        BY DEF Flow
  <2>2. Disturbed = [g \in Flows |-> d(flow[g])] BY DEF Disturbed
  <2>3. \A g \in Flows : flow[g] \in Flow BY DEF PageTypeOK
  <2> HIDE DEF d
  <2> QED BY <2>1, <2>2, <2>3
<1>2. ASSUME NEW g \in Flows, flow[g] = NoFlow PROVE Disturbed[g] = NoFlow
  <2>1. Disturbed[g] = [NoFlow EXCEPT !.alone = FALSE] BY <1>2 DEF Disturbed
  <2>2. ASSUME NEW p \in Flow, p.alone = FALSE PROVE [p EXCEPT !.alone = FALSE] = p
        BY <2>2 DEF Flow
  <2>3. [NoFlow EXCEPT !.alone = FALSE] = NoFlow BY <2>2, NoFlowIsFlow
  <2> QED BY <2>1, <2>3
<1> QED BY <1>1, <1>2

\* A flow that starts takes a place, beside what goes on.
LEMMA StartsStep ==
  ASSUME PageTypeOK, NEW f \in Flows, NEW new \in Flow, Starts(f, new), new.alone = FALSE
  PROVE  /\ flow' \in [Flows -> Flow] /\ At(f, "none")
         /\ flow'[f].kind = new.kind /\ flow'[f].at = new.at /\ flow'[f].tx = new.tx
         /\ flow'[f].alone => new.kind \in WalletKinds /\ Undisturbed
         /\ \A g \in Flows \ {f} : /\ flow'[g].kind = flow[g].kind
                                   /\ flow'[g].at = flow[g].at
                                   /\ flow'[g].tx = flow[g].tx
                                   /\ flow[g] = NoFlow => flow'[g] = NoFlow
         /\ new.kind \in WalletKinds => \A g \in Flows \ {f} : ~flow'[g].alone
         /\ new.kind \notin WalletKinds =>
              flow'[f] = new /\ \A g \in Flows \ {f} : flow'[g] = flow[g]
<1>1. At(f, "none") BY DEF Starts, Free
<1>2. CASE new.kind \in WalletKinds
  <2> DEFINE r == [new EXCEPT !.alone = Undisturbed]
  <2>1. Undisturbed \in BOOLEAN BY DEF Undisturbed
  <2>2. /\ r \in Flow /\ r.alone = Undisturbed /\ r.kind = new.kind /\ r.at = new.at
        /\ r.tx = new.tx
        BY <2>1 DEF Flow
  <2>3. flow' = [Disturbed EXCEPT ![f] = r] BY <1>2 DEF Starts
  <2> HIDE DEF r
  <2>4. flow' \in [Flows -> Flow] /\ flow'[f] = r /\ \A g \in Flows \ {f} : flow'[g] = Disturbed[g]
        BY <2>2, <2>3, DisturbedFlows
  <2> QED BY <1>1, <1>2, <2>2, <2>4, DisturbedFlows
<1>3. CASE new.kind \notin WalletKinds
  <2>1. flow' = [flow EXCEPT ![f] = new] BY <1>3 DEF Starts
  <2>2. /\ flow' \in [Flows -> Flow] /\ flow'[f] = new
        /\ \A g \in Flows \ {f} : flow'[g] = flow[g]
        BY <2>1, OneFlowMoves
  <2> QED BY <1>1, <1>3, <2>2
<1> QED BY <1>2, <1>3

\* The wallet's answer is a balance and an allowance.
LEMMA WalletStateTypes ==
  ASSUME PageTypeOK, NEW f \in Flows, WalletState(f)
  PROVE  balance' \in Nat /\ allowance' \in Nat
<1>1. flow[f].account \in Accounts \cup {NoAccount} BY DEF PageTypeOK, Flow
<1>2. CASE flow[f].account = NoAccount BY <1>2 DEF WalletState, PageTypeOK
<1>3. CASE flow[f].account # NoAccount
  <2>1. token[flow[f].account] \in [balance : Nat, allowance : Nat] BY <1>1, <1>3 DEF PageTypeOK
  <2> QED BY <1>3, <2>1 DEF WalletState
<1> QED BY <1>2, <1>3

\* The types of what the page has read and set, and of the wallet.
PurseTypeOK ==
  /\ shown \in Nat \cup {NotTold} /\ ticket \in Nat
  /\ account \in Accounts \cup {NoAccount} /\ balance \in Nat /\ allowance \in Nat
  /\ token \in [Accounts -> [balance : Nat, allowance : Nat]]
  /\ txs \in Seq(Tx) /\ sepolia \in BOOLEAN

FlagsTypeOK == busy \in BOOLEAN /\ walletBusy \in BOOLEAN

\* The page's types are those of its flows, its flags and what it has read.
LEMMA PageTypes ==
  PageTypeOK <=> flow \in [Flows -> Flow] /\ PurseTypeOK /\ FlagsTypeOK
BY DEF PageTypeOK, PurseTypeOK, FlagsTypeOK

\* A flow ends or moves on to another await.
LEMMA EndsOrMovesTypes ==
  ASSUME PageTypeOK, NEW f \in Flows, NEW at \in Steps,
         \/ Ends(f)
         \/ MovesTo(f, at) /\ FlagsTypeOK'
         \/ flow' = [flow EXCEPT ![f].at = at] /\ FlagsTypeOK'
  PROVE  flow' \in [Flows -> Flow] /\ FlagsTypeOK'
<1>1. CASE Ends(f) BY <1>1, EndsStep DEF FlagsTypeOK
<1>2. CASE MovesTo(f, at) /\ FlagsTypeOK'
  <2>1. PICK r \in Flow : flow' = [flow EXCEPT ![f] = r] BY <1>2, MovesToStep
  <2> QED BY <1>2, <2>1, OneFlowMoves
<1>3. CASE flow' = [flow EXCEPT ![f].at = at] /\ FlagsTypeOK'
  <2>1. PICK r \in Flow : flow' = [flow EXCEPT ![f] = r] BY <1>3, GoesOnStep
  <2> QED BY <1>3, <2>1, OneFlowMoves
<1> QED BY <1>1, <1>2, <1>3

\* What each of the page's beginnings starts.
LEMMA BeginningTypes ==
  ASSUME NEW n \in Nat, NEW amount \in Nat
  PROVE  /\ [NoFlow EXCEPT !.at = "asking"] \in Flow
         /\ [NoFlow EXCEPT !.kind = "deposit", !.at = "posted", !.tx = n] \in Flow
         /\ [NoFlow EXCEPT !.kind = "connect", !.at = "accounts"] \in Flow
         /\ [NoFlow EXCEPT !.kind = "approve", !.at = "chain", !.amount = amount] \in Flow
         /\ [NoFlow EXCEPT !.kind = "redeem", !.at = "chain", !.amount = amount] \in Flow
BY DEF NoFlow, Flow, WalletKinds

\* A flow that begins leaves what the page has read.
LEMMA BeginsTypes ==
  ASSUME ApiTypeOK, PageTypeOK, NEW f \in Flows,
         \/ RefreshBegins(f) \/ DepositBegins(f) \/ ConnectBegins(f)
         \/ \E amount \in Amounts : ApproveBegins(f, amount) \/ RedeemBegins(f, amount)
  PROVE  PageTypeOK'
<1>1. PurseTypeOK /\ FlagsTypeOK BY PageTypes
<1>2. Len(posts) + 1 \in Nat BY LenProperties DEF ApiTypeOK
<1>3. \A a \in Amounts : a \in Nat BY WebPageAssumption
<1>4. CASE RefreshBegins(f)
  <2>1. Starts(f, [NoFlow EXCEPT !.at = "asking"]) /\ PurseTypeOK' /\ FlagsTypeOK'
        BY <1>1, <1>4 DEF RefreshBegins, PurseTypeOK, FlagsTypeOK, walletVars, Flags, Purse
  <2>2. [NoFlow EXCEPT !.at = "asking"] \in Flow
        /\ [NoFlow EXCEPT !.at = "asking"].alone = FALSE
        BY <1>2, BeginningTypes DEF NoFlow
  <2>3. flow' \in [Flows -> Flow] BY <2>1, <2>2, StartsStep
  <2> QED BY <2>1, <2>3 DEF PageTypeOK, PurseTypeOK, FlagsTypeOK
<1>5. CASE DepositBegins(f)
  <2> DEFINE new == [NoFlow EXCEPT !.kind = "deposit", !.at = "posted", !.tx = Len(posts) + 1]
  <2>1. Starts(f, new) /\ PurseTypeOK' /\ FlagsTypeOK'
        BY <1>1, <1>5 DEF DepositBegins, PurseTypeOK, FlagsTypeOK, walletVars, Flags, Purse
  <2>2. new \in Flow /\ new.alone = FALSE BY <1>2, BeginningTypes DEF NoFlow
  <2> HIDE DEF new
  <2>3. flow' \in [Flows -> Flow] BY <2>1, <2>2, StartsStep
  <2> QED BY <2>1, <2>3 DEF PageTypeOK, PurseTypeOK, FlagsTypeOK
<1>6. CASE ConnectBegins(f)
  <2> DEFINE new == [NoFlow EXCEPT !.kind = "connect", !.at = "accounts"]
  <2>1. Starts(f, new) /\ PurseTypeOK' /\ FlagsTypeOK'
        BY <1>1, <1>6 DEF ConnectBegins, PurseTypeOK, FlagsTypeOK, walletVars, Flags, Purse
  <2>2. new \in Flow /\ new.alone = FALSE BY <1>2, BeginningTypes DEF NoFlow
  <2> HIDE DEF new
  <2>3. flow' \in [Flows -> Flow] BY <2>1, <2>2, StartsStep
  <2> QED BY <2>1, <2>3 DEF PageTypeOK, PurseTypeOK, FlagsTypeOK
<1>7. CASE \E amount \in Amounts : ApproveBegins(f, amount)
  <2>0. PICK amount \in Amounts : ApproveBegins(f, amount) BY <1>7
  <2> DEFINE new == [NoFlow EXCEPT !.kind = "approve", !.at = "chain", !.amount = amount]
  <2>1. Starts(f, new) /\ PurseTypeOK' /\ FlagsTypeOK'
        BY <1>1, <2>0 DEF ApproveBegins, PurseTypeOK, FlagsTypeOK, walletVars, Flags, Purse
  <2>2. new \in Flow /\ new.alone = FALSE BY <1>2, <1>3, BeginningTypes DEF NoFlow
  <2> HIDE DEF new
  <2>3. flow' \in [Flows -> Flow] BY <2>1, <2>2, StartsStep
  <2> QED BY <2>1, <2>3 DEF PageTypeOK, PurseTypeOK, FlagsTypeOK
<1>8. CASE \E amount \in Amounts : RedeemBegins(f, amount)
  <2>0. PICK amount \in Amounts : RedeemBegins(f, amount) BY <1>8
  <2> DEFINE new == [NoFlow EXCEPT !.kind = "redeem", !.at = "chain", !.amount = amount]
  <2>1. Starts(f, new) /\ PurseTypeOK' /\ FlagsTypeOK'
        BY <1>1, <2>0 DEF RedeemBegins, PurseTypeOK, FlagsTypeOK, walletVars, Flags, Purse
  <2>2. new \in Flow /\ new.alone = FALSE BY <1>2, <1>3, BeginningTypes DEF NoFlow
  <2> HIDE DEF new
  <2>3. flow' \in [Flows -> Flow] BY <2>1, <2>2, StartsStep
  <2> QED BY <2>1, <2>3 DEF PageTypeOK, PurseTypeOK, FlagsTypeOK
<1> QED BY <1>4, <1>5, <1>6, <1>7, <1>8

\* A flow that goes on leaves the page's types.
LEMMA ContinuesTypes ==
  ASSUME ApiTypeOK, PageTypeOK, NEW f \in Flows,
         \/ PageAsks(f) \/ StatusLands(f) \/ DepositLands(f) \/ WalletRead(f)
         \/ AccountsAnswered(f) \/ ChainAnswered(f) \/ AllowanceChecked(f)
         \/ ApproveReceipt(f) \/ ApproveRead(f) \/ BurnReceipt(f)
  PROVE  PageTypeOK'
<1>1. PurseTypeOK /\ FlagsTypeOK /\ flow[f] \in Flow BY PageTypes
<1>2. CASE PageAsks(f)
  <2>1. flow' = [flow EXCEPT ![f].at = "told"] /\ PurseTypeOK' /\ FlagsTypeOK'
        BY <1>1, <1>2 DEF PageAsks, PurseTypeOK, FlagsTypeOK, walletVars, Flags, Purse
  <2>2. flow' \in [Flows -> Flow] BY <2>1, EndsOrMovesTypes DEF Steps
  <2> QED BY <2>1, <2>2 DEF PageTypeOK, PurseTypeOK, FlagsTypeOK
<1>3. CASE StatusLands(f)
  <2>1. told[f] \in {{}, {NotTold}} \cup {{t} : t \in 0 .. MaxTime}
        BY DEF ApiTypeOK, Flows
  <2>2. shown' \in Nat \cup {NotTold} BY <1>1, <1>3, <2>1 DEF StatusLands, PurseTypeOK
  <2>3. PurseTypeOK' BY <1>1, <1>3, <2>2 DEF StatusLands, PurseTypeOK, walletVars, Purse
  <2>4. Ends(f) \/ (MovesTo(f, "reading") /\ FlagsTypeOK')
        BY <1>1, <1>3 DEF StatusLands, FlagsTypeOK, Flags
  <2>5. flow' \in [Flows -> Flow] /\ FlagsTypeOK' BY <2>4, EndsOrMovesTypes DEF Steps
  <2> QED BY <2>3, <2>5 DEF PageTypeOK, PurseTypeOK, FlagsTypeOK
<1>4. CASE DepositLands(f)
  <2>1. flow[f].tx \in Nat BY <1>1 DEF Flow
  <2>2. PurseTypeOK'
        BY <1>1, <1>4, <2>1 DEF DepositLands, PurseTypeOK, OnlyPage, walletVars, Purse
  <2>3. Ends(f) \/ (flow' = [flow EXCEPT ![f].at = "asking"] /\ FlagsTypeOK')
        BY <1>1, <1>4 DEF DepositLands, FlagsTypeOK, Flags
  <2>4. flow' \in [Flows -> Flow] /\ FlagsTypeOK' BY <2>3, EndsOrMovesTypes DEF Steps
  <2> QED BY <2>2, <2>4 DEF PageTypeOK, PurseTypeOK, FlagsTypeOK
<1>5. CASE WalletRead(f)
  <2>1. balance' \in Nat /\ allowance' \in Nat BY <1>5, WalletStateTypes DEF WalletRead
  <2>2. PurseTypeOK' BY <1>1, <1>5, <2>1 DEF WalletRead, OnlyWallet, PurseTypeOK, walletVars
  <2>3. Ends(f) BY <1>5 DEF WalletRead
  <2>4. flow' \in [Flows -> Flow] /\ FlagsTypeOK' BY <2>3, EndsOrMovesTypes DEF Steps
  <2> QED BY <2>2, <2>4 DEF PageTypeOK, PurseTypeOK, FlagsTypeOK
<1>6. CASE AccountsAnswered(f)
  <2>1. PurseTypeOK' BY <1>1, <1>6 DEF AccountsAnswered, OnlyPage, PurseTypeOK, walletVars
  <2>2. Ends(f) \/ (flow' = [flow EXCEPT ![f].at = "chain"] /\ FlagsTypeOK')
        BY <1>1, <1>6 DEF AccountsAnswered, FlagsTypeOK, Flags
  <2>3. flow' \in [Flows -> Flow] /\ FlagsTypeOK' BY <2>2, EndsOrMovesTypes DEF Steps
  <2> QED BY <2>1, <2>3 DEF PageTypeOK, PurseTypeOK, FlagsTypeOK
<1>7. CASE ChainAnswered(f)
  <2>1. PurseTypeOK' BY <1>1, <1>7 DEF ChainAnswered, PurseTypeOK, Purse
  <2>2. \/ Ends(f)
        \/ \E at \in {"reading", "approving", "checking"} : MovesTo(f, at) /\ FlagsTypeOK'
        BY <1>1, <1>7 DEF ChainAnswered, OnSepolia, FlagsTypeOK, Flags
  <2>3. flow' \in [Flows -> Flow] /\ FlagsTypeOK' BY <2>2, EndsOrMovesTypes DEF Steps
  <2> QED BY <2>1, <2>3 DEF PageTypeOK, PurseTypeOK, FlagsTypeOK
<1>8. CASE AllowanceChecked(f)
  <2>1. balance' \in Nat /\ allowance' \in Nat BY <1>8, WalletStateTypes DEF AllowanceChecked
  <2>2. PurseTypeOK'
        BY <1>1, <1>8, <2>1 DEF AllowanceChecked, OnlyWallet, PurseTypeOK, walletVars
  <2>3. \E at \in {"approving", "burning"} : MovesTo(f, at) /\ FlagsTypeOK'
        BY <1>1, <1>8 DEF AllowanceChecked, FlagsTypeOK
  <2>4. flow' \in [Flows -> Flow] /\ FlagsTypeOK' BY <2>3, EndsOrMovesTypes DEF Steps
  <2> QED BY <2>2, <2>4 DEF PageTypeOK, PurseTypeOK, FlagsTypeOK
<1>9. CASE ApproveReceipt(f)
  <2>1. PurseTypeOK'
        BY <1>1, <1>9 DEF ApproveReceipt, OnlyPage, PurseTypeOK, walletVars, Purse
  <2>2. Ends(f) \/ (MovesTo(f, "rereading") /\ FlagsTypeOK')
        BY <1>1, <1>9 DEF ApproveReceipt, FlagsTypeOK, Flags
  <2>3. flow' \in [Flows -> Flow] /\ FlagsTypeOK' BY <2>2, EndsOrMovesTypes DEF Steps
  <2> QED BY <2>1, <2>3 DEF PageTypeOK, PurseTypeOK, FlagsTypeOK
<1>10. CASE ApproveRead(f)
  <2>1. balance' \in Nat /\ allowance' \in Nat BY <1>10, WalletStateTypes DEF ApproveRead
  <2>2. PurseTypeOK' BY <1>1, <1>10, <2>1 DEF ApproveRead, OnlyWallet, PurseTypeOK, walletVars
  <2>3. Ends(f) \/ (MovesTo(f, "burning") /\ FlagsTypeOK')
        BY <1>1, <1>10 DEF ApproveRead, FlagsTypeOK
  <2>4. flow' \in [Flows -> Flow] /\ FlagsTypeOK' BY <2>3, EndsOrMovesTypes DEF Steps
  <2> QED BY <2>2, <2>4 DEF PageTypeOK, PurseTypeOK, FlagsTypeOK
<1>11. CASE BurnReceipt(f)
  <2>1. PurseTypeOK'
        BY <1>1, <1>11 DEF BurnReceipt, OnlyPage, PurseTypeOK, walletVars, Purse
  <2>2. Ends(f) \/ (flow' = [flow EXCEPT ![f].at = "asking"] /\ FlagsTypeOK')
        BY <1>1, <1>11 DEF BurnReceipt, FlagsTypeOK, Flags
  <2>3. flow' \in [Flows -> Flow] /\ FlagsTypeOK' BY <2>2, EndsOrMovesTypes DEF Steps
  <2> QED BY <2>1, <2>3 DEF PageTypeOK, PurseTypeOK, FlagsTypeOK
<1> QED BY <1>2, <1>3, <1>4, <1>5, <1>6, <1>7, <1>8, <1>9, <1>10, <1>11

\* A transaction is sent behind the others, by the flow that then awaits it.
SentBy(f, kind, t) ==
  /\ txs' \in Seq(Tx) /\ Len(txs') = Len(txs) + 1
  /\ txs'[Len(txs) + 1] = t /\ \A i \in DOMAIN txs : txs'[i] = txs[i]
  /\ DOMAIN txs' = DOMAIN txs \cup {Len(txs) + 1}
  /\ t.kind = kind /\ t.from = flow[f].account /\ t.amount = flow[f].amount
  /\ t.sepolia = sepolia /\ t.state = "pending" /\ t.alone = flow[f].alone

AwaitsSent(f, sent, r) ==
  /\ flow' = [flow EXCEPT ![f] = r] /\ GoesOn(f, r) /\ r.account = flow[f].account
  /\ r.at = sent /\ r.tx = Len(txs) + 1

LEMMA PromptedSends ==
  ASSUME PageTypeOK, NEW f \in Flows, NEW asked, NEW sent \in {"approved", "burned"},
         NEW kind \in {"approve", "burn"}, Prompted(f, asked, sent, kind), ~Ends(f)
  PROVE  /\ flow[f].account # NoAccount
         /\ \E t \in Tx : SentBy(f, kind, t)
         /\ \E r \in Flow : AwaitsSent(f, sent, r)
<1> DEFINE t == [kind |-> kind, from |-> flow[f].account, amount |-> flow[f].amount,
                 sepolia |-> sepolia, state |-> "pending", alone |-> flow[f].alone]
           r == [flow[f] EXCEPT !.at = sent, !.tx = Len(txs) + 1]
<1>1. flow[f] \in Flow /\ txs \in Seq(Tx) /\ sepolia \in BOOLEAN BY DEF PageTypeOK
<1>2. Len(txs) \in Nat /\ DOMAIN txs = 1 .. Len(txs) BY <1>1, LenProperties
<1>3. /\ flow[f].account # NoAccount /\ txs' = Append(txs, t)
      /\ flow' = [flow EXCEPT ![f].at = sent, ![f].tx = Len(txs')]
      BY DEF Prompted
<1>4. /\ t \in Tx /\ t.kind = kind /\ t.from = flow[f].account /\ t.amount = flow[f].amount
      /\ t.sepolia = sepolia /\ t.state = "pending" /\ t.alone = flow[f].alone
      BY <1>1, <1>3 DEF Flow, Tx
<1>5. /\ r \in Flow /\ r.at = sent /\ r.tx = Len(txs) + 1 /\ GoesOn(f, r)
      /\ r.account = flow[f].account
  <2>1. /\ r.at = sent /\ r.tx = Len(txs) + 1 /\ r.account = flow[f].account
        /\ r.kind = flow[f].kind /\ r.amount = flow[f].amount /\ r.alone = flow[f].alone
        BY <1>1 DEF Flow
  <2>2. Len(txs) + 1 \in Nat BY <1>2
  <2>3. sent \in {"none", "posted", "asking", "told", "reading", "accounts", "chain",
                 "checking", "approving", "approved", "rereading", "burning", "burned"}
        OBVIOUS
  <2>4. r \in Flow BY <1>1, <2>2, <2>3 DEF Flow
  <2> QED BY <2>1, <2>4 DEF GoesOn
<1> HIDE DEF t
<1>6. /\ txs' \in Seq(Tx) /\ Len(txs') = Len(txs) + 1
      /\ \A i \in 1 .. Len(txs) : txs'[i] = txs[i]
      /\ txs'[Len(txs) + 1] = t
      BY <1>1, <1>3, <1>4, AppendProperties
<1>7. DOMAIN txs' = 1 .. Len(txs') BY <1>6, LenProperties
<1>8. flow' = [flow EXCEPT ![f] = r] BY <1>1, <1>3, <1>6 DEF Flow
<1> HIDE DEF r
<1>9. DOMAIN txs' = DOMAIN txs \cup {Len(txs) + 1} BY <1>2, <1>6, <1>7
<1>10. AwaitsSent(f, sent, r) BY <1>5, <1>8 DEF AwaitsSent
<1>11. SentBy(f, kind, t) BY <1>2, <1>4, <1>6, <1>9 DEF SentBy
<1> QED BY <1>3, <1>4, <1>5, <1>10, <1>11

\* Asking the user leaves the page's types, whatever the answer.
LEMMA PromptedTypes ==
  ASSUME PageTypeOK, NEW f \in Flows, NEW asked, NEW sent \in {"approved", "burned"},
         NEW kind \in {"approve", "burn"}, Prompted(f, asked, sent, kind)
  PROVE  PageTypeOK'
<1>1. PurseTypeOK /\ FlagsTypeOK BY PageTypes
<1>2. CASE Ends(f)
  <2>1. txs' = txs \/ ~UNCHANGED txs OBVIOUS
  <2>2. txs' \in Seq(Tx)
    <3>1. CASE txs' = txs BY <1>1, <3>1 DEF PurseTypeOK
    <3>2. CASE txs' # txs
      <4> DEFINE t == [kind |-> kind, from |-> flow[f].account, amount |-> flow[f].amount,
                       sepolia |-> sepolia, state |-> "pending", alone |-> flow[f].alone]
      <4>1. flow[f] \in Flow /\ txs \in Seq(Tx) /\ sepolia \in BOOLEAN BY DEF PageTypeOK
      <4>2. flow[f].account # NoAccount /\ txs' = Append(txs, t) BY <3>2 DEF Prompted
      <4>3. t \in Tx BY <4>1, <4>2 DEF Flow, Tx
      <4> HIDE DEF t
      <4> QED BY <4>1, <4>2, <4>3, AppendProperties
    <3> QED BY <3>1, <3>2
  <2>3. PurseTypeOK' BY <1>1, <2>2 DEF Prompted, PurseTypeOK, Purse
  <2>4. flow' \in [Flows -> Flow] /\ FlagsTypeOK'
        BY <1>2, EndsStep DEF FlagsTypeOK
  <2> QED BY <2>3, <2>4 DEF PageTypeOK, PurseTypeOK, FlagsTypeOK
<1>3. CASE ~Ends(f)
  <2>1. txs' \in Seq(Tx) BY <1>3, PromptedSends DEF SentBy
  <2>2. PICK r \in Flow : flow' = [flow EXCEPT ![f] = r] BY <1>3, PromptedSends DEF AwaitsSent
  <2>3. flow' \in [Flows -> Flow] BY <2>2, OneFlowMoves
  <2>4. UNCHANGED Flags BY <1>3 DEF Prompted
  <2>5. PurseTypeOK' BY <1>1, <2>1 DEF Prompted, PurseTypeOK, Purse
  <2>6. FlagsTypeOK' BY <1>1, <2>4 DEF FlagsTypeOK, Flags
  <2> QED BY <2>3, <2>5, <2>6 DEF PageTypeOK, PurseTypeOK, FlagsTypeOK
<1> QED BY <1>2, <1>3

\* The page reads the wallet anew: nobody is alone any more.
LEMMA RereadsStep ==
  ASSUME PageTypeOK, NEW a \in Accounts \cup {NoAccount}, Rereads(a), FlowsPlain
  PROVE  /\ flow' \in [Flows -> Flow]
         /\ \A g \in Flows :
              /\ ~flow'[g].alone
              /\ \/ flow'[g] = Disturbed[g]
                 \/ /\ At(g, "none") /\ flow'[g].at = "reading"
<1>1. CASE flow' = Disturbed BY <1>1, DisturbedFlows
<1>2. CASE flow' # Disturbed
  <2>1. PICK f \in Flows :
          /\ Free(f)
          /\ flow' = [Disturbed EXCEPT ![f].at = "reading", ![f].account = a]
        BY <1>2 DEF Rereads
  <2> DEFINE r == [Disturbed[f] EXCEPT !.at = "reading", !.account = a]
  <2>2. r \in Flow /\ r.at = "reading" /\ r.alone = FALSE
        BY DisturbedFlows DEF Flow
  <2>3. flow' = [Disturbed EXCEPT ![f] = r] BY <2>1, DisturbedFlows DEF Flow
  <2> HIDE DEF r
  <2>4. /\ flow' \in [Flows -> Flow] /\ flow'[f] = r
        /\ \A g \in Flows \ {f} : flow'[g] = Disturbed[g]
        BY <2>2, <2>3, DisturbedFlows
  <2>5. At(f, "none") BY <2>1 DEF Free
  <2> QED BY <2>2, <2>4, <2>5, DisturbedFlows
<1> QED BY <1>1, <1>2

\* Switching the account or the chain leaves the page's types.
LEMMA SwitchTypes ==
  ASSUME PageTypeOK, FlowsPlain, AccountSwitched \/ ChainSwitched
  PROVE  PageTypeOK'
<1>1. PurseTypeOK /\ FlagsTypeOK BY PageTypes
<1>2. CASE AccountSwitched
  <2>1. account' \in Accounts \cup {NoAccount} /\ Rereads(account') BY <1>2 DEF AccountSwitched
  <2>2. PICK a \in Accounts \cup {NoAccount} : a = account' /\ Rereads(a) BY <2>1
  <2>3. flow' \in [Flows -> Flow] BY <2>2, RereadsStep
  <2>4. PurseTypeOK' /\ FlagsTypeOK'
        BY <1>1, <1>2, <2>1 DEF AccountSwitched, PurseTypeOK, FlagsTypeOK, walletVars, Flags
  <2> QED BY <2>3, <2>4 DEF PageTypeOK, PurseTypeOK, FlagsTypeOK
<1>3. CASE ChainSwitched
  <2>1. account \in Accounts \cup {NoAccount} /\ Rereads(account)
        BY <1>1, <1>3 DEF ChainSwitched, PurseTypeOK
  <2>2. flow' \in [Flows -> Flow] BY <2>1, RereadsStep
  <2>3. PurseTypeOK' /\ FlagsTypeOK'
        BY <1>1, <1>3 DEF ChainSwitched, PurseTypeOK, FlagsTypeOK, Flags, Purse
  <2> QED BY <2>2, <2>3 DEF PageTypeOK, PurseTypeOK, FlagsTypeOK
<1> QED BY <1>2, <1>3

\* A transaction is mined, or reverted, in its place: an approval sets the
\* allowance of its account on Sepolia, a burn takes from it.
LEMMA TxMinedStep ==
  ASSUME PageTypeOK, NEW i \in DOMAIN txs, TxMined(i)
  PROVE  /\ txs' \in Seq(Tx) /\ Len(txs') = Len(txs) /\ DOMAIN txs' = DOMAIN txs
         /\ txs[i].state = "pending" /\ txs'[i].state \in {"mined", "reverted"}
         /\ txs'[i].kind = txs[i].kind /\ txs'[i].from = txs[i].from
         /\ txs'[i].amount = txs[i].amount /\ txs'[i].sepolia = txs[i].sepolia
         /\ txs'[i].alone = txs[i].alone
         /\ \A j \in DOMAIN txs : j # i => txs'[j] = txs[j]
         /\ token' \in [Accounts -> [balance : Nat, allowance : Nat]]
         /\ \A a \in Accounts : a # txs[i].from => token'[a] = token[a]
         /\ txs[i].kind = "approve" /\ txs[i].sepolia =>
              token'[txs[i].from].allowance = txs[i].amount
<1>1. txs \in Seq(Tx) /\ token \in [Accounts -> [balance : Nat, allowance : Nat]]
      BY DEF PageTypeOK
<1>2. txs[i] \in Tx /\ DOMAIN txs = 1 .. Len(txs) BY <1>1, ElementOfSeq, LenProperties
<1>3. /\ txs[i].from \in Accounts /\ txs[i].amount \in Nat
      /\ token[txs[i].from] \in [balance : Nat, allowance : Nat]
      BY <1>1, <1>2 DEF Tx
<1>4. PICK s \in {"mined", "reverted"} : txs' = [txs EXCEPT ![i].state = s]
      BY DEF TxMined
<1> DEFINE t == [txs[i] EXCEPT !.state = s]
<1>5. /\ t \in Tx /\ t.state = s /\ t.kind = txs[i].kind /\ t.from = txs[i].from
      /\ t.amount = txs[i].amount /\ t.sepolia = txs[i].sepolia /\ t.alone = txs[i].alone
      BY <1>2 DEF Tx
<1>6. txs' = [txs EXCEPT ![i] = t] BY <1>4
<1> HIDE DEF t
<1>7. txs' \in Seq(Tx) /\ Len(txs') = Len(txs) BY <1>1, <1>2, <1>5, <1>6, ExceptSeq
<1>8. DOMAIN txs' = 1 .. Len(txs') BY <1>7, LenProperties
<1>9. txs'[i] = t /\ \A j \in DOMAIN txs : j # i => txs'[j] = txs[j] BY <1>2, <1>6
<1>10. txs[i].state = "pending" BY DEF TxMined
<1>11. /\ token' \in [Accounts -> [balance : Nat, allowance : Nat]]
       /\ \A a \in Accounts : a # txs[i].from => token'[a] = token[a]
       /\ txs[i].kind = "approve" /\ txs[i].sepolia =>
            token'[txs[i].from].allowance = txs[i].amount
  <2>1. CASE token' = token /\ (txs[i].kind # "approve" \/ ~txs[i].sepolia)
        BY <1>1, <2>1
  <2>2. CASE token' = [token EXCEPT ![txs[i].from].allowance = txs[i].amount]
    <3> DEFINE p == [token[txs[i].from] EXCEPT !.allowance = txs[i].amount]
    <3>1. p \in [balance : Nat, allowance : Nat] /\ p.allowance = txs[i].amount BY <1>3
    <3>2. token' = [token EXCEPT ![txs[i].from] = p] BY <2>2
    <3> HIDE DEF p
    <3> QED BY <1>1, <1>3, <3>1, <3>2
  <2>3. CASE /\ txs[i].kind = "burn" /\ Covers(txs[i].from, txs[i].amount)
             /\ token' = [token EXCEPT ![txs[i].from].allowance = @ - txs[i].amount,
                                       ![txs[i].from].balance = @ - txs[i].amount]
    <3> DEFINE p == [token[txs[i].from] EXCEPT !.allowance = @ - txs[i].amount,
                                               !.balance = @ - txs[i].amount]
    <3>1. /\ token[txs[i].from].allowance >= txs[i].amount
          /\ token[txs[i].from].balance >= txs[i].amount
          BY <2>3 DEF Covers
    <3>2. /\ token[txs[i].from].allowance - txs[i].amount \in Nat
          /\ token[txs[i].from].balance - txs[i].amount \in Nat
          BY <1>3, <3>1
    <3>3. p \in [balance : Nat, allowance : Nat] BY <1>3, <3>2
    <3>4. token' = [token EXCEPT ![txs[i].from] = p] BY <1>1, <1>3, <2>3
    <3> HIDE DEF p
    <3> QED BY <1>1, <1>3, <2>3, <3>3, <3>4
  <2> QED BY <2>1, <2>2, <2>3 DEF TxMined
<1> QED BY <1>2, <1>4, <1>5, <1>7, <1>8, <1>9, <1>10, <1>11

-----------------------------------------------------------------------------
(* A flow that is alone, its approval and its burn.                         *)

WalletInv == FlowsPlain /\ AloneIsAlone /\ AloneIsCovered /\ BurnIsNext /\ BurnsCovered

\* While transactions and allowances stay, so does what is known of burns.
LEMMA BurnsStay ==
  ASSUME BurnIsNext, BurnsCovered, UNCHANGED <<txs, token>>
  PROVE  BurnIsNext' /\ BurnsCovered'
BY DEF BurnIsNext, BurnsCovered

\* A flow moves on, or ends, and sends nothing: it may take what the others rely
\* on, the account, only if it uses the wallet, and then no other is alone.
LEMMA OnlyFlowMoves ==
  ASSUME PageTypeOK, WalletInv, NEW f \in Flows, NEW r \in Flow,
         flow' = [flow EXCEPT ![f] = r], ~At(f, "none"),
         r = NoFlow \/ (GoesOn(f, r) /\ r.at # "none"),
         r.at \in BehindChain \cup {"accounts", "chain"} => flow[f].kind \in WalletKinds,
         r.at \notin {"approved", "burned"},
         UNCHANGED <<txs, token>>, sepolia' \in {sepolia, TRUE},
         account' = account \/ UsesWallet(f),
         r.alone /\ flow[f].at \in {"approved", "burned"} =>
           txs[flow[f].tx].state # "pending",
         r.alone /\ r.at \in BehindChain =>
           /\ r.account = account' /\ sepolia'
           /\ r.at \in {"rereading", "burning"} /\ r.account # NoAccount =>
                Approved(r.account, r.amount)
  PROVE  WalletInv'
<1>1. /\ flow' \in [Flows -> Flow] /\ flow'[f] = r
      /\ \A g \in Flows \ {f} : flow'[g] = flow[g]
      BY OneFlowMoves
<1>2. r.alone => flow[f].alone /\ r.kind = flow[f].kind /\ r.amount = flow[f].amount
      BY NoFlowIsFlow DEF GoesOn
<1>3. UsesWallet(f)' => UsesWallet(f) BY <1>1, NoFlowIsFlow DEF UsesWallet, At, GoesOn
<1>4. FlowsPlain'
  <2> SUFFICES ASSUME NEW g \in Flows
               PROVE  /\ flow'[g].at = "none" => flow'[g] = NoFlow
                      /\ flow'[g].alone \/ flow'[g].at \in BehindChain \cup
                                             {"accounts", "chain", "burned"} =>
                           flow'[g].kind \in WalletKinds
                      /\ flow'[g].at \in {"approved", "burned"} => flow'[g].tx \in DOMAIN txs'
      BY DEF FlowsPlain, At
  <2>1. CASE g = f
    <3>1. r.alone => r.kind \in WalletKinds BY <1>2 DEF WalletInv, FlowsPlain
    <3>2. r.at \in BehindChain \cup {"accounts", "chain", "burned"} => r.kind \in WalletKinds
          BY NoFlowIsFlow DEF GoesOn, BehindChain
    <3> QED BY <1>1, <2>1, <3>1, <3>2
  <2>2. CASE g # f BY <1>1, <2>2 DEF WalletInv, FlowsPlain, At
  <2> QED BY <2>1, <2>2
<1>5. AloneIsAlone'
  <2> SUFFICES ASSUME NEW g \in Flows, flow'[g].alone
               PROVE  /\ \A h \in Flows \ {g} : ~UsesWallet(h)'
                      /\ \A i \in DOMAIN txs : txs[i].state = "pending" =>
                           flow'[g].at \in {"approved", "burned"} /\ i = flow'[g].tx
      BY DEF AloneIsAlone
  <2>1. CASE g = f
    <3>1. flow[f].alone BY <1>1, <1>2, <2>1
    <3>2. \A h \in Flows \ {f} : ~UsesWallet(h) BY <3>1 DEF WalletInv, AloneIsAlone
    <3>3. \A h \in Flows \ {f} : ~UsesWallet(h)' BY <1>1, <3>2 DEF UsesWallet, At
    <3>4. \A i \in DOMAIN txs : txs[i].state # "pending"
          BY <1>1, <2>1, <3>1 DEF WalletInv, AloneIsAlone
    <3> QED BY <2>1, <3>3, <3>4
  <2>2. CASE g # f
    <3>1. flow[g].alone /\ flow'[g] = flow[g] BY <1>1, <2>2
    <3>2. \A h \in Flows \ {g} : ~UsesWallet(h) BY <3>1 DEF WalletInv, AloneIsAlone
    <3>3. \A h \in Flows \ {g} : ~UsesWallet(h)'
      <4> TAKE h \in Flows \ {g}
      <4>1. CASE h = f BY <1>3, <3>2, <4>1
      <4>2. CASE h # f BY <1>1, <3>2, <4>2 DEF UsesWallet, At
      <4> QED BY <4>1, <4>2
    <3> QED BY <3>1, <3>3 DEF WalletInv, AloneIsAlone
  <2> QED BY <2>1, <2>2
<1>6. AloneIsCovered'
  <2> SUFFICES ASSUME NEW g \in Flows, flow'[g].alone, flow'[g].at \in BehindChain
               PROVE  /\ flow'[g].account = account' /\ sepolia'
                      /\ flow'[g].at = "approved" => LET tx == txs[flow'[g].tx] IN
                           /\ tx.kind = "approve" /\ tx.from = flow'[g].account
                           /\ tx.amount = flow'[g].amount /\ tx.sepolia
                           /\ tx.state = "mined" => Approved(tx.from, tx.amount)
                      /\ flow'[g].at \in {"rereading", "burning"}
                           /\ flow'[g].account # NoAccount =>
                             Approved(flow'[g].account, flow'[g].amount)
      BY DEF AloneIsCovered, At, Approved
  <2>1. CASE g = f BY <1>1, <2>1
  <2>2. CASE g # f
    <3>1. flow[g].alone /\ flow'[g] = flow[g] BY <1>1, <2>2
    <3>2. ~UsesWallet(f) BY <2>2, <3>1 DEF WalletInv, AloneIsAlone
    <3>3. account' = account BY <3>2
    <3>4. /\ flow[g].account = account /\ sepolia
          /\ flow[g].at = "approved" => LET tx == txs[flow[g].tx] IN
               /\ tx.kind = "approve" /\ tx.from = flow[g].account
               /\ tx.amount = flow[g].amount /\ tx.sepolia
               /\ tx.state = "mined" => Approved(tx.from, tx.amount)
          /\ flow[g].at \in {"rereading", "burning"} /\ flow[g].account # NoAccount =>
               Approved(flow[g].account, flow[g].amount)
      <4>1. flow[g].at \in BehindChain BY <3>1
      <4>2. AloneIsCovered BY DEF WalletInv
      <4> QED BY <3>1, <4>1, <4>2 DEF AloneIsCovered, At
    <3>5. sepolia' BY <3>4
    <3> QED BY <3>1, <3>3, <3>4, <3>5
  <2> QED BY <2>1, <2>2
<1>7. BurnIsNext' /\ BurnsCovered' BY BurnsStay DEF WalletInv
<1> QED BY <1>4, <1>5, <1>6, <1>7 DEF WalletInv

\* A flow that starts on the wallet disturbs the others, and is alone only if none
\* of them uses the wallet and nothing is pending.
LEMMA FlowStarts ==
  ASSUME PageTypeOK, WalletInv, NEW f \in Flows, NEW new \in Flow,
         Starts(f, new), new.alone = FALSE,
         new.at \in {"asking", "posted", "accounts", "chain"},
         new.at \in {"accounts", "chain"} => new.kind \in WalletKinds,
         UNCHANGED <<txs, token, account, sepolia>>
  PROVE  WalletInv'
<1>1. /\ flow' \in [Flows -> Flow] /\ At(f, "none")
      /\ flow'[f].kind = new.kind /\ flow'[f].at = new.at /\ flow'[f].tx = new.tx
      /\ flow'[f].alone => new.kind \in WalletKinds /\ Undisturbed
      /\ \A g \in Flows \ {f} : /\ flow'[g].kind = flow[g].kind
                                /\ flow'[g].at = flow[g].at
                                /\ flow'[g].tx = flow[g].tx
                                /\ flow[g] = NoFlow => flow'[g] = NoFlow
      /\ new.kind \in WalletKinds => \A g \in Flows \ {f} : ~flow'[g].alone
      /\ new.kind \notin WalletKinds =>
           flow'[f] = new /\ \A g \in Flows \ {f} : flow'[g] = flow[g]
      BY StartsStep
<1>2. FlowsPlain'
  <2> SUFFICES ASSUME NEW g \in Flows
               PROVE  /\ flow'[g].at = "none" => flow'[g] = NoFlow
                      /\ flow'[g].alone \/ flow'[g].at \in BehindChain \cup
                                             {"accounts", "chain", "burned"} =>
                           flow'[g].kind \in WalletKinds
                      /\ flow'[g].at \in {"approved", "burned"} => flow'[g].tx \in DOMAIN txs'
      BY DEF FlowsPlain, At
  <2>1. CASE g = f
    <3>1. flow'[f].alone => flow'[f].kind \in WalletKinds BY <1>1
    <3> QED BY <1>1, <2>1, <3>1 DEF BehindChain
  <2>2. CASE g # f
    <3>1. flow'[g].alone => flow[g].alone BY <1>1, <2>2
    <3> QED BY <1>1, <2>2, <3>1 DEF WalletInv, FlowsPlain, At
  <2> QED BY <2>1, <2>2
<1>3. AloneIsAlone'
  <2> SUFFICES ASSUME NEW g \in Flows, flow'[g].alone
               PROVE  /\ \A h \in Flows \ {g} : ~UsesWallet(h)'
                      /\ \A i \in DOMAIN txs : txs[i].state = "pending" =>
                           flow'[g].at \in {"approved", "burned"} /\ i = flow'[g].tx
      BY DEF AloneIsAlone
  <2>1. CASE g = f
    <3>1. Undisturbed BY <1>1, <2>1
    <3> QED BY <1>1, <2>1, <3>1 DEF Undisturbed, UsesWallet, At
  <2>2. CASE g # f
    <3>1. /\ new.kind \notin WalletKinds /\ flow'[f] = new
          /\ \A h \in Flows \ {f} : flow'[h] = flow[h]
          BY <1>1, <2>2
    <3>2. flow[g].alone /\ flow'[g] = flow[g] BY <2>2, <3>1
    <3>3. \A h \in Flows \ {g} : ~UsesWallet(h) BY <3>2 DEF WalletInv, AloneIsAlone
    <3>4. \A h \in Flows \ {g} : ~UsesWallet(h)' BY <3>1, <3>3 DEF UsesWallet, At
    <3> QED BY <3>2, <3>4 DEF WalletInv, AloneIsAlone
  <2> QED BY <2>1, <2>2
<1>4. AloneIsCovered'
  <2> SUFFICES ASSUME NEW g \in Flows, flow'[g].alone, flow'[g].at \in BehindChain
               PROVE  flow'[g] = flow[g]
      BY DEF AloneIsCovered, WalletInv, At, Approved
  <2>1. g # f BY <1>1 DEF BehindChain
  <2> QED BY <1>1, <2>1
<1>5. BurnIsNext' /\ BurnsCovered' BY BurnsStay DEF WalletInv
<1> QED BY <1>2, <1>3, <1>4, <1>5 DEF WalletInv

\* Nobody is alone: nothing is to be shown but that the flows are plain.
LEMMA NobodyAlone ==
  ASSUME WalletInv, FlowsPlain', \A g \in Flows : ~flow'[g].alone, UNCHANGED <<txs, token>>
  PROVE  WalletInv'
<1>1. AloneIsAlone' /\ AloneIsCovered' BY DEF AloneIsAlone, AloneIsCovered
<1>2. BurnIsNext' /\ BurnsCovered' BY BurnsStay DEF WalletInv
<1> QED BY <1>1, <1>2 DEF WalletInv

\* Whoever switches the account or the chain disturbs every flow.
LEMMA SwitchStep ==
  ASSUME PageTypeOK, WalletInv, AccountSwitched \/ ChainSwitched
  PROVE  WalletInv'
<1>1. UNCHANGED <<txs, token>> BY DEF AccountSwitched, ChainSwitched, walletVars
<1>2. PICK a \in Accounts \cup {NoAccount} : Rereads(a)
  <2>1. CASE AccountSwitched BY <2>1 DEF AccountSwitched
  <2>2. CASE ChainSwitched BY <2>2 DEF ChainSwitched, PageTypeOK
  <2> QED BY <2>1, <2>2
<1>3. \A g \in Flows :
        /\ ~flow'[g].alone
        /\ flow'[g] = Disturbed[g] \/ (At(g, "none") /\ flow'[g].at = "reading")
      BY <1>2, RereadsStep DEF WalletInv
<1>4. FlowsPlain'
  <2> SUFFICES ASSUME NEW g \in Flows
               PROVE  /\ flow'[g].at = "none" => flow'[g] = NoFlow
                      /\ flow'[g].alone \/ flow'[g].at \in BehindChain \cup
                                             {"accounts", "chain", "burned"} =>
                           flow'[g].kind \in WalletKinds
                      /\ flow'[g].at \in {"approved", "burned"} => flow'[g].tx \in DOMAIN txs'
      BY DEF FlowsPlain, At
  <2>1. CASE flow'[g] = Disturbed[g]
    <3>1. /\ flow'[g].kind = flow[g].kind /\ flow'[g].at = flow[g].at
          /\ flow'[g].tx = flow[g].tx /\ (flow[g] = NoFlow => flow'[g] = NoFlow)
          BY <2>1, DisturbedFlows
    <3> QED BY <1>1, <1>3, <3>1 DEF WalletInv, FlowsPlain, At
  <2>2. CASE flow'[g].at = "reading" BY <1>3, <2>2 DEF BehindChain
  <2> QED BY <1>3, <2>1, <2>2
<1> QED BY <1>1, <1>3, <1>4, NobodyAlone

\* The page that is loaded anew has no flows.
LEMMA ReloadStep ==
  ASSUME WalletInv, Reload
  PROVE  WalletInv'
<1>1. flow' = [f \in Flows |-> NoFlow] /\ UNCHANGED <<txs, token>> BY DEF Reload, walletVars
<1>2. FlowsPlain'
  <2>1. \A f \in Flows : flow'[f] = NoFlow BY <1>1
  <2> QED BY <2>1, NoFlowIsFlow DEF FlowsPlain, BehindChain
<1> QED BY <1>1, <1>2, NoFlowIsFlow, NobodyAlone

\* Steps of the server leave the page and the wallet alone.
LEMMA WalletStays ==
  ASSUME WalletInv, UNCHANGED <<flow, account, txs, token, sepolia>>
  PROVE  WalletInv'
<1>1. BurnIsNext' /\ BurnsCovered' BY BurnsStay DEF WalletInv
<1>2. FlowsPlain' BY DEF WalletInv, FlowsPlain, At
<1>3. AloneIsAlone' BY DEF WalletInv, AloneIsAlone, UsesWallet, At
<1>4. AloneIsCovered' BY DEF WalletInv, AloneIsCovered, At, Approved
<1> QED BY <1>1, <1>2, <1>3, <1>4 DEF WalletInv

\* What is sent by a flow that is alone is covered, and nothing pends before it.
LEMMA SendStep ==
  ASSUME PageTypeOK, WalletInv, NEW f \in Flows, NEW asked \in {"approving", "burning"},
         NEW sent \in {"approved", "burned"}, NEW kind \in {"approve", "burn"},
         asked = "approving" <=> sent = "approved", sent = "approved" <=> kind = "approve",
         Prompted(f, asked, sent, kind), ~Ends(f)
  PROVE  WalletInv'
<1>1. flow[f].account # NoAccount BY PromptedSends
<1>2. PICK t \in Tx :
        /\ txs' \in Seq(Tx) /\ Len(txs') = Len(txs) + 1
        /\ txs'[Len(txs) + 1] = t /\ \A i \in DOMAIN txs : txs'[i] = txs[i]
        /\ DOMAIN txs' = DOMAIN txs \cup {Len(txs) + 1}
        /\ t.kind = kind /\ t.from = flow[f].account /\ t.amount = flow[f].amount
        /\ t.sepolia = sepolia /\ t.state = "pending" /\ t.alone = flow[f].alone
  <2>1. \E t \in Tx : SentBy(f, kind, t) BY PromptedSends
  <2> QED BY <2>1 DEF SentBy
<1>3. PICK r \in Flow :
        /\ flow' = [flow EXCEPT ![f] = r] /\ GoesOn(f, r) /\ r.account = flow[f].account
        /\ r.at = sent /\ r.tx = Len(txs) + 1
  <2>1. \E r \in Flow : AwaitsSent(f, sent, r) BY PromptedSends
  <2> QED BY <2>1 DEF AwaitsSent
<1>4. flow' \in [Flows -> Flow] /\ flow'[f] = r /\ \A g \in Flows \ {f} : flow'[g] = flow[g]
      BY <1>3, OneFlowMoves
<1>5. UNCHANGED <<token, sepolia, account>> /\ flow[f].at = asked
      BY DEF Prompted, Purse, At
<1>6. DOMAIN txs = 1 .. Len(txs) /\ Len(txs) \in Nat BY LenProperties DEF PageTypeOK
<1>7. flow[f].at \in BehindChain /\ flow[f].kind \in WalletKinds
      BY <1>5 DEF BehindChain, WalletInv, FlowsPlain
<1>8. \A g \in Flows \ {f} : ~flow[g].alone
  <2>1. UsesWallet(f) BY <1>5, <1>7 DEF UsesWallet, At
  <2> QED BY <2>1 DEF WalletInv, AloneIsAlone
<1>9. flow[f].alone => \A i \in DOMAIN txs : txs[i].state # "pending"
      BY <1>5 DEF WalletInv, AloneIsAlone
<1>10. FlowsPlain'
  <2> SUFFICES ASSUME NEW g \in Flows
               PROVE  /\ flow'[g].at = "none" => flow'[g] = NoFlow
                      /\ flow'[g].alone \/ flow'[g].at \in BehindChain \cup
                                             {"accounts", "chain", "burned"} =>
                           flow'[g].kind \in WalletKinds
                      /\ flow'[g].at \in {"approved", "burned"} => flow'[g].tx \in DOMAIN txs'
      BY DEF FlowsPlain, At
  <2>1. CASE g = f BY <1>2, <1>3, <1>4, <1>7, <2>1 DEF GoesOn
  <2>2. CASE g # f
    <3>1. flow'[g] = flow[g] /\ DOMAIN txs \subseteq DOMAIN txs' BY <1>2, <1>4, <2>2
    <3> QED BY <3>1 DEF WalletInv, FlowsPlain, At
  <2> QED BY <2>1, <2>2
<1>11. AloneIsAlone'
  <2> SUFFICES ASSUME NEW g \in Flows, flow'[g].alone
               PROVE  /\ \A h \in Flows \ {g} : ~UsesWallet(h)'
                      /\ \A i \in DOMAIN txs' : txs'[i].state = "pending" =>
                           flow'[g].at \in {"approved", "burned"} /\ i = flow'[g].tx
      BY DEF AloneIsAlone
  <2>1. g = f BY <1>4, <1>8
  <2>2. flow[f].alone BY <1>3, <1>4, <2>1 DEF GoesOn
  <2>3. \A h \in Flows \ {f} : ~UsesWallet(h) BY <2>2 DEF WalletInv, AloneIsAlone
  <2>4. \A h \in Flows \ {f} : ~UsesWallet(h)' BY <1>4, <2>3 DEF UsesWallet, At
  <2>5. \A i \in DOMAIN txs' : txs'[i].state = "pending" => i = Len(txs) + 1
        BY <1>2, <1>9, <2>2
  <2> QED BY <1>3, <1>4, <2>1, <2>4, <2>5
<1>12. AloneIsCovered'
  <2> SUFFICES ASSUME NEW g \in Flows, flow'[g].alone, flow'[g].at \in BehindChain
               PROVE  /\ flow'[g].account = account' /\ sepolia'
                      /\ flow'[g].at = "approved" => LET tx == txs'[flow'[g].tx] IN
                           /\ tx.kind = "approve" /\ tx.from = flow'[g].account
                           /\ tx.amount = flow'[g].amount /\ tx.sepolia
                           /\ tx.state # "mined"
                      /\ flow'[g].at \notin {"rereading", "burning"}
      BY DEF AloneIsCovered, At
  <2>1. g = f BY <1>4, <1>8
  <2>2. flow[f].alone BY <1>3, <1>4, <2>1 DEF GoesOn
  <2>3. flow[f].account = account /\ sepolia
        BY <1>7, <2>2 DEF WalletInv, AloneIsCovered
  <2> QED BY <1>2, <1>3, <1>4, <1>5, <2>1, <2>3 DEF GoesOn
<1>13. BurnIsNext'
  <2> SUFFICES ASSUME NEW i \in DOMAIN txs', NEW j \in 1 .. i - 1,
                      txs'[i].kind = "burn", txs'[i].state = "pending", txs'[i].alone
               PROVE  txs'[j].state # "pending"
      BY DEF BurnIsNext
  <2>1. j \in DOMAIN txs BY <1>2, <1>6
  <2>2. CASE i = Len(txs) + 1 BY <1>2, <1>9, <2>1, <2>2
  <2>3. CASE i # Len(txs) + 1
    <3>1. i \in DOMAIN txs /\ txs'[i] = txs[i] /\ txs'[j] = txs[j] BY <1>2, <2>1, <2>3
    <3> QED BY <3>1 DEF WalletInv, BurnIsNext
  <2> QED BY <2>2, <2>3
<1>14. BurnsCovered'
  <2> SUFFICES ASSUME NEW i \in DOMAIN txs',
                      txs'[i].kind = "burn", txs'[i].state = "pending",
                      txs'[i].sepolia, txs'[i].alone
               PROVE  token[txs'[i].from].allowance >= txs'[i].amount
      BY <1>5 DEF BurnsCovered
  <2>1. CASE i = Len(txs) + 1
    <3>1. flow[f].alone /\ flow[f].at = "burning" BY <1>2, <1>5, <2>1
    <3>2. Approved(flow[f].account, flow[f].amount)
          BY <1>1, <1>7, <3>1 DEF WalletInv, AloneIsCovered
    <3> QED BY <1>2, <2>1, <3>2 DEF Approved
  <2>2. CASE i # Len(txs) + 1
    <3>1. i \in DOMAIN txs /\ txs'[i] = txs[i] BY <1>2, <2>2
    <3> QED BY <3>1 DEF WalletInv, BurnsCovered
  <2> QED BY <2>1, <2>2
<1> QED BY <1>10, <1>11, <1>12, <1>13, <1>14 DEF WalletInv

\* A transaction that is mined is the approval a flow that is alone awaits, or
\* touches the allowance of no burn that such a flow has sent.
LEMMA MinedKeepsCover ==
  ASSUME PageTypeOK, WalletInv, NEW i \in DOMAIN txs, TxMined(i)
  PROVE  WalletInv'
<1>1. UNCHANGED <<flow, account, sepolia>> BY DEF TxMined, pageVars
<1>2. /\ txs' \in Seq(Tx) /\ DOMAIN txs' = DOMAIN txs
      /\ txs[i].state = "pending" /\ txs'[i].state \in {"mined", "reverted"}
      /\ txs'[i].kind = txs[i].kind /\ txs'[i].from = txs[i].from
      /\ txs'[i].amount = txs[i].amount /\ txs'[i].sepolia = txs[i].sepolia
      /\ txs'[i].alone = txs[i].alone
      /\ \A j \in DOMAIN txs : j # i => txs'[j] = txs[j]
      /\ \A a \in Accounts : a # txs[i].from => token'[a] = token[a]
      /\ txs[i].kind = "approve" /\ txs[i].sepolia =>
           token'[txs[i].from].allowance = txs[i].amount
      BY TxMinedStep
<1>3. DOMAIN txs = 1 .. Len(txs) /\ Len(txs) \in Nat BY LenProperties DEF PageTypeOK
<1>4. \A j \in DOMAIN txs : txs[j].from \in Accounts /\ txs[j].amount \in Nat
  <2>1. \A j \in 1 .. Len(txs) : txs[j] \in Tx BY ElementOfSeq DEF PageTypeOK
  <2> QED BY <1>3, <2>1 DEF Tx
<1>5. FlowsPlain' BY <1>1, <1>2 DEF WalletInv, FlowsPlain, At
<1>6. AloneIsAlone'
  <2>1. \A j \in DOMAIN txs : txs'[j].state = "pending" => txs[j].state = "pending"
        BY <1>2
  <2> QED BY <1>1, <1>2, <2>1 DEF WalletInv, AloneIsAlone, UsesWallet, At
<1>7. AloneIsCovered'
  <2> SUFFICES ASSUME NEW g \in Flows, flow[g].alone, flow[g].at \in BehindChain
               PROVE  /\ flow[g].account = account /\ sepolia
                      /\ flow[g].at = "approved" => LET tx == txs'[flow[g].tx] IN
                           /\ tx.kind = "approve" /\ tx.from = flow[g].account
                           /\ tx.amount = flow[g].amount /\ tx.sepolia
                           /\ tx.state = "mined" =>
                                token'[tx.from].allowance >= tx.amount
                      /\ flow[g].at \notin {"rereading", "burning"}
      BY <1>1 DEF AloneIsCovered, At, Approved
  <2>1. flow[g].at \in {"approved", "burned"} /\ i = flow[g].tx
        BY <1>2 DEF WalletInv, AloneIsAlone
  <2>2. flow[g].at = "approved" BY <2>1 DEF BehindChain
  <2>3. /\ flow[g].account = account /\ sepolia
        /\ txs[i].kind = "approve" /\ txs[i].from = flow[g].account
        /\ txs[i].amount = flow[g].amount /\ txs[i].sepolia
        BY <2>1, <2>2 DEF WalletInv, AloneIsCovered, At
  <2>4. token'[txs[i].from].allowance >= txs[i].amount BY <1>2, <1>4, <2>3
  <2> QED BY <1>2, <2>1, <2>2, <2>3, <2>4
<1>8. BurnIsNext'
  <2> SUFFICES ASSUME NEW k \in DOMAIN txs, NEW j \in 1 .. k - 1,
                      txs'[k].kind = "burn", txs'[k].state = "pending", txs'[k].alone
               PROVE  txs'[j].state # "pending"
      BY <1>2 DEF BurnIsNext
  <2>1. k # i BY <1>2
  <2>2. txs[k] = txs'[k] BY <1>2, <2>1
  <2>3. txs[j].state # "pending" BY <2>2 DEF WalletInv, BurnIsNext
  <2>4. j \in DOMAIN txs BY <1>3
  <2> QED BY <1>2, <2>3, <2>4
<1>9. BurnsCovered'
  <2> SUFFICES ASSUME NEW k \in DOMAIN txs,
                      txs'[k].kind = "burn", txs'[k].state = "pending",
                      txs'[k].sepolia, txs'[k].alone
               PROVE  token'[txs'[k].from].allowance >= txs'[k].amount
      BY <1>2 DEF BurnsCovered
  <2>1. k # i BY <1>2
  <2>2. txs'[k] = txs[k] BY <1>2, <2>1
  <2>3. \A j \in 1 .. k - 1 : txs[j].state # "pending" BY <2>2 DEF WalletInv, BurnIsNext
  <2>4. k \in 1 .. i - 1 BY <1>2, <1>3, <2>1, <2>3
  <2>5. txs[k].from # txs[i].from BY <2>2, <2>4 DEF TxMined
  <2>6. token'[txs[k].from] = token[txs[k].from] BY <1>2, <1>4, <2>5
  <2> QED BY <2>2, <2>6 DEF WalletInv, BurnsCovered
<1> QED BY <1>5, <1>6, <1>7, <1>8, <1>9 DEF WalletInv

\* A flow that ends leaves nothing to rely on, for itself.
LEMMA FlowEnds ==
  ASSUME PageTypeOK, WalletInv, NEW f \in Flows, ~At(f, "none"), Ends(f),
         UNCHANGED <<txs, token>>, sepolia' \in {sepolia, TRUE},
         account' = account \/ UsesWallet(f)
  PROVE  WalletInv'
<1>1. flow' = [flow EXCEPT ![f] = NoFlow] BY DEF Ends
<1> QED BY <1>1, NoFlowIsFlow, OnlyFlowMoves DEF BehindChain

\* A flow that is not at an await behind ensureSepolia moves on before it.
LEMMA FlowGoesOnFreely ==
  ASSUME PageTypeOK, WalletInv, NEW f \in Flows, ~At(f, "none"),
         NEW at \in {"asking", "told", "reading", "chain"},
         flow' = [flow EXCEPT ![f].at = at] \/ MovesTo(f, at),
         at = "chain" => flow[f].kind \in WalletKinds,
         UNCHANGED <<txs, token>>, sepolia' \in {sepolia, TRUE},
         account' = account \/ UsesWallet(f),
         flow[f].at \in {"approved", "burned"} => txs[flow[f].tx].state # "pending"
  PROVE  WalletInv'
<1>1. at \in Steps BY DEF Steps
<1>2. PICK r \in Flow : flow' = [flow EXCEPT ![f] = r] /\ GoesOn(f, r) /\ r.at = at
      BY <1>1, MovesToStep, GoesOnStep
<1>3. r.at \notin BehindChain \cup {"approved", "burned", "accounts"} BY <1>2 DEF BehindChain
<1> QED BY <1>2, <1>3, OnlyFlowMoves

\* A flow moves on behind ensureSepolia, with the account of the moment.
LEMMA FlowGoesOnCovered ==
  ASSUME PageTypeOK, WalletInv, NEW f \in Flows, ~At(f, "none"),
         NEW at \in {"checking", "approving", "rereading", "burning"}, MovesTo(f, at),
         flow[f].kind \in WalletKinds,
         UNCHANGED <<txs, token, account>>, sepolia' \in {sepolia, TRUE},
         flow[f].at \in {"approved", "burned"} => txs[flow[f].tx].state # "pending",
         flow[f].alone => sepolia',
         flow[f].alone /\ at \in {"rereading", "burning"} /\ account # NoAccount =>
           Approved(account, flow[f].amount)
  PROVE  WalletInv'
<1>1. at \in Steps BY DEF Steps
<1>2. PICK r \in Flow : /\ flow' = [flow EXCEPT ![f] = r] /\ GoesOn(f, r) /\ r.at = at
                        /\ r.account = account
      BY <1>1, MovesToStep
<1>3. r.at \notin {"approved", "burned", "none"} BY <1>2
<1>4. r.alone = flow[f].alone /\ r.amount = flow[f].amount BY <1>2 DEF GoesOn
<1> QED BY <1>2, <1>3, <1>4, OnlyFlowMoves

\* The steps that begin a flow.
LEMMA BeginsKeepsCover ==
  ASSUME ApiTypeOK, PageTypeOK, WalletInv, NEW f \in Flows,
         \/ RefreshBegins(f) \/ DepositBegins(f) \/ ConnectBegins(f)
         \/ \E amount \in Amounts : ApproveBegins(f, amount) \/ RedeemBegins(f, amount)
  PROVE  WalletInv'
<1>1. Len(posts) + 1 \in Nat BY LenProperties DEF ApiTypeOK
<1>2. \A a \in Amounts : a \in Nat BY WebPageAssumption
<1>3. UNCHANGED <<txs, token, account, sepolia>>
      BY DEF RefreshBegins, DepositBegins, ConnectBegins, ApproveBegins, RedeemBegins,
             walletVars, Purse
<1>4. CASE RefreshBegins(f)
  <2> DEFINE new == [NoFlow EXCEPT !.at = "asking"]
  <2>1. Starts(f, new) BY <1>4 DEF RefreshBegins
  <2>2. new \in Flow BY <1>1, BeginningTypes
  <2>3. new.alone = FALSE /\ new.at = "asking" BY DEF NoFlow
  <2> HIDE DEF new
  <2> QED BY <1>3, <2>1, <2>2, <2>3, FlowStarts
<1>5. CASE DepositBegins(f)
  <2> DEFINE new == [NoFlow EXCEPT !.kind = "deposit", !.at = "posted", !.tx = Len(posts) + 1]
  <2>1. Starts(f, new) BY <1>5 DEF DepositBegins
  <2>2. new \in Flow BY <1>1, BeginningTypes
  <2>3. new.alone = FALSE /\ new.at = "posted" BY DEF NoFlow
  <2> HIDE DEF new
  <2> QED BY <1>3, <2>1, <2>2, <2>3, FlowStarts
<1>6. CASE ConnectBegins(f)
  <2> DEFINE new == [NoFlow EXCEPT !.kind = "connect", !.at = "accounts"]
  <2>1. Starts(f, new) BY <1>6 DEF ConnectBegins
  <2>2. new \in Flow BY <1>1, BeginningTypes
  <2>3. new.alone = FALSE /\ new.at = "accounts" /\ new.kind \in WalletKinds
        BY DEF NoFlow, WalletKinds
  <2> HIDE DEF new
  <2> QED BY <1>3, <2>1, <2>2, <2>3, FlowStarts
<1>7. CASE \E amount \in Amounts : ApproveBegins(f, amount)
  <2>0. PICK amount \in Amounts : ApproveBegins(f, amount) BY <1>7
  <2> DEFINE new == [NoFlow EXCEPT !.kind = "approve", !.at = "chain", !.amount = amount]
  <2>1. Starts(f, new) BY <2>0 DEF ApproveBegins
  <2>2. new \in Flow BY <1>1, <1>2, BeginningTypes
  <2>3. new.alone = FALSE /\ new.at = "chain" /\ new.kind \in WalletKinds
        BY DEF NoFlow, WalletKinds
  <2> HIDE DEF new
  <2> QED BY <1>3, <2>1, <2>2, <2>3, FlowStarts
<1>8. CASE \E amount \in Amounts : RedeemBegins(f, amount)
  <2>0. PICK amount \in Amounts : RedeemBegins(f, amount) BY <1>8
  <2> DEFINE new == [NoFlow EXCEPT !.kind = "redeem", !.at = "chain", !.amount = amount]
  <2>1. Starts(f, new) BY <2>0 DEF RedeemBegins
  <2>2. new \in Flow BY <1>1, <1>2, BeginningTypes
  <2>3. new.alone = FALSE /\ new.at = "chain" /\ new.kind \in WalletKinds
        BY DEF NoFlow, WalletKinds
  <2> HIDE DEF new
  <2> QED BY <1>3, <2>1, <2>2, <2>3, FlowStarts
<1> QED BY <1>4, <1>5, <1>6, <1>7, <1>8

\* The steps that read the allowance or wait for the approval: what goes on to
\* burn is covered.
LEMMA CoverIsRead ==
  ASSUME PageTypeOK, WalletInv, NEW f \in Flows,
         AllowanceChecked(f) \/ ApproveReceipt(f) \/ ApproveRead(f)
  PROVE  WalletInv'
<1>1. UNCHANGED <<txs, token, account, sepolia>>
      BY DEF AllowanceChecked, ApproveReceipt, ApproveRead, OnlyWallet, OnlyPage,
             walletVars, Purse
<1>2. flow[f].at \in BehindChain /\ ~At(f, "none") /\ flow[f].at # "burned"
      BY DEF AllowanceChecked, ApproveReceipt, ApproveRead, At, BehindChain
<1>3. flow[f].kind \in WalletKinds /\ (flow[f].alone => flow[f].account = account /\ sepolia)
      BY <1>2 DEF WalletInv, FlowsPlain, AloneIsCovered
<1>4. /\ account \in Accounts \cup {NoAccount} /\ flow[f].amount \in Nat
      /\ \A a \in Accounts : token[a].allowance \in Nat
      BY DEF PageTypeOK, Flow
<1>5. CASE AllowanceChecked(f)
  <2>1. At(f, "checking") BY <1>5 DEF AllowanceChecked
  <2>2. CASE MovesTo(f, "approving") BY <1>1, <1>2, <1>3, <2>1, <2>2, FlowGoesOnCovered DEF At
  <2>3. CASE MovesTo(f, "burning") /\ ~(allowance' < flow[f].amount)
    <3>1. ASSUME flow[f].alone, account # NoAccount
          PROVE  Approved(account, flow[f].amount)
      <4>1. allowance' = token[account].allowance \/ allowance' = 0
            BY <1>3, <1>5, <3>1 DEF AllowanceChecked, WalletState
      <4>2. token[account].allowance \in Nat BY <1>4, <3>1
      <4> QED BY <1>4, <2>3, <4>1, <4>2 DEF Approved
    <3> QED BY <1>1, <1>2, <1>3, <2>1, <2>3, <3>1, FlowGoesOnCovered DEF At
  <2> QED BY <1>5, <2>2, <2>3 DEF AllowanceChecked
<1>6. CASE ApproveReceipt(f)
  <2>1. At(f, "approved") BY <1>6 DEF ApproveReceipt
  <2>2. CASE Seen(f) /\ MovesTo(f, "rereading")
    <3>1. txs[flow[f].tx].state = "mined" BY <2>2 DEF Seen
    <3>2. flow[f].alone => Approved(account, flow[f].amount)
          BY <1>2, <1>3, <2>1, <3>1 DEF WalletInv, AloneIsCovered
    <3> QED BY <1>1, <1>2, <1>3, <2>2, <3>1, <3>2, FlowGoesOnCovered
  <2>3. CASE Ends(f) BY <1>1, <1>2, <2>3, FlowEnds
  <2> QED BY <1>6, <2>2, <2>3 DEF ApproveReceipt
<1>7. CASE ApproveRead(f)
  <2>1. At(f, "rereading") BY <1>7 DEF ApproveRead
  <2>2. CASE Ends(f) BY <1>1, <1>2, <2>2, FlowEnds
  <2>3. CASE MovesTo(f, "burning")
    <3>1. flow[f].alone /\ account # NoAccount => Approved(account, flow[f].amount)
          BY <1>2, <1>3, <2>1 DEF WalletInv, AloneIsCovered, At
    <3> QED BY <1>1, <1>2, <1>3, <2>1, <2>3, <3>1, FlowGoesOnCovered DEF At
  <2> QED BY <1>7, <2>2, <2>3 DEF ApproveRead
<1> QED BY <1>5, <1>6, <1>7

\* The steps that lead to the wallet, and the answers that are shown.
LEMMA PageGoesOn ==
  ASSUME PageTypeOK, WalletInv, NEW f \in Flows,
         \/ PageAsks(f) \/ StatusLands(f) \/ DepositLands(f) \/ WalletRead(f)
         \/ AccountsAnswered(f) \/ ChainAnswered(f) \/ BurnReceipt(f)
  PROVE  WalletInv'
<1>1. UNCHANGED <<txs, token>>
      BY DEF PageAsks, StatusLands, DepositLands, WalletRead, AccountsAnswered, ChainAnswered,
             BurnReceipt, OnlyWallet, OnlyPage, walletVars
<1>2. ~At(f, "none")
      BY DEF PageAsks, StatusLands, DepositLands, WalletRead, AccountsAnswered, ChainAnswered,
             BurnReceipt, At
<1>3. CASE PageAsks(f)
  <2>1. /\ At(f, "asking") /\ flow' = [flow EXCEPT ![f].at = "told"]
        /\ UNCHANGED <<sepolia, account>>
        BY <1>3 DEF PageAsks, walletVars, Purse
  <2> QED BY <1>1, <1>2, <2>1, FlowGoesOnFreely DEF At
<1>4. CASE StatusLands(f)
  <2>1. /\ At(f, "told") /\ UNCHANGED <<sepolia, account>>
        /\ Ends(f) \/ MovesTo(f, "reading")
        BY <1>4 DEF StatusLands, walletVars, Purse
  <2> QED BY <1>1, <1>2, <2>1, FlowEnds, FlowGoesOnFreely DEF At
<1>5. CASE DepositLands(f)
  <2>1. /\ At(f, "posted") /\ UNCHANGED <<sepolia, account>>
        /\ Ends(f) \/ flow' = [flow EXCEPT ![f].at = "asking"]
        BY <1>5 DEF DepositLands, OnlyPage, walletVars, Purse
  <2> QED BY <1>1, <1>2, <2>1, FlowEnds, FlowGoesOnFreely DEF At
<1>6. CASE WalletRead(f)
  <2>1. Ends(f) /\ UNCHANGED <<sepolia, account>>
        BY <1>6 DEF WalletRead, OnlyWallet, walletVars
  <2> QED BY <1>1, <1>2, <2>1, FlowEnds
<1>7. CASE AccountsAnswered(f)
  <2>1. /\ At(f, "accounts") /\ UNCHANGED sepolia
        /\ Ends(f) \/ flow' = [flow EXCEPT ![f].at = "chain"]
        BY <1>7 DEF AccountsAnswered, OnlyPage, walletVars
  <2>2. flow[f].kind \in WalletKinds BY <2>1 DEF WalletInv, FlowsPlain, At
  <2>3. UsesWallet(f) BY <1>2, <2>2 DEF UsesWallet
  <2> QED BY <1>1, <1>2, <2>1, <2>2, <2>3, FlowEnds, FlowGoesOnFreely DEF At
<1>8. CASE ChainAnswered(f)
  <2>1. At(f, "chain") /\ UNCHANGED account BY <1>8 DEF ChainAnswered, Purse
  <2>2. flow[f].kind \in WalletKinds BY <2>1 DEF WalletInv, FlowsPlain, At
  <2>3. CASE sepolia' = TRUE /\ OnSepolia(f)
    <3>1. \/ Ends(f) \/ MovesTo(f, "reading") \/ MovesTo(f, "approving")
          \/ MovesTo(f, "checking")
          BY <2>3 DEF OnSepolia
    <3>2. CASE Ends(f) BY <1>1, <1>2, <2>1, <2>3, <3>2, FlowEnds
    <3>3. CASE MovesTo(f, "reading")
          BY <1>1, <1>2, <2>1, <2>3, <3>3, FlowGoesOnFreely DEF At
    <3>4. CASE MovesTo(f, "approving")
          BY <1>1, <1>2, <2>1, <2>2, <2>3, <3>4, FlowGoesOnCovered DEF At
    <3>5. CASE MovesTo(f, "checking")
          BY <1>1, <1>2, <2>1, <2>2, <2>3, <3>5, FlowGoesOnCovered DEF At
    <3> QED BY <3>1, <3>2, <3>3, <3>4, <3>5
  <2>4. CASE Ends(f) /\ UNCHANGED sepolia BY <1>1, <1>2, <2>1, <2>4, FlowEnds
  <2> QED BY <1>8, <2>3, <2>4 DEF ChainAnswered
<1>9. CASE BurnReceipt(f)
  <2>1. At(f, "burned") /\ UNCHANGED <<sepolia, account>>
        BY <1>9 DEF BurnReceipt, OnlyPage, walletVars, Purse
  <2>2. CASE Seen(f) /\ flow' = [flow EXCEPT ![f].at = "asking"]
    <3>1. txs[flow[f].tx].state # "pending" BY <2>2 DEF Seen
    <3> QED BY <1>1, <1>2, <2>1, <2>2, <3>1, FlowGoesOnFreely
  <2>3. CASE Ends(f) BY <1>1, <1>2, <2>1, <2>3, FlowEnds
  <2> QED BY <1>9, <2>2, <2>3 DEF BurnReceipt
<1> QED BY <1>3, <1>4, <1>5, <1>6, <1>7, <1>8, <1>9

\* The user answers a prompt: the transaction is sent, or the flow ends.
LEMMA PromptKeepsCover ==
  ASSUME PageTypeOK, WalletInv, NEW f \in Flows, ApprovePrompted(f) \/ BurnPrompted(f)
  PROVE  WalletInv'
<1>1. CASE ~Ends(f)
  <2>1. CASE ApprovePrompted(f)
    <3>1. Prompted(f, "approving", "approved", "approve") BY <2>1 DEF ApprovePrompted
    <3> QED BY <1>1, <3>1, SendStep
  <2>2. CASE BurnPrompted(f)
    <3>1. Prompted(f, "burning", "burned", "burn") BY <2>2 DEF BurnPrompted
    <3> QED BY <1>1, <3>1, SendStep
  <2> QED BY <2>1, <2>2
<1>2. CASE Ends(f)
  <2>1. /\ ~At(f, "none") /\ UNCHANGED <<token, sepolia, account>>
        /\ \/ UNCHANGED txs
           \/ \E sent \in {"approved", "burned"} :
                flow' = [flow EXCEPT ![f].at = sent, ![f].tx = Len(txs')]
        BY DEF ApprovePrompted, BurnPrompted, Prompted, At, Purse
  <2>2. flow'[f].at = "none" BY <1>2, NoFlowIsFlow DEF Ends, PageTypeOK
  <2>3. ASSUME NEW sent \in {"approved", "burned"},
               flow' = [flow EXCEPT ![f].at = sent, ![f].tx = Len(txs')]
        PROVE  flow'[f].at = sent
        BY <2>3 DEF PageTypeOK, Flow
  <2>4. UNCHANGED txs BY <2>1, <2>2, <2>3
  <2> QED BY <1>2, <2>1, <2>4, FlowEnds
<1> QED BY <1>1, <1>2

\* Every step keeps the cover of flows that are alone.
LEMMA WalletStep ==
  ASSUME ApiTypeOK, PageTypeOK, WalletInv, [Next]_vars
  PROVE  WalletInv'
<1>1. CASE (Serving \/ ApiFaults \/ Pass \/ OtherAsks) /\ OnlyApi
  <2>1. UNCHANGED <<flow, account, txs, token, sepolia>>
        BY <1>1 DEF OnlyApi, pageVars, walletVars
  <2> QED BY <2>1, WalletStays
<1>2. CASE \E ip \in Ips, recipient \in Recipients : OtherPosts(ip, recipient) /\ OnlyApi
  <2>1. UNCHANGED <<flow, account, txs, token, sepolia>>
        BY <1>2 DEF OnlyApi, pageVars, walletVars
  <2> QED BY <2>1, WalletStays
<1>3. CASE \E f \in Flows : PageAsks(f) \/ StatusLands(f) BY <1>3, PageGoesOn
<1>4. CASE \E f \in Flows : DepositBegins(f) BY <1>4, BeginsKeepsCover
<1>5. CASE \E f \in Flows : PageAlone(f)
  <2>1. PICK f \in Flows : PageAlone(f) BY <1>5
  <2> QED BY <2>1, BeginsKeepsCover, PageGoesOn, CoverIsRead, PromptKeepsCover DEF PageAlone
<1>6. CASE WalletAlone BY <1>6, SwitchStep, MinedKeepsCover DEF WalletAlone
<1>7. CASE Reload BY <1>7, ReloadStep
<1>8. CASE UNCHANGED vars
  <2>1. UNCHANGED <<flow, account, txs, token, sepolia>>
        BY <1>8 DEF vars, pageVars, walletVars
  <2> QED BY <2>1, WalletStays
<1> QED BY <1>1, <1>2, <1>3, <1>4, <1>5, <1>6, <1>7, <1>8, NextByPart

\* Every step keeps the page's types.
LEMMA PageTypesStep ==
  ASSUME ApiTypeOK, PageTypeOK, FlowsPlain, [Next]_vars
  PROVE  PageTypeOK'
<1>1. ASSUME UNCHANGED <<pageVars, walletVars>> PROVE PageTypeOK'
      BY <1>1 DEF pageVars, walletVars, PageTypeOK
<1>2. CASE (Serving \/ ApiFaults \/ Pass \/ OtherAsks) /\ OnlyApi BY <1>1, <1>2 DEF OnlyApi
<1>3. CASE \E ip \in Ips, recipient \in Recipients : OtherPosts(ip, recipient) /\ OnlyApi
      BY <1>1, <1>3 DEF OnlyApi
<1>4. CASE \E f \in Flows : PageAsks(f) \/ StatusLands(f) BY <1>4, ContinuesTypes
<1>5. CASE \E f \in Flows : DepositBegins(f) BY <1>5, BeginsTypes
<1>6. CASE \E f \in Flows : PageAlone(f)
  <2>1. PICK f \in Flows : PageAlone(f) BY <1>6
  <2>2. CASE ApprovePrompted(f) BY <2>2, PromptedTypes DEF ApprovePrompted
  <2>3. CASE BurnPrompted(f) BY <2>3, PromptedTypes DEF BurnPrompted
  <2> QED BY <2>1, <2>2, <2>3, BeginsTypes, ContinuesTypes DEF PageAlone
<1>7. CASE AccountSwitched \/ ChainSwitched BY <1>7, SwitchTypes
<1>8. CASE \E i \in DOMAIN txs : TxMined(i)
  <2>1. PICK i \in DOMAIN txs : TxMined(i) BY <1>8
  <2>2. /\ txs' \in Seq(Tx) /\ token' \in [Accounts -> [balance : Nat, allowance : Nat]]
        BY <2>1, TxMinedStep
  <2>3. UNCHANGED <<pageVars, sepolia>> BY <2>1 DEF TxMined
  <2> QED BY <2>2, <2>3 DEF pageVars, PageTypeOK
<1>9. CASE Reload
  <2>1. flow' = [f \in Flows |-> NoFlow] BY <1>9 DEF Reload
  <2>2. flow' \in [Flows -> Flow] BY <2>1, NoFlowIsFlow
  <2> QED BY <1>9, <2>2 DEF Reload, PageTypeOK, walletVars
<1>10. CASE UNCHANGED vars
  <2>1. UNCHANGED <<pageVars, walletVars>> BY <1>10 DEF vars
  <2> QED BY <1>1, <2>1
<1> QED BY <1>2, <1>3, <1>4, <1>5, <1>6, <1>7, <1>8, <1>9, <1>10, NextByPart DEF WalletAlone

-----------------------------------------------------------------------------
(* The ticket.                                                              *)

\* No flow comes to wait for a request it did not wait for.
PostedStays ==
  \A f \in Flows : flow'[f].at = "posted" =>
    flow[f].at = "posted" /\ flow'[f].tx = flow[f].tx

\* A flow that moves on waits for no request.
LEMMA MovesPastPosted ==
  ASSUME PageTypeOK, NEW f \in Flows, NEW at \in Steps,
         \/ Ends(f) \/ MovesTo(f, at) \/ flow' = [flow EXCEPT ![f].at = at]
  PROVE  PostedStays
<1>1. PICK r \in Flow : flow' = [flow EXCEPT ![f] = r] /\ r.at # "posted"
  <2>1. CASE Ends(f) BY <2>1, NoFlowIsFlow DEF Ends
  <2>2. CASE MovesTo(f, at) BY <2>2, MovesToStep DEF Steps
  <2>3. CASE flow' = [flow EXCEPT ![f].at = at] BY <2>3, GoesOnStep DEF Steps
  <2> QED BY <2>1, <2>2, <2>3
<1>2. flow'[f] = r /\ \A g \in Flows \ {f} : flow'[g] = flow[g] BY <1>1, OneFlowMoves
<1> QED BY <1>1, <1>2 DEF PostedStays

\* The flows other than deposits begin elsewhere.
LEMMA BeginsPastPosted ==
  ASSUME PageTypeOK, NEW f \in Flows,
         \/ RefreshBegins(f) \/ ConnectBegins(f)
         \/ \E amount \in Amounts : ApproveBegins(f, amount) \/ RedeemBegins(f, amount)
  PROVE  PostedStays
<1>1. \A a \in Amounts : a \in Nat BY WebPageAssumption
<1>2. \E new \in Flow : Starts(f, new) /\ new.alone = FALSE /\ new.at # "posted"
  <2>1. CASE RefreshBegins(f)
    <3> DEFINE new == [NoFlow EXCEPT !.at = "asking"]
    <3>1. Starts(f, new) /\ new \in Flow BY <2>1, BeginningTypes DEF RefreshBegins
    <3>2. new.alone = FALSE /\ new.at = "asking" BY DEF NoFlow
    <3> HIDE DEF new
    <3> QED BY <3>1, <3>2
  <2>2. CASE ConnectBegins(f)
    <3> DEFINE new == [NoFlow EXCEPT !.kind = "connect", !.at = "accounts"]
    <3>1. Starts(f, new) /\ new \in Flow BY <2>2, BeginningTypes DEF ConnectBegins
    <3>2. new.alone = FALSE /\ new.at = "accounts" BY DEF NoFlow
    <3> HIDE DEF new
    <3> QED BY <3>1, <3>2
  <2>3. CASE \E amount \in Amounts : ApproveBegins(f, amount)
    <3>1. PICK amount \in Amounts : ApproveBegins(f, amount) BY <2>3
    <3> DEFINE new == [NoFlow EXCEPT !.kind = "approve", !.at = "chain", !.amount = amount]
    <3>2. Starts(f, new) /\ new \in Flow BY <1>1, <3>1, BeginningTypes DEF ApproveBegins
    <3>3. new.alone = FALSE /\ new.at = "chain" BY DEF NoFlow
    <3> HIDE DEF new
    <3> QED BY <3>2, <3>3
  <2>4. CASE \E amount \in Amounts : RedeemBegins(f, amount)
    <3>1. PICK amount \in Amounts : RedeemBegins(f, amount) BY <2>4
    <3> DEFINE new == [NoFlow EXCEPT !.kind = "redeem", !.at = "chain", !.amount = amount]
    <3>2. Starts(f, new) /\ new \in Flow BY <1>1, <3>1, BeginningTypes DEF RedeemBegins
    <3>3. new.alone = FALSE /\ new.at = "chain" BY DEF NoFlow
    <3> HIDE DEF new
    <3> QED BY <3>2, <3>3
  <2> QED BY <2>1, <2>2, <2>3, <2>4
<1>3. PICK new \in Flow : Starts(f, new) /\ new.alone = FALSE /\ new.at # "posted" BY <1>2
<1>4. /\ flow'[f].at = new.at
      /\ \A g \in Flows \ {f} : flow'[g].at = flow[g].at /\ flow'[g].tx = flow[g].tx
      BY <1>3, StartsStep
<1> QED BY <1>3, <1>4 DEF PostedStays

\* The steps of the page that touch neither the ticket nor what it may become.
LEMMA PageKeepsPosted ==
  ASSUME PageTypeOK, NEW f \in Flows,
         PageAsks(f) \/ StatusLands(f) \/ (PageAlone(f) /\ ~DepositLands(f))
  PROVE  PostedStays /\ ticket' = ticket
<1>1. CASE PageAsks(f) BY <1>1, MovesPastPosted DEF PageAsks, Steps
<1>2. CASE StatusLands(f) BY <1>2, MovesPastPosted DEF StatusLands, Steps
<1>3. CASE \/ RefreshBegins(f) \/ ConnectBegins(f)
           \/ \E amount \in Amounts : ApproveBegins(f, amount) \/ RedeemBegins(f, amount)
  <2>1. ticket' = ticket
        BY <1>3 DEF RefreshBegins, ConnectBegins, ApproveBegins, RedeemBegins
  <2> QED BY <1>3, <2>1, BeginsPastPosted
<1>4. CASE WalletRead(f) BY <1>4, MovesPastPosted DEF WalletRead, OnlyWallet, Steps
<1>5. CASE AccountsAnswered(f)
  <2>1. Ends(f) \/ flow' = [flow EXCEPT ![f].at = "chain"] BY <1>5 DEF AccountsAnswered
  <2>2. ticket' = ticket BY <1>5 DEF AccountsAnswered
  <2> QED BY <2>1, <2>2, MovesPastPosted DEF Steps
<1>6. CASE ChainAnswered(f)
  <2>1. \/ Ends(f) \/ MovesTo(f, "reading") \/ MovesTo(f, "approving")
        \/ MovesTo(f, "checking")
        BY <1>6 DEF ChainAnswered, OnSepolia
  <2>2. ticket' = ticket BY <1>6 DEF ChainAnswered
  <2> QED BY <2>1, <2>2, MovesPastPosted DEF Steps
<1>7. CASE AllowanceChecked(f)
      BY <1>7, MovesPastPosted DEF AllowanceChecked, OnlyWallet, Steps
<1>8. CASE ApproveReceipt(f) BY <1>8, MovesPastPosted DEF ApproveReceipt, Steps
<1>9. CASE ApproveRead(f) BY <1>9, MovesPastPosted DEF ApproveRead, OnlyWallet, Steps
<1>10. CASE BurnReceipt(f) BY <1>10, MovesPastPosted DEF BurnReceipt, Steps
<1>11. ASSUME NEW asked, NEW sent \in {"approved", "burned"}, NEW kind \in {"approve", "burn"},
              Prompted(f, asked, sent, kind)
       PROVE  PostedStays /\ ticket' = ticket
  <2>1. ticket' = ticket BY <1>11 DEF Prompted
  <2>2. CASE Ends(f) BY <2>1, <2>2, MovesPastPosted DEF Steps
  <2>3. CASE ~Ends(f)
    <3>1. PICK r \in Flow : flow' = [flow EXCEPT ![f] = r] /\ r.at = sent
          BY <1>11, <2>3, PromptedSends DEF SentBy, AwaitsSent
    <3>2. flow'[f] = r /\ \A g \in Flows \ {f} : flow'[g] = flow[g] BY <3>1, OneFlowMoves
    <3> QED BY <2>1, <3>1, <3>2 DEF PostedStays
  <2> QED BY <2>2, <2>3
<1>12. CASE ApprovePrompted(f) BY <1>11, <1>12 DEF ApprovePrompted
<1>13. CASE BurnPrompted(f) BY <1>11, <1>13 DEF BurnPrompted
<1> QED BY <1>1, <1>2, <1>3, <1>4, <1>5, <1>6, <1>7, <1>8, <1>9, <1>10, <1>12, <1>13
        DEF PageAlone

\* The ticket stays with its row, and becomes that of an answered request only.
LEMMA TicketStep ==
  ASSUME ApiTypeOK, PageTypeOK, Requests, TicketStored, FlowsPlain, [Next]_vars
  PROVE  TicketStored'
<1>1. RequestsGrow BY RequestsStep
<1>2. ASSUME PostedStays, ticket' = ticket PROVE TicketStored'
      BY <1>1, <1>2 DEF PostedStays, TicketStored, RequestsGrow, At
<1>3. ASSUME flow' = flow, ticket' = ticket PROVE TicketStored'
      BY <1>2, <1>3 DEF PostedStays
<1>4. CASE (Serving \/ ApiFaults \/ Pass \/ OtherAsks) /\ OnlyApi
      BY <1>3, <1>4 DEF OnlyApi, pageVars
<1>5. CASE \E ip \in Ips, recipient \in Recipients : OtherPosts(ip, recipient) /\ OnlyApi
      BY <1>3, <1>5 DEF OnlyApi, pageVars
<1>6. CASE \E f \in Flows : PageAsks(f) \/ StatusLands(f) \/ (PageAlone(f) /\ ~DepositLands(f))
      BY <1>2, <1>6, PageKeepsPosted
<1>7. CASE \E f \in Flows : DepositLands(f)
  <2>1. PICK f \in Flows : DepositLands(f) BY <1>7
  <2>2. PostedStays
    <3>1. Ends(f) \/ flow' = [flow EXCEPT ![f].at = "asking"] BY <2>1 DEF DepositLands
    <3> QED BY <3>1, MovesPastPosted DEF Steps
  <2>3. CASE ticket' = ticket BY <1>2, <2>2, <2>3
  <2>4. CASE posts[flow[f].tx].stage = "answered" /\ ticket' = flow[f].tx
    <3>1. flow[f].tx \in DOMAIN posts BY <2>1 DEF DepositLands, TicketStored
    <3>2. ticket' \in rows BY <2>4, <3>1 DEF Requests, RowsAnswered
    <3>3. ticket' \in rows' BY <1>1, <3>2 DEF RequestsGrow
    <3>4. \A g \in Flows : flow'[g].at = "posted" => flow'[g].tx \in DOMAIN posts'
          BY <1>1, <2>2 DEF PostedStays, TicketStored, RequestsGrow, At
    <3> QED BY <3>3, <3>4 DEF TicketStored, At
  <2> QED BY <2>1, <2>3, <2>4 DEF DepositLands
<1>8. CASE \E f \in Flows : DepositBegins(f)
  <2>1. PICK f \in Flows : DepositBegins(f) BY <1>8
  <2> DEFINE new == [NoFlow EXCEPT !.kind = "deposit", !.at = "posted", !.tx = Len(posts) + 1]
  <2>2. /\ Starts(f, new) /\ PostDeposit(f, PageIp, PageRecipient) /\ ticket' = ticket
        BY <2>1 DEF DepositBegins
  <2>3. f \in Callers /\ PageIp \in Ips /\ PageRecipient \in Recipients
        BY WebPageAssumption DEF Flows
  <2>4. Len(posts) + 1 \in DOMAIN posts' BY <2>2, <2>3, PostDepositStep
  <2>5. Len(posts) + 1 \in Nat BY LenProperties DEF Requests
  <2>6. new \in Flow BY <2>5, BeginningTypes
  <2>7. new.alone = FALSE /\ new.tx = Len(posts) + 1 BY DEF NoFlow
  <2> HIDE DEF new
  <2>8. /\ flow'[f].tx = new.tx
        /\ \A g \in Flows \ {f} : flow'[g].at = flow[g].at /\ flow'[g].tx = flow[g].tx
        BY <2>2, <2>6, <2>7, StartsStep
  <2>9. \A g \in Flows : flow'[g].at = "posted" => flow'[g].tx \in DOMAIN posts'
        BY <1>1, <2>4, <2>7, <2>8 DEF TicketStored, RequestsGrow, At
  <2>10. ticket' # NoTicket => ticket' \in rows'
         BY <1>1, <2>2 DEF TicketStored, RequestsGrow
  <2> QED BY <2>9, <2>10 DEF TicketStored, At
<1>9. CASE AccountSwitched \/ ChainSwitched
  <2>1. PICK a \in Accounts \cup {NoAccount} : Rereads(a)
    <3>1. CASE AccountSwitched BY <3>1 DEF AccountSwitched
    <3>2. CASE ChainSwitched BY <3>2 DEF ChainSwitched, PageTypeOK
    <3> QED BY <1>9, <3>1, <3>2
  <2>2. \A g \in Flows : flow'[g] = Disturbed[g] \/ flow'[g].at = "reading"
        BY <2>1, RereadsStep
  <2>3. PostedStays BY <2>2, DisturbedFlows DEF PostedStays
  <2>4. ticket' = ticket BY <1>9 DEF AccountSwitched, ChainSwitched
  <2> QED BY <1>2, <2>3, <2>4
<1>10. CASE \E i \in DOMAIN txs : TxMined(i) BY <1>3, <1>10 DEF TxMined, pageVars
<1>11. CASE Reload
  <2>1. flow' = [f \in Flows |-> NoFlow] /\ ticket' = ticket BY <1>11 DEF Reload
  <2>2. PostedStays BY <2>1, NoFlowIsFlow DEF PostedStays
  <2> QED BY <1>2, <2>1, <2>2
<1>12. CASE UNCHANGED vars BY <1>3, <1>12 DEF vars, pageVars
<1> QED BY <1>4, <1>5, <1>6, <1>7, <1>8, <1>9, <1>10, <1>11, <1>12, NextByPart DEF WalletAlone

-----------------------------------------------------------------------------
(* The limiter.                                                             *)

\* What the limiter goes by in a request.
SamePost(p, q) == p.keys = q.keys /\ p.at = q.at /\ p.refusedBy = q.refusedBy

InPlace ==
  /\ posts' \in Seq(Post) /\ Len(posts') = Len(posts)
  /\ \A i \in DOMAIN posts : SamePost(posts'[i], posts[i])

\* Part of a finite set has no more elements, and part of two no more than both.
LEMMA PartIsSmaller ==
  ASSUME NEW T, IsFiniteSet(T), NEW S, S \subseteq T
  PROVE  Cardinality(S) \in Nat /\ Cardinality(S) <= Cardinality(T)
BY FS_Subset, FS_CardinalityType

LEMMA PartOfBoth ==
  ASSUME NEW T, IsFiniteSet(T), NEW U, IsFiniteSet(U), NEW S, S \subseteq T \cup U
  PROVE  Cardinality(S) \in Nat /\ Cardinality(S) <= Cardinality(T) + Cardinality(U)
<1>1. /\ IsFiniteSet(T \cup U)
      /\ Cardinality(T \cup U) = Cardinality(T) + Cardinality(U) - Cardinality(T \cap U)
      BY FS_Union
<1>2. Cardinality(S) \in Nat /\ Cardinality(S) <= Cardinality(T \cup U) BY <1>1, PartIsSmaller
<1>3. Cardinality(T) \in Nat /\ Cardinality(U) \in Nat BY FS_CardinalityType
<1>4. Cardinality(T \cap U) \in Nat BY PartIsSmaller
<1> QED BY <1>1, <1>2, <1>3, <1>4

\* The requests of a key are finitely many, each with its time.
LEMMA PostsOfKey ==
  ASSUME posts \in Seq(Post), life \in Nat, NEW k
  PROVE  /\ IsFiniteSet(PostsOf(k)) /\ PostsOf(k) \subseteq DOMAIN posts
         /\ \A i \in PostsOf(k) : i \in Nat /\ posts[i] \in Post /\ posts[i].at \in Nat
<1>1. Len(posts) \in Nat /\ DOMAIN posts = 1 .. Len(posts) BY LenProperties
<1>2. IsFiniteSet(life + 1 .. Len(posts)) BY <1>1, FS_Interval
<1>3. PostsOf(k) \subseteq life + 1 .. Len(posts) BY DEF PostsOf
<1>4. IsFiniteSet(PostsOf(k)) BY <1>2, <1>3, FS_Subset
<1>5. \A i \in PostsOf(k) : i \in Nat /\ i \in DOMAIN posts BY <1>1, <1>3
<1>6. \A i \in PostsOf(k) : posts[i] \in Post BY <1>1, <1>5, ElementOfSeq
<1>7. \A i \in PostsOf(k) : posts[i].at \in Nat BY <1>6 DEF Post
<1> QED BY <1>4, <1>5, <1>6, <1>7

\* A key without requests is metered by a bucket without a count.
LEMMA NothingMetered ==
  \A k \in Keys : now \in Nat /\ PostsOf(k) = {} /\ buckets[k] = NoBucket => KeyMetered(k)
<1> TAKE k \in Keys
<1> HAVE now \in Nat /\ PostsOf(k) = {} /\ buckets[k] = NoBucket
<1>1. Cardinality({}) = 0 BY FS_EmptySet
<1>2. SinceOpened(k) = {} BY DEF SinceOpened
<1>3. \A t, u : Admitted(k, t, u) = {} BY DEF Admitted
<1>4. Limit[KindOf(k)] \in Int /\ Window[KindOf(k)] \in Nat BY KindsHaveLimits
<1>5. buckets[k].count = 0 /\ buckets[k].resetAt = 0 BY DEF NoBucket
<1>6. ASSUME Limit[KindOf(k)] > 0 PROVE Metered(k)
  <2>1. \A t, u : Cardinality(Admitted(k, t, u)) = 0 BY <1>1, <1>3
  <2>2. 0 <= Limit[KindOf(k)] /\ 0 <= 2 * Limit[KindOf(k)] BY <1>4, <1>6
  <2>3. buckets[k].resetAt <= now + Window[KindOf(k)] BY <1>4, <1>5
  <2>4. buckets[k].count = Cardinality(SinceOpened(k)) BY <1>1, <1>2, <1>5
  <2> QED BY <2>1, <2>2, <2>3, <2>4 DEF Metered, NowAdmitted, LastAdmitted
<1> QED BY <1>6 DEF KeyMetered

\* A key that no new request asks stays metered as time passes.
LEMMA KeyStays ==
  ASSUME posts \in Seq(Post), life \in Nat, NEW k \in Keys, KeyMetered(k),
         now \in Nat, now' \in Nat, now <= now', buckets[k] \in Bucket,
         buckets'[k] = buckets[k], PostsOf(k)' = PostsOf(k),
         \A i \in PostsOf(k) : SamePost(posts'[i], posts[i])
  PROVE  KeyMetered(k)'
<1>1. Limit[KindOf(k)] \in Int /\ Window[KindOf(k)] \in Nat BY KindsHaveLimits
<1>2. buckets[k].resetAt \in Nat BY DEF Bucket
<1>3. Opened(k)' = Opened(k) BY DEF Opened
<1>4. SinceOpened(k)' = SinceOpened(k) BY <1>3 DEF SinceOpened, SamePost
<1>5. ASSUME NEW t, NEW u PROVE Admitted(k, t, u)' = Admitted(k, t, u)
      BY DEF Admitted, SamePost
<1>6. \A i \in PostsOf(k) : AskedBefore(k, i)' = AskedBefore(k, i)
      BY DEF AskedBefore, SamePost
<1>7. ASSUME Limit[KindOf(k)] > 0 PROVE Metered(k)'
  <2>1. Metered(k) BY <1>7 DEF KeyMetered
  <2>2. NowAdmitted(k)' = NowAdmitted(k) /\ LastAdmitted(k)' = LastAdmitted(k)
        BY <1>3 DEF NowAdmitted, LastAdmitted, Admitted, SamePost
  <2>3. \A i \in PostsOf(k)' : posts'[i].at < buckets'[k].resetAt BY <2>1 DEF Metered, SamePost
  <2>4. buckets'[k].resetAt <= now' + Window[KindOf(k)]
    <3>1. buckets[k].resetAt <= now + Window[KindOf(k)] BY <2>1 DEF Metered
    <3> QED BY <1>1, <1>2, <3>1
  <2> QED BY <1>3, <1>4, <1>5, <2>1, <2>2, <2>3, <2>4 DEF Metered
<1>8. \A i \in PostsOf(k)' : posts'[i].refusedBy = posts[i].refusedBy BY DEF SamePost
<1> QED BY <1>6, <1>7, <1>8 DEF KeyMetered

\* A new request of a key: what its bucket makes of it.
NewOf(k, n, refusedBy) ==
  /\ n \in Nat /\ n \notin PostsOf(k) /\ PostsOf(k)' = PostsOf(k) \cup {n}
  /\ \A i \in PostsOf(k) : i < n /\ SamePost(posts'[i], posts[i])
  /\ posts'[n].at = now /\ posts'[n].refusedBy = refusedBy
  /\ refusedBy = NoKey => HasRoom(k)
  /\ refusedBy = k => ~HasRoom(k)

\* A window opens with the request: it is alone in it, and what came within one
\* window before came after the last window had opened.
LEMMA WindowOpens ==
  ASSUME posts \in Seq(Post), life \in Nat, posts' \in Seq(Post), life' \in Nat,
         NEW k \in Keys, NEW n, NEW refusedBy, NewOf(k, n, refusedBy),
         now \in Nat, buckets[k] \in Bucket, buckets'[k] = Counted(k),
         Limit[KindOf(k)] > 0, Metered(k), now >= buckets[k].resetAt
  PROVE  /\ buckets'[k].resetAt = now + Window[KindOf(k)]
         /\ buckets'[k].count = Cardinality(SinceOpened(k)')
         /\ Cardinality(NowAdmitted(k)') <= Limit[KindOf(k)]
         /\ Cardinality(LastAdmitted(k)') <= Limit[KindOf(k)]
         /\ refusedBy # k
<1> DEFINE limit == Limit[KindOf(k)] window == Window[KindOf(k)] old == PostsOf(k)
<1>1. limit \in Int /\ window \in Nat /\ limit > 0 BY KindsHaveLimits
<1>2. buckets[k].resetAt \in Nat /\ buckets[k].count \in Nat BY DEF Bucket
<1>3. buckets'[k].count = 1 /\ buckets'[k].resetAt = now + window BY DEF Counted
<1>4. Opened(k)' = now BY <1>1, <1>3 DEF Opened
<1>5. /\ PostsOf(k)' = old \cup {n} /\ n \notin old /\ posts'[n].at = now
      /\ ~(posts'[n].at < now)
      /\ \A i \in old : posts'[i].at = posts[i].at /\ posts'[i].refusedBy = posts[i].refusedBy
      BY DEF NewOf, SamePost
<1>6. \A i \in old : posts[i].at \in Nat /\ posts[i].at < buckets[k].resetAt
      BY PostsOfKey DEF Metered
<1>7. SinceOpened(k)' = {n}
  <2>1. \A i \in old : ~(posts'[i].at >= now) BY <1>2, <1>5, <1>6
  <2> QED BY <1>4, <1>5, <2>1 DEF SinceOpened
<1>8. Cardinality({n}) = 1 /\ IsFiniteSet({n}) BY FS_Singleton
<1>9. Cardinality(NowAdmitted(k)') <= limit
  <2>1. NowAdmitted(k)' \subseteq {n}
        BY <1>1, <1>2, <1>4, <1>5, <1>6 DEF NowAdmitted, Admitted
  <2>2. /\ Cardinality(NowAdmitted(k)') \in Nat
        /\ Cardinality(NowAdmitted(k)') <= 1
        BY <1>8, <2>1, PartIsSmaller
  <2> QED BY <1>1, <2>2
<1>10. Cardinality(LastAdmitted(k)') <= limit
  <2>1. LastAdmitted(k)' \subseteq NowAdmitted(k)
    <3>1. Opened(k) \in Int /\ Opened(k) <= now - window /\ now < now + 1
          BY <1>1, <1>2 DEF Opened
    <3>2. LastAdmitted(k)' =
            {i \in PostsOf(k)' : /\ posts'[i].refusedBy = NoKey
                                 /\ now - window + 1 <= posts'[i].at /\ posts'[i].at < now}
          BY <1>4 DEF LastAdmitted, Admitted
    <3>3. ASSUME NEW i \in LastAdmitted(k)' PROVE i \in NowAdmitted(k)
      <4>1. i \in old BY <1>5, <3>2, <3>3
      <4>2. posts[i].refusedBy = NoKey /\ now - window + 1 <= posts[i].at
            BY <1>5, <3>2, <3>3, <4>1
      <4>3. Opened(k) <= posts[i].at BY <1>1, <1>6, <3>1, <4>1, <4>2
      <4> QED BY <1>6, <4>1, <4>2, <4>3 DEF NowAdmitted, Admitted
    <3> QED BY <3>3
  <2>2. IsFiniteSet(NowAdmitted(k)) BY PostsOfKey, FS_Subset DEF NowAdmitted, Admitted
  <2>3. /\ Cardinality(LastAdmitted(k)') \in Nat
        /\ Cardinality(LastAdmitted(k)') <= Cardinality(NowAdmitted(k))
        BY <2>1, <2>2, PartIsSmaller
  <2>4. Cardinality(NowAdmitted(k)) \in Nat BY <2>2, FS_CardinalityType
  <2>5. Cardinality(NowAdmitted(k)) <= limit BY DEF Metered
  <2> QED BY <1>1, <2>3, <2>4, <2>5
<1>11. refusedBy # k BY <1>1, <1>3 DEF NewOf, HasRoom
<1> QED BY <1>3, <1>4, <1>7, <1>8, <1>9, <1>10, <1>11

\* The request is counted in the window that is open, and let through only while
\* the count is within the limit.
LEMMA WindowCounts ==
  ASSUME posts \in Seq(Post), life \in Nat, posts' \in Seq(Post), life' \in Nat,
         NEW k \in Keys, NEW n, NEW refusedBy, NewOf(k, n, refusedBy),
         now \in Nat, buckets[k] \in Bucket, buckets'[k] = Counted(k),
         Limit[KindOf(k)] > 0, Metered(k), now < buckets[k].resetAt
  PROVE  /\ buckets'[k].resetAt = buckets[k].resetAt
         /\ buckets'[k].count = Cardinality(SinceOpened(k)')
         /\ Cardinality(NowAdmitted(k)') <= Limit[KindOf(k)]
         /\ Cardinality(LastAdmitted(k)') <= Limit[KindOf(k)]
         /\ Opened(k)' <= now
         /\ refusedBy = k => Cardinality(AskedBefore(k, n)') >= Limit[KindOf(k)]
<1> DEFINE limit == Limit[KindOf(k)] window == Window[KindOf(k)] old == PostsOf(k)
<1>1. limit \in Int /\ window \in Nat /\ limit > 0 BY KindsHaveLimits
<1>2. buckets[k].resetAt \in Nat /\ buckets[k].count \in Nat BY DEF Bucket
<1>3. buckets'[k].count = buckets[k].count + 1 /\ buckets'[k].resetAt = buckets[k].resetAt
  <2>1. buckets'[k] = [buckets[k] EXCEPT !.count = @ + 1] BY <1>2 DEF Counted
  <2> QED BY <2>1 DEF Bucket
<1>4. Opened(k)' = Opened(k) /\ Opened(k) \in Int /\ Opened(k) <= now
  <2>1. Opened(k)' = Opened(k) /\ Opened(k) \in Int BY <1>1, <1>2, <1>3 DEF Opened
  <2>2. buckets[k].resetAt <= now + window BY DEF Metered
  <2> QED BY <1>1, <1>2, <2>1, <2>2 DEF Opened
<1>5. /\ PostsOf(k)' = old \cup {n} /\ n \notin old /\ posts'[n].at = now
      /\ posts'[n].refusedBy = refusedBy
      /\ \A i \in old : posts'[i].at = posts[i].at /\ posts'[i].refusedBy = posts[i].refusedBy
      BY DEF NewOf, SamePost
<1>6. IsFiniteSet(old) /\ \A i \in old : posts[i].at \in Nat BY PostsOfKey
<1>7. IsFiniteSet(SinceOpened(k)) /\ n \notin SinceOpened(k)
      BY <1>5, <1>6, FS_Subset DEF SinceOpened
<1>8. SinceOpened(k)' = SinceOpened(k) \cup {n} BY <1>4, <1>5 DEF SinceOpened
<1>9. IsFiniteSet(SinceOpened(k)') /\ buckets'[k].count = Cardinality(SinceOpened(k)')
  <2>1. buckets[k].count = Cardinality(SinceOpened(k)) BY DEF Metered
  <2> QED BY <1>3, <1>7, <1>8, <2>1, FS_AddElement
<1>10. Cardinality(NowAdmitted(k)') <= limit
  <2>1. CASE refusedBy = NoKey
    <3>1. NowAdmitted(k)' \subseteq SinceOpened(k)'
          BY <1>4 DEF NowAdmitted, Admitted, SinceOpened
    <3>2. /\ Cardinality(NowAdmitted(k)') \in Nat
          /\ Cardinality(NowAdmitted(k)') <= buckets'[k].count
          BY <1>9, <3>1, PartIsSmaller
    <3>3. buckets'[k].count <= limit BY <2>1 DEF NewOf, HasRoom
    <3> QED BY <1>1, <1>2, <1>3, <3>2, <3>3
  <2>2. CASE refusedBy # NoKey
    <3>1. NowAdmitted(k)' = NowAdmitted(k)
          BY <1>3, <1>4, <1>5, <2>2 DEF NowAdmitted, Admitted
    <3> QED BY <3>1 DEF Metered
  <2> QED BY <2>1, <2>2
<1>11. Cardinality(LastAdmitted(k)') <= limit
  <2>1. LastAdmitted(k)' = LastAdmitted(k)
        BY <1>1, <1>4, <1>5 DEF LastAdmitted, Admitted
  <2> QED BY <2>1 DEF Metered
<1>12. ASSUME refusedBy = k PROVE Cardinality(AskedBefore(k, n)') >= limit
  <2>1. buckets[k].count >= limit
    <3>1. buckets'[k].count > limit
      <4>1. ~(buckets'[k].count <= limit) BY <1>12 DEF NewOf, HasRoom
      <4> QED BY <1>1, <1>2, <1>3, <4>1
    <3> QED BY <1>1, <1>2, <1>3, <3>1
  <2>2. buckets[k].count = Cardinality(SinceOpened(k)) BY DEF Metered
  <2>3. SinceOpened(k) \subseteq AskedBefore(k, n)'
    <3>1. now - window < Opened(k) BY <1>1, <1>2, <1>4 DEF Opened
    <3>2. \A i \in old : i < n BY DEF NewOf
    <3> QED BY <1>1, <1>4, <1>5, <1>6, <3>1, <3>2 DEF SinceOpened, AskedBefore
  <2>4. IsFiniteSet(AskedBefore(k, n)') 
    <3>1. IsFiniteSet(PostsOf(k)') BY <1>5, <1>6, FS_AddElement
    <3> QED BY <3>1, FS_Subset DEF AskedBefore
  <2>5. Cardinality(AskedBefore(k, n)') \in Nat BY <2>4, FS_CardinalityType
  <2>6. Cardinality(SinceOpened(k)) <= Cardinality(AskedBefore(k, n)')
        BY <2>3, <2>4, PartIsSmaller
  <2> QED BY <1>1, <1>2, <2>1, <2>2, <2>5, <2>6
<1> QED BY <1>3, <1>4, <1>9, <1>10, <1>11, <1>12

\* A key that a new request asks stays metered.
LEMMA KeyCounts ==
  ASSUME posts \in Seq(Post), life \in Nat, posts' \in Seq(Post), life' \in Nat,
         NEW k \in Keys, NEW n, NEW refusedBy, NewOf(k, n, refusedBy),
         now \in Nat, now' = now, buckets[k] \in Bucket,
         Limit[KindOf(k)] > 0 => buckets'[k] = Counted(k), KeyMetered(k)
  PROVE  KeyMetered(k)'
<1> DEFINE limit == Limit[KindOf(k)] window == Window[KindOf(k)] old == PostsOf(k)
<1>1. limit \in Int /\ window \in Nat \ {0} BY KindsHaveLimits
<1>2. buckets[k].resetAt \in Nat BY DEF Bucket
<1>3. /\ PostsOf(k)' = old \cup {n} /\ n \notin old /\ posts'[n].at = now
      /\ posts'[n].refusedBy = refusedBy
      /\ \A i \in old : /\ i < n /\ posts'[i].at = posts[i].at
                        /\ posts'[i].refusedBy = posts[i].refusedBy
      BY DEF NewOf, SamePost
<1>4. n \in Nat /\ \A i \in old : i \in Nat /\ posts[i].at \in Nat BY PostsOfKey DEF NewOf
<1>5. IsFiniteSet(PostsOf(k)') BY <1>3, PostsOfKey, FS_AddElement
<1>6. \A i \in old : AskedBefore(k, i)' = AskedBefore(k, i)
      BY <1>3, <1>4 DEF AskedBefore
<1>7. CASE limit <= 0
  <2>1. refusedBy # NoKey BY <1>1, <1>7 DEF NewOf, HasRoom
  <2>2. \A i \in PostsOf(k)' : posts'[i].refusedBy # NoKey
        BY <1>3, <1>7, <2>1 DEF KeyMetered
  <2>3. \A i \in PostsOf(k)' : Cardinality(AskedBefore(k, i)') >= limit
    <3> TAKE i \in PostsOf(k)'
    <3>1. IsFiniteSet(AskedBefore(k, i)') BY <1>5, FS_Subset DEF AskedBefore
    <3>2. Cardinality(AskedBefore(k, i)') \in Nat BY <3>1, FS_CardinalityType
    <3> QED BY <1>1, <1>7, <3>2
  <2>4. ~(limit > 0) BY <1>1, <1>7
  <2> QED BY <2>2, <2>3, <2>4 DEF KeyMetered
<1>8. CASE limit > 0
  <2>1. Metered(k) /\ buckets'[k] = Counted(k) BY <1>8 DEF KeyMetered
  <2>2. /\ Cardinality(NowAdmitted(k)') <= limit
        /\ Cardinality(LastAdmitted(k)') <= limit
        /\ buckets'[k].count = Cardinality(SinceOpened(k)')
        /\ refusedBy = k => Cardinality(AskedBefore(k, n)') >= limit
    <3>1. CASE now >= buckets[k].resetAt BY <1>8, <2>1, <3>1, WindowOpens
    <3>2. CASE now < buckets[k].resetAt BY <1>8, <2>1, <3>2, WindowCounts
    <3> QED BY <1>2, <3>1, <3>2
  <2>3. /\ buckets'[k].resetAt \in Nat /\ Opened(k)' \in Int /\ Opened(k)' <= now
        /\ now < buckets'[k].resetAt /\ buckets'[k].resetAt <= now + window
        /\ buckets[k].resetAt <= buckets'[k].resetAt
    <3>1. CASE now >= buckets[k].resetAt
      <4>1. buckets'[k].resetAt = now + window BY <1>8, <2>1, <3>1, WindowOpens
      <4>2. Opened(k)' = now BY <1>1, <4>1 DEF Opened
      <4> QED BY <1>1, <1>2, <3>1, <4>1, <4>2
    <3>2. CASE now < buckets[k].resetAt
      <4>1. buckets'[k].resetAt = buckets[k].resetAt /\ Opened(k)' <= now
            BY <1>8, <2>1, <3>2, WindowCounts
      <4>2. Opened(k)' \in Int BY <1>1, <1>2, <4>1 DEF Opened
      <4>3. buckets[k].resetAt <= now + window BY <2>1 DEF Metered
      <4> QED BY <1>1, <1>2, <3>2, <4>1, <4>2, <4>3
    <3> QED BY <1>2, <3>1, <3>2
  <2>4. \A i \in PostsOf(k)' : posts'[i].at \in Nat /\ posts'[i].at < buckets'[k].resetAt
    <3>1. \A i \in old : posts[i].at < buckets[k].resetAt BY <2>1 DEF Metered
    <3> TAKE i \in PostsOf(k)'
    <3>2. CASE i = n BY <1>3, <2>3, <3>2
    <3>3. CASE i \in old
      <4>1. posts'[i].at = posts[i].at /\ posts[i].at \in Nat BY <1>3, <1>4, <3>3
      <4>2. posts[i].at < buckets[k].resetAt BY <3>1, <3>3
      <4>3. buckets[k].resetAt <= buckets'[k].resetAt /\ buckets'[k].resetAt \in Nat BY <2>3
      <4> HIDE DEF old
      <4> QED BY <1>2, <4>1, <4>2, <4>3
    <3> QED BY <1>3, <3>2, <3>3
  <2>5. IsFiniteSet(NowAdmitted(k)') /\ IsFiniteSet(LastAdmitted(k)')
        BY <1>5, FS_Subset DEF NowAdmitted, LastAdmitted, Admitted
  <2>6. ASSUME NEW t \in Int PROVE Cardinality(Admitted(k, t, t + window)') <= 2 * limit
    <3>1. CASE t + window <= Opened(k)'
      <4>1. Admitted(k, t, t + window)' = Admitted(k, t, t + window)
            BY <1>1, <1>3, <2>3, <3>1 DEF Admitted
      <4> QED BY <2>1, <4>1 DEF Metered
    <3>2. CASE t + window > Opened(k)'
      <4>1. Admitted(k, t, t + window)' \subseteq
              LastAdmitted(k)' \cup
              NowAdmitted(k)'
        <5> SUFFICES ASSUME NEW i \in Admitted(k, t, t + window)'
                     PROVE  i \in LastAdmitted(k)' \/ i \in NowAdmitted(k)'
            OBVIOUS
        <5>1. /\ i \in PostsOf(k)' /\ posts'[i].refusedBy = NoKey
              /\ t <= posts'[i].at /\ posts'[i].at < t + window
              BY DEF Admitted
        <5>2. posts'[i].at \in Nat /\ posts'[i].at < buckets'[k].resetAt BY <2>4, <5>1
        <5>3. CASE posts'[i].at >= Opened(k)'
              BY <5>1, <5>2, <5>3 DEF NowAdmitted, Admitted
        <5>4. CASE posts'[i].at < Opened(k)'
          <6>1. Opened(k)' - window + 1 <= t BY <1>1, <2>3, <3>2
          <6>2. Opened(k)' - window + 1 <= posts'[i].at
                BY <1>1, <2>3, <5>1, <5>2, <6>1
          <6> QED BY <5>1, <5>4, <6>2 DEF LastAdmitted, Admitted
        <5> QED BY <2>3, <5>2, <5>3, <5>4
      <4>2. /\ Cardinality(LastAdmitted(k)') \in Nat
            /\ Cardinality(NowAdmitted(k)') \in Nat
            BY <2>5, FS_CardinalityType
      <4>3. /\ Cardinality(Admitted(k, t, t + window)') \in Nat
            /\ Cardinality(Admitted(k, t, t + window)') <=
                 Cardinality(LastAdmitted(k)') +
                 Cardinality(NowAdmitted(k)')
            BY <2>5, <4>1, PartOfBoth
      <4> QED BY <1>1, <2>2, <4>2, <4>3
    <3> QED BY <1>1, <2>3, <3>1, <3>2
  <2>7. Metered(k)' BY <2>2, <2>3, <2>4, <2>6 DEF Metered
  <2>8. ~(limit <= 0) BY <1>1, <1>8
  <2>9. \A i \in PostsOf(k)' : posts'[i].refusedBy = k => Cardinality(AskedBefore(k, i)') >= limit
        BY <1>3, <1>6, <2>2 DEF KeyMetered
  <2> QED BY <2>7, <2>8, <2>9 DEF KeyMetered
<1> QED BY <1>1, <1>7, <1>8

\* Requests that go on, are mined, fail or lose their answer do so in place.
LEMMA ChangesInPlace ==
  ASSUME posts \in Seq(Post), NEW i \in DOMAIN posts,
         \/ \E to \in Stages : posts' = [posts EXCEPT ![i].stage = to]
         \/ \E to \in Stages, tx \in {"none", "pending", "mined", "reverted"} :
              posts' = [posts EXCEPT ![i].stage = to, ![i].tx = tx]
         \/ \E tx \in {"none", "pending", "mined", "reverted"} :
              posts' = [posts EXCEPT ![i].tx = tx]
  PROVE  InPlace
<1>1. posts[i] \in Post BY ElementOfSeq, LenProperties
<1>2. ASSUME NEW p \in Post, SamePost(p, posts[i]), posts' = [posts EXCEPT ![i] = p]
      PROVE  InPlace
      BY <1>2, PostChanges DEF InPlace, SamePost
<1>3. CASE \E to \in Stages : posts' = [posts EXCEPT ![i].stage = to]
  <2>1. PICK to \in Stages : posts' = [posts EXCEPT ![i].stage = to] BY <1>3
  <2> DEFINE p == [posts[i] EXCEPT !.stage = to]
  <2>2. p \in Post /\ SamePost(p, posts[i]) BY <1>1 DEF Post, SamePost
  <2>3. posts' = [posts EXCEPT ![i] = p] BY <2>1
  <2> HIDE DEF p
  <2> QED BY <1>2, <2>2, <2>3
<1>4. CASE \E to \in Stages, tx \in {"none", "pending", "mined", "reverted"} :
             posts' = [posts EXCEPT ![i].stage = to, ![i].tx = tx]
  <2>1. PICK to \in Stages, tx \in {"none", "pending", "mined", "reverted"} :
          posts' = [posts EXCEPT ![i].stage = to, ![i].tx = tx]
        BY <1>4
  <2> DEFINE p == [posts[i] EXCEPT !.stage = to, !.tx = tx]
  <2>2. p \in Post /\ SamePost(p, posts[i]) BY <1>1 DEF Post, SamePost
  <2>3. posts' = [posts EXCEPT ![i] = p] BY <1>1, <2>1 DEF Post
  <2> HIDE DEF p
  <2> QED BY <1>2, <2>2, <2>3
<1>5. CASE \E tx \in {"none", "pending", "mined", "reverted"} :
             posts' = [posts EXCEPT ![i].tx = tx]
  <2>1. PICK tx \in {"none", "pending", "mined", "reverted"} :
          posts' = [posts EXCEPT ![i].tx = tx]
        BY <1>5
  <2> DEFINE p == [posts[i] EXCEPT !.tx = tx]
  <2>2. p \in Post /\ SamePost(p, posts[i]) BY <1>1 DEF Post, SamePost
  <2>3. posts' = [posts EXCEPT ![i] = p] BY <2>1
  <2> HIDE DEF p
  <2> QED BY <1>2, <2>2, <2>3
<1> QED BY <1>3, <1>4, <1>5

\* A step of the limiter's world: requests change in place, a process is replaced
\* by one that knows nothing, or a request comes.
Comes == \E client \in Callers, ip \in Ips, recipient \in Recipients :
           PostDeposit(client, ip, recipient)

LimiterStay == InPlace /\ UNCHANGED <<life, buckets>>

\* Every step is one of these, and time passes only in steps of the first kind.
LEMMA LimiterMoves ==
  ASSUME Requests, now \in Nat, [Next]_vars
  PROVE  \/ LimiterStay /\ now' \in Nat /\ now <= now'
         \/ (ApiRestarts \/ Comes) /\ now' = now
<1>1. ASSUME NEW i \in DOMAIN posts,
             FundingChecked(i) \/ IntentSent(i) \/ ReceiptArrives(i) \/ IntentMined(i)
               \/ RequestFails(i) \/ AnswerLost(i)
      PROVE  LimiterStay /\ now' = now
  <2>1. UNCHANGED <<now, life, buckets>>
        BY <1>1 DEF FundingChecked, IntentSent, ReceiptArrives, IntentMined, RequestFails,
                    AnswerLost, OnlyPosts
  <2>2. \/ \E to \in Stages : posts' = [posts EXCEPT ![i].stage = to]
        \/ \E to \in Stages, tx \in {"none", "pending", "mined", "reverted"} :
             posts' = [posts EXCEPT ![i].stage = to, ![i].tx = tx]
        \/ \E tx \in {"none", "pending", "mined", "reverted"} :
             posts' = [posts EXCEPT ![i].tx = tx]
    <3>1. CASE FundingChecked(i) BY <3>1 DEF FundingChecked, Goes, Stages
    <3>2. CASE IntentSent(i) BY <3>2 DEF IntentSent, Goes, Stages
    <3>3. CASE ReceiptArrives(i) BY <3>3 DEF ReceiptArrives, Goes, Stages
    <3>4. CASE IntentMined(i) BY <3>4 DEF IntentMined
    <3>5. CASE RequestFails(i) BY <3>5 DEF RequestFails, Stages
    <3>6. CASE AnswerLost(i) BY <3>6 DEF AnswerLost, Goes, Stages
    <3> QED BY <1>1, <3>1, <3>2, <3>3, <3>4, <3>5, <3>6
  <2> QED BY <2>1, <2>2, ChangesInPlace DEF LimiterStay, Requests
<1>2. ASSUME UNCHANGED intentVars PROVE LimiterStay
      BY <1>2 DEF intentVars, LimiterStay, InPlace, SamePost, Requests
<1>3. CASE Serving /\ ~\E r \in reads : ReadEnds(r) BY <1>1, <1>3 DEF Serving
<1>4. CASE \E r \in reads : ReadEnds(r) \/ ReadFails(r)
      BY <1>2, <1>4 DEF ReadEnds, ReadFails, OnlyStatus
<1>5. CASE ApiFaults /\ ~\E r \in reads : ReadFails(r)
      BY <1>1, <1>5 DEF ApiFaults, ApiRestarts
<1>6. CASE Pass
  <2>1. now' \in Nat /\ now <= now' BY <1>6, MaxTimeAssumption DEF Pass, Tick
  <2> QED BY <1>2, <1>6, <2>1 DEF Pass
<1>7. CASE OtherAsks BY <1>2, <1>7 DEF OtherAsks, AskStatus, OnlyStatus
<1>8. CASE \E ip \in Ips, recipient \in Recipients : OtherPosts(ip, recipient)
      BY <1>8, PublicApiAssumption DEF OtherPosts, Comes
<1>9. CASE \E f \in Flows : PageAsks(f) \/ StatusLands(f)
      BY <1>2, <1>9 DEF PageAsks, StatusLands, AskStatus, OnlyStatus
<1>10. CASE \E f \in Flows : DepositBegins(f)
       BY <1>10, WebPageAssumption DEF DepositBegins, Flows, Comes
<1>11. CASE WalletAlone \/ \E f \in Flows : PageAlone(f)
  <2>1. UNCHANGED intentVars /\ now' = now BY <1>11, PageLeavesServer
  <2> QED BY <1>2, <2>1
<1>12. CASE Reload BY <1>2, <1>12 DEF Reload
<1>13. CASE UNCHANGED vars BY <1>2, <1>13 DEF vars, apiVars
<1> QED BY <1>3, <1>4, <1>5, <1>6, <1>7, <1>8, <1>9, <1>10, <1>11, <1>12, <1>13, NextByPart
        DEF ApiFaults

\* A request that comes is new to the keys it asks, and to no others.
LEMMA ComesStep ==
  ASSUME ApiTypeOK, Requests, LimiterInv, Comes, now' = now
  PROVE  LimiterInv'
<1>1. PICK client \in Callers, ip \in Ips, recipient \in Recipients :
        PostDeposit(client, ip, recipient)
      BY DEF Comes
<1> DEFINE n == Len(posts) + 1 asked == Asked(ip, recipient)
           refusedBy == Refuser(ip, recipient)
<1>2. /\ posts' \in Seq(Post) /\ Len(posts') = n /\ life' = life
      /\ \A i \in DOMAIN posts : posts'[i] = posts[i]
      BY <1>1, PostAppends
<1>3. posts'[n].keys = asked /\ posts'[n].at = now /\ posts'[n].refusedBy = refusedBy
  <2>1. posts' = Append(posts,
          [client |-> client, at |-> now, keys |-> asked, refusedBy |-> refusedBy,
           tx |-> "none",
           stage |-> IF Allowed(ip, recipient) THEN "funding" ELSE "failed"])
        BY <1>1 DEF PostDeposit
  <2>2. posts \in Seq(Post) BY DEF Requests
  <2>3. posts'[n] =
          [client |-> client, at |-> now, keys |-> asked, refusedBy |-> refusedBy,
           tx |-> "none",
           stage |-> IF Allowed(ip, recipient) THEN "funding" ELSE "failed"]
        BY <2>1, <2>2
  <2> QED BY <2>3
<1>4. /\ posts \in Seq(Post) /\ life \in Nat /\ life <= Len(posts) /\ Len(posts) \in Nat
      /\ DOMAIN posts = 1 .. Len(posts) /\ buckets \in [Keys -> Bucket] /\ now \in Nat
      BY LenProperties, MaxTimeAssumption DEF Requests, ApiTypeOK
<1>5. asked \subseteq Keys BY AskedAreKeys
<1>6. refusedBy = NoKey => \A k \in asked : HasRoom(k)
  <2>1. CASE Allowed(ip, recipient) BY <2>1 DEF Allowed
  <2>2. CASE ~Allowed(ip, recipient)
    <3>1. PICK k \in asked : ~HasRoom(k) BY <2>2 DEF Allowed
    <3>2. (CHOOSE j \in asked : ~HasRoom(j)) \in asked BY <3>1
    <3> QED BY <1>5, <2>2, <3>2, NoKeyAssumption DEF Refuser
  <2> QED BY <2>1, <2>2
<1>7. \A k \in Keys : refusedBy = k => ~HasRoom(k)
  <2>1. CASE Allowed(ip, recipient) BY <2>1, NoKeyAssumption DEF Refuser
  <2>2. CASE ~Allowed(ip, recipient)
    <3>1. PICK k \in asked : ~HasRoom(k) BY <2>2 DEF Allowed
    <3>2. ~HasRoom(CHOOSE j \in asked : ~HasRoom(j)) BY <3>1
    <3> QED BY <2>2, <3>2 DEF Refuser
  <2> QED BY <2>1, <2>2
<1>8. buckets' = [k \in Keys |-> IF k \in asked /\ Limit[KindOf(k)] > 0
                                 THEN Counted(k) ELSE buckets[k]]
      BY <1>1 DEF PostDeposit, Count
<1> HIDE DEF asked, refusedBy
<1>9. SUFFICES ASSUME NEW k \in Keys PROVE KeyMetered(k)'
      BY DEF LimiterInv
<1>10. KeyMetered(k) /\ buckets[k] \in Bucket BY <1>4 DEF LimiterInv
<1>11. CASE k \notin asked
  <2>1. PostsOf(k)' = PostsOf(k) BY <1>2, <1>3, <1>4, <1>11 DEF PostsOf
  <2>2. \A i \in PostsOf(k) : SamePost(posts'[i], posts[i])
        BY <1>2, <1>4, PostsOfKey DEF SamePost
  <2>3. buckets'[k] = buckets[k] BY <1>8, <1>11
  <2> QED BY <1>4, <1>10, <2>1, <2>2, <2>3, KeyStays
<1>12. CASE k \in asked
  <2>1. PostsOf(k)' = PostsOf(k) \cup {n} /\ n \notin PostsOf(k)
        BY <1>2, <1>3, <1>4, <1>12 DEF PostsOf
  <2>2. \A i \in PostsOf(k) : i < n /\ SamePost(posts'[i], posts[i])
        BY <1>2, <1>4, PostsOfKey DEF SamePost
  <2>3. NewOf(k, n, refusedBy)
        BY <1>3, <1>4, <1>6, <1>7, <1>12, <2>1, <2>2 DEF NewOf
  <2>4. Limit[KindOf(k)] > 0 => buckets'[k] = Counted(k) BY <1>8, <1>12
  <2> QED BY <1>2, <1>4, <1>10, <2>3, <2>4, KeyCounts
<1> QED BY <1>11, <1>12

\* Every step keeps the keys metered.
LEMMA LimiterStep ==
  ASSUME ApiTypeOK, Requests, LimiterInv, [Next]_vars
  PROVE  LimiterInv'
<1>1. /\ posts \in Seq(Post) /\ life \in Nat /\ life <= Len(posts) /\ Len(posts) \in Nat
      /\ DOMAIN posts = 1 .. Len(posts) /\ buckets \in [Keys -> Bucket] /\ now \in Nat
      BY LenProperties, MaxTimeAssumption DEF Requests, ApiTypeOK
<1>2. CASE LimiterStay /\ now' \in Nat /\ now <= now'
  <2> SUFFICES ASSUME NEW k \in Keys PROVE KeyMetered(k)'
      BY DEF LimiterInv
  <2>1. KeyMetered(k) /\ buckets[k] \in Bucket BY <1>1 DEF LimiterInv
  <2>2. Len(posts') = Len(posts) /\ life' = life /\ buckets' = buckets
        BY <1>2 DEF LimiterStay, InPlace
  <2>3. \A i \in DOMAIN posts : SamePost(posts'[i], posts[i])
        BY <1>2 DEF LimiterStay, InPlace
  <2>4. PostsOf(k)' = PostsOf(k) BY <1>1, <2>2, <2>3 DEF PostsOf, SamePost
  <2>5. \A i \in PostsOf(k) : SamePost(posts'[i], posts[i]) BY <1>1, <2>3, PostsOfKey
  <2>6. now' \in Nat /\ now <= now' BY <1>1, <1>2
  <2> QED BY <1>1, <2>1, <2>2, <2>4, <2>5, <2>6, KeyStays
<1>3. CASE ApiRestarts /\ now' = now
  <2>1. Requests' /\ life' = Len(posts) /\ buckets' = [k \in Keys |-> NoBucket]
        BY <1>3, ApiRestartsStep DEF RequestsGrow, ApiRestarts
  <2>2. Len(posts') = Len(posts)
    <3>1. DOMAIN posts' = DOMAIN posts BY <1>3 DEF ApiRestarts
    <3>2. DOMAIN posts' = 1 .. Len(posts') /\ Len(posts') \in Nat
          BY <2>1, LenProperties DEF Requests
    <3> QED BY <1>1, <3>1, <3>2
  <2>3. \A k \in Keys : PostsOf(k)' = {} /\ buckets'[k] = NoBucket
        BY <1>1, <2>1, <2>2 DEF PostsOf
  <2>4. (\A k \in Keys : now \in Nat /\ PostsOf(k) = {} /\ buckets[k] = NoBucket
           => KeyMetered(k))'
        BY NothingMetered, PTL
  <2> QED BY <1>1, <1>3, <2>3, <2>4 DEF LimiterInv
<1>4. CASE Comes /\ now' = now BY <1>4, ComesStep
<1> QED BY <1>1, <1>2, <1>3, <1>4, LimiterMoves

-----------------------------------------------------------------------------
(* The invariant and what follows from it.                                  *)

\* The site's types are those of its requests, its status, its budget and its page.
LEMMA SiteTypeParts ==
  /\ SiteTypeOK /\ RowsAnswered => Requests /\ StatusTypeOK
  /\ Requests /\ StatusTypeOK /\ budget \in [Moves -> Nat] /\ PageTypeOK => SiteTypeOK
BY DEF SiteTypeOK, ApiTypeOK, Requests, StatusTypeOK

\* The site starts in the invariant.
LEMMA SiteStarts ==
  ASSUME Init
  PROVE  SiteInv
<1>1. /\ now = 0 /\ buckets = [k \in Keys |-> NoBucket] /\ posts = << >> /\ life = 0
      /\ rows = {} /\ cache = NoCache /\ reads = {} /\ told = [c \in Callers |-> {}]
      /\ served = [since |-> 0, doneAt |-> 0, at |-> 0]
      /\ budget \in Budgets /\ funds = budget.intent
      BY DEF Init, ApiInit
<1>2. budget \in [Moves -> Nat] BY <1>1, BudgetsAssumption
<1>3. RowsAnswered BY <1>1 DEF RowsAnswered
<1>4. Requests
  <2>1. posts \in Seq(Post) /\ Len(posts) = 0 BY <1>1
  <2>2. buckets \in [Keys -> Bucket] BY <1>1 DEF NoBucket, Bucket
  <2>3. funds \in Nat BY <1>1, <1>2 DEF Moves
  <2> QED BY <1>1, <1>3, <2>1, <2>2, <2>3 DEF Requests
<1>5. StatusTypeOK BY <1>1, MaxTimeAssumption DEF StatusTypeOK, NoCache
<1>6. /\ flow = [f \in Flows |-> NoFlow] /\ shown = NotTold /\ ticket = NoTicket
      /\ busy = FALSE /\ walletBusy = FALSE
      /\ account = NoAccount /\ balance = 0 /\ allowance = 0
      /\ token = [a \in Accounts |-> [balance |-> Balance, allowance |-> 0]]
      /\ txs = << >> /\ sepolia \in BOOLEAN
      BY DEF Init, PageInit
<1>7. \A f \in Flows : flow[f] = NoFlow BY <1>6
<1>8. PageTypeOK
  <2>1. flow \in [Flows -> Flow] BY <1>6, NoFlowIsFlow
  <2>2. token \in [Accounts -> [balance : Nat, allowance : Nat]] BY <1>6, WebPageAssumption
  <2>3. txs \in Seq(Tx) BY <1>6
  <2> QED BY <1>6, <2>1, <2>2, <2>3 DEF PageTypeOK, NoTicket
<1>9. TicketStored BY <1>6, <1>7, NoFlowIsFlow DEF TicketStored, At
<1>10. ReadsAlone BY <1>1 DEF ReadsAlone
<1>11. CacheFresh BY <1>1 DEF CacheFresh, NoCache
<1>12. FlowsPlain BY <1>7, NoFlowIsFlow DEF FlowsPlain, BehindChain
<1>13. AloneIsAlone /\ AloneIsCovered BY <1>7, NoFlowIsFlow DEF AloneIsAlone, AloneIsCovered
<1>14. BurnIsNext /\ BurnsCovered BY <1>6 DEF BurnIsNext, BurnsCovered
<1>15. LimiterInv
  <2>1. \A k \in Keys : PostsOf(k) = {} /\ buckets[k] = NoBucket BY <1>1 DEF PostsOf
  <2> QED BY <1>1, <2>1, NothingMetered DEF LimiterInv
<1> QED BY <1>2, <1>3, <1>4, <1>5, <1>8, <1>9, <1>10, <1>11, <1>12, <1>13, <1>14, <1>15,
           SiteTypeParts DEF SiteInv

\* Every step keeps the invariant, and answers with nothing older.
LEMMA SiteStep ==
  ASSUME SiteInv, [Next]_vars
  PROVE  SiteInv' /\ Answers
<1>1. /\ ApiTypeOK /\ PageTypeOK /\ Requests /\ StatusTypeOK /\ Statuses /\ WalletInv
      /\ TicketStored /\ FlowsPlain /\ LimiterInv
      BY SiteTypeParts DEF SiteInv, SiteTypeOK, Statuses, WalletInv
<1>2. Answers BY <1>1, StatusStep
<1>3. RequestsGrow BY <1>1, RequestsStep
<1>4. PageTypeOK' BY <1>1, PageTypesStep
<1>5. WalletInv' BY <1>1, WalletStep
<1>6. TicketStored' BY <1>1, TicketStep
<1>7. budget' \in [Moves -> Nat]
  <2>1. budget \in [Moves -> Nat] BY <1>1 DEF ApiTypeOK
  <2>2. CASE Next BY <2>1, <2>2, EveryStepSpends, BudgetIsSpent
  <2>3. CASE UNCHANGED vars BY <2>1, <2>3 DEF vars, apiVars
  <2> QED BY <2>2, <2>3
<1>8. LimiterInv' BY <1>1, LimiterStep
<1>9. SiteTypeOK'
  <2>1. ApiTypeOK' BY <1>2, <1>3, <1>7 DEF ApiTypeOK, RequestsGrow, Requests, Answers, StatusTypeOK
  <2> QED BY <1>4, <2>1 DEF SiteTypeOK
<1> QED BY <1>2, <1>3, <1>5, <1>6, <1>8, <1>9
        DEF SiteInv, WalletInv, Answers, Statuses, RequestsGrow, Requests

\* The invariant holds throughout.
LEMMA SiteInvHolds == Spec => []SiteInv
<1>1. Init => SiteInv BY SiteStarts
<1>2. SiteInv /\ [Next]_vars => SiteInv' BY SiteStep
<1> QED BY <1>1, <1>2, PTL DEF Spec

\* SiteTypes: every variable of the server, the page, the wallet and the token
\* keeps the values its code gives it (deposit handler, status cache, app.js).
THEOREM SiteTypes == Spec => []SiteTypeOK
<1>1. SiteInv => SiteTypeOK BY DEF SiteInv
<1> QED BY SiteInvHolds, <1>1, PTL

\* TicketsAreTracked: the deposit the page remembers, and every deposit the API
\* lists, has its row and its intent on chain, whichever requests fail and
\* whenever the process restarts (POST /deposits, createDeposit).
THEOREM TicketsAreTracked == Spec => []TicketIsTracked
<1>1. SiteInv => TicketIsTracked BY DEF SiteInv, TicketIsTracked, TicketStored, RowsAnswered
<1> QED BY SiteInvHolds, <1>1, PTL

\* BurnsAreCovered: a redeem that has the wallet to itself finds its allowance when
\* its burn is executed (createRedeem reads the allowance before it asks for the
\* burn).
THEOREM BurnsAreCovered == Spec => []BurnsCovered
<1>1. SiteInv => BurnsCovered BY DEF SiteInv
<1> QED BY SiteInvHolds, <1>1, PTL

\* AnswersNeverAge: no status answer is older than one given before, and none is
\* handed out longer than it may be kept (createCachedStatus).
THEOREM AnswersNeverAge == Spec => StatusNeverOlder
<1>1. SiteInv /\ [Next]_vars =>
        [/\ served'.since >= served.since
         /\ served'.at = served'.doneAt \/ served'.at < served'.doneAt + Ttl]_vars
      BY SiteStep DEF Answers
<1> QED BY SiteInvHolds, <1>1, PTL DEF Spec, StatusNeverOlder

\* What is metered key by key is what the limiter promises.
LEMMA LimiterKeepsRates ==
  ASSUME SiteInv
  PROVE  DepositsMetered
<1>1. LimiterInv /\ posts \in Seq(Post) /\ life \in Nat /\ now \in Nat
      BY LenProperties, MaxTimeAssumption DEF SiteInv, SiteTypeOK, ApiTypeOK
<1>2. ASSUME NEW k \in Keys, NEW t \in 0 .. now
      PROVE  Cardinality({i \in PostsOf(k) :
                            /\ posts[i].refusedBy = NoKey
                            /\ posts[i].at \in t .. t + Window[KindOf(k)] - 1})
               <= IF Limit[KindOf(k)] > 0 THEN 2 * Limit[KindOf(k)] ELSE 0
  <2> DEFINE span == {i \in PostsOf(k) :
                        /\ posts[i].refusedBy = NoKey
                        /\ posts[i].at \in t .. t + Window[KindOf(k)] - 1}
  <2>1. Limit[KindOf(k)] \in Int /\ Window[KindOf(k)] \in Nat /\ t \in Int
        BY <1>1, KindsHaveLimits
  <2>2. \A i \in PostsOf(k) : posts[i].at \in Nat BY <1>1, PostsOfKey
  <2>3. span = Admitted(k, t, t + Window[KindOf(k)]) BY <2>1, <2>2 DEF Admitted
  <2>4. KeyMetered(k) BY <1>1 DEF LimiterInv
  <2>5. CASE Limit[KindOf(k)] > 0
    <3>1. Cardinality(span) <= 2 * Limit[KindOf(k)]
          BY <2>1, <2>3, <2>4, <2>5 DEF KeyMetered, Metered
    <3> QED BY <2>5, <3>1
  <2>6. CASE ~(Limit[KindOf(k)] > 0)
    <3>1. Limit[KindOf(k)] <= 0 BY <2>1, <2>6
    <3>2. span = {} BY <2>4, <3>1 DEF KeyMetered
    <3>3. Cardinality(span) = 0 BY <3>2, FS_EmptySet
    <3> QED BY <2>6, <3>3
  <2> QED BY <2>5, <2>6
<1>3. ASSUME NEW k \in Keys, NEW i \in PostsOf(k), posts[i].refusedBy = k
      PROVE  Cardinality({j \in PostsOf(k) :
                            /\ j < i
                            /\ posts[j].at > posts[i].at - Window[KindOf(k)]})
               >= Limit[KindOf(k)]
      BY <1>1, <1>3 DEF LimiterInv, KeyMetered, AskedBefore
<1> QED BY <1>2, <1>3 DEF DepositsMetered

\* DepositsAreMetered: whatever the limits, the windows and the order of the
\* requests, no key lets through more than twice its limit in a span of its window,
\* and none refuses what was not asked that often (FixedWindowCounter.allow,
\* allowDeposit).
THEOREM DepositsAreMetered == Spec => []DepositsMetered
<1>1. SiteInv => DepositsMetered BY LimiterKeepsRates
<1> QED BY SiteInvHolds, <1>1, PTL

=============================================================================
