----------------------------- MODULE CostLimiter -----------------------------
(***************************************************************************)
(* The limiter in front of POST /deposits                                  *)
(* (scripts/lib/public-testnet-cost-limiter.js): fixed windows, one bucket *)
(* for everybody, one for each address and one for each recipient.         *)
(***************************************************************************)
EXTENDS Integers, Sequences, BlockTime

CONSTANTS Ips, Recipients,
          Limit, Window    \* by kind of bucket: how many, and for how long

Kinds == {"global", "ip", "recipient"}

Keys == {"global"} \cup Ips \cup Recipients

KindOf(k) == CASE k \in Ips -> "ip" [] k \in Recipients -> "recipient" [] OTHER -> "global"

ASSUME CostLimiterAssumption ==
  /\ Ips \cap Recipients = {} /\ "global" \notin Ips \cup Recipients
  /\ Limit \in [Kinds -> Int]
  /\ Window \in [Kinds -> Nat \ {0}]

VARIABLE buckets           \* [Keys -> Bucket], lost with the process

Bucket == [count : Nat, resetAt : Nat]

NoBucket == [count |-> 0, resetAt |-> 0]

\* FixedWindowCounter.allow: a window opens with the first request after the
\* last one, and what is refused is counted as well.
Counted(k) ==
  IF now >= buckets[k].resetAt
  THEN [count |-> 1, resetAt |-> now + Window[KindOf(k)]]
  ELSE [buckets[k] EXCEPT !.count = @ + 1]

\* Mutant of HasRoom: the request itself is not counted before it is compared.
HasRoomBefore(k) ==
  Limit[KindOf(k)] > 0 /\ Counted(k).count <= Limit[KindOf(k)] + 1

HasRoom(k) == Limit[KindOf(k)] > 0 /\ Counted(k).count <= Limit[KindOf(k)]

\* allowDeposit asks the counters in this order until one refuses; those asked
\* before it have counted the request, those after it know nothing of it.
Order(ip, recipient) == <<"global", ip, recipient>>

Asked(ip, recipient) ==
  {Order(ip, recipient)[n] : n \in {m \in 1 .. 3 :
     \A earlier \in 1 .. m - 1 : HasRoom(Order(ip, recipient)[earlier])}}

Allowed(ip, recipient) == \A k \in Asked(ip, recipient) : HasRoom(k)

Count(ip, recipient) ==
  buckets' = [k \in Keys |-> IF k \in Asked(ip, recipient) /\ Limit[KindOf(k)] > 0
                             THEN Counted(k) ELSE buckets[k]]

=============================================================================
