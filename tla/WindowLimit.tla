---------------------------- MODULE WindowLimit ----------------------------
(***************************************************************************)
(* The fixed-window volume limit both gateways carry.  A window opens when *)
(* the limit is set, and again at the first use after it has run out; what *)
(* was used before then no longer counts.  A zero limit counts nothing.    *)
(***************************************************************************)
EXTENDS Naturals

WindowLimit == [limit : Nat, window : Nat, startedAt : Nat, used : Nat]

ValidLimit(limit, window) == (limit = 0) <=> (window = 0)

NewLimit(limit, window, time) ==
  [limit |-> limit, window |-> window, startedAt |-> time, used |-> 0]

\* Mutant of Rolled: the window ends with every use.
RolledAtOnce(l, time) ==
  IF time >= l.startedAt THEN [l EXCEPT !.startedAt = time, !.used = 0] ELSE l

Rolled(l, time) ==
  IF time >= l.startedAt /\ time - l.startedAt >= l.window
  THEN [l EXCEPT !.startedAt = time, !.used = 0]
  ELSE l

Admits(l, time, sats) ==
  l.limit = 0 \/ Rolled(l, time).used + sats <= l.limit

AfterUse(l, time, sats) ==
  IF l.limit = 0 THEN l
  ELSE [Rolled(l, time) EXCEPT !.used = @ + sats]

=============================================================================
