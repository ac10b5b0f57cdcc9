------------------------------- MODULE MCSite -------------------------------
(***************************************************************************)
(* Instances of Site: what users, the network and the processes may do is  *)
(* spread over behaviours, each about one part of the site.                *)
(***************************************************************************)
EXTENDS Site

CONSTANTS ip1, ip2, payee1, payee2, alice, bob

MCLimit == [global |-> 3, ip |-> 2, recipient |-> 1]
MCWindow == [global |-> 2, ip |-> 2, recipient |-> 3]

Nothing == [move \in Moves |-> 0]

MCBudgets ==
  {[Nothing EXCEPT !.post = 4, !.tick = 3],
   [Nothing EXCEPT !.intent = 2, !.deposit = 2, !.refresh = 1, !.fault = 2],
   [Nothing EXCEPT !.intent = 1, !.post = 1, !.deposit = 1, !.fault = 1],
   [Nothing EXCEPT !.read = 3, !.refresh = 2, !.tick = 2, !.fault = 1],
   [Nothing EXCEPT !.intent = 1, !.deposit = 1, !.connect = 1, !.refresh = 1, !.redeem = 1],
   [Nothing EXCEPT !.connect = 1, !.refresh = 1, !.redeem = 2, !.fault = 1],
   [Nothing EXCEPT !.connect = 1, !.refresh = 1, !.redeem = 1, !.approve = 1, !.switch = 1]}
=============================================================================
