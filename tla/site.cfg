CONSTANTS
  ip1 = ip1
  ip2 = ip2
  payee1 = payee1
  payee2 = payee2
  alice = alice
  bob = bob
  NoAccount = NoAccount
  Ips = {ip1, ip2}
  Recipients = {payee1, payee2}
  PageIp = ip1
  PageRecipient = payee1
  Limit <- MCLimit
  Window <- MCWindow
  Callers = {0, 1, 2, 3}
  Budgets <- MCBudgets
  MinFunds = 1
  Ttl = 1
  Accounts = {alice, bob}
  Amounts = {1}
  Balance = 2
  MaxTime = 4
SPECIFICATION FairSpec
INVARIANTS TicketIsTracked DepositsMetered BurnsCovered
PROPERTIES StatusNeverOlder PageReturns
CHECK_DEADLOCK FALSE
