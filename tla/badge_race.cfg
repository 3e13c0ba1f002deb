SPECIFICATION Spec
CONSTANTS
  u1 = u1
  u2 = u2
  c1 = c1
  c2 = c2
  l1 = l1
  l2 = l2
  b1 = b1
  s1 = s1
  s2 = s2
  NoSession = NoSession
  NoRequest = NoRequest
  NoBadge = NoBadge
  User <- MCUser
  Wallet <- MCWallet
  Owner <- MCOwner
  CashOf <- MCCashOf
  Pct <- MCPct
  Incentive <- MCIncentive
  Opening <- MCOpening
  Maximum <- MCMaximum
  Badge = {b1}
  BadgeOf <- MCBadgeOf
  Bronze = 50000
  Silver = 100000
  Gold = 200000
  Session = {s1, s2}
  Requests <- MixedRequests
  MaxRequests = 3
  MaxFaults = 0
  MaxTime = 0
INVARIANTS
  NoDuplicateBadge
