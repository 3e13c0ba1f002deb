SPECIFICATION FairSpec
CONSTANTS
  ann = ann
  bob = bob
  k1 = k1
  k2 = k2
  k3 = k3
  s1 = s1
  s2 = s2
  NoRequest = NoRequest
  NoCurrency = NoCurrency
  Session = {s1, s2}
  Username = {ann, bob}
  Currency = {k1, k2, k3}
  OpeningMember <- MCMember
  OpeningWallet <- MCWallet
  Requests <- MCRequests
  MaxRequests = 3
  MaxFaults = 1
INVARIANTS
  TypeOK
  DistinctOrders
  OneWalletPerCurrency
  UniqueUsernames
PROPERTIES
  MoneyNeverDeleted
  JoinIsWhole
  NumberedAfterDelete
  EveryRequestAnswered
