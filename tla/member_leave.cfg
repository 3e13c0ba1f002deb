SPECIFICATION Spec
CONSTANTS
  ann = ann
  bob = bob
  k1 = k1
  k2 = k2
  k3 = k3
  s1 = s1
  s2 = s2
  NoRequest = NoRequest
  NoCurrency = NoCurrency
  Session = {s1}
  Username = {ann, bob}
  Currency = {k1, k2, k3}
  OpeningMember <- MCMember
  OpeningWallet <- MCWallet
  Requests <- LeaveRequests
  MaxRequests = 2
  MaxFaults = 0
PROPERTIES
  MembersCanLeave
