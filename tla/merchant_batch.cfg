SPECIFICATION Spec
CONSTANTS
  k0 = k0
  k1 = k1
  k2 = k2
  k3 = k3
  ma = ma
  mb = mb
  mc = mc
  w1 = w1
  w2 = w2
  Nameless = Nameless
  NoSnapshot = NoSnapshot
  Currencies <- MCCurrencies
  Merchant = {ma, mb, mc}
  Listing <- MCListing
  NumOfRows = 3
  PartitionSize = 3
  ChunkSize = 3
  Worker = {w1, w2}
  CorePoolSize = 1
  MaxPoolSize = 2
  QueueCapacity = 2147483647
  MaxNights = 2
  MaxCrashes = 1
INVARIANTS
  TypeOK
  StoredByOneChunk
  CompletedJobStoresAll
