SPECIFICATION Spec
CONSTANTS
  i1 = i1
  i2 = i2
  p1 = p1
  p2 = p2
  k1 = k1
  w1 = w1
  w2 = w2
  h1 = h1
  h2 = h2
  Imports <- MCImports
  Providers <- MCProviders
  Keys <- MCKeys
  ProviderOf <- MCProviderOf
  File <- MCFile
  Slots <- MCSlots
  Hosts <- MCHosts
  HostOf <- MCHostOf
  BatchSize = 2
  MaxStalled = 1
  MaxAttempts = 2
  Cancellable = {}
  MaxFaults = 0
  MaxCrashes = 1
  MaxLockLosses = 0
  MaxShutdowns = 1
CHECK_DEADLOCK FALSE
INVARIANTS
  ProgressIsExact
