SPECIFICATION Spec
CONSTANTS
  r1 = r1
  r2 = r2
  r3 = r3
  p1 = p1
  k1 = k1
  Imports <- MCImports
  Providers <- MCProviders
  Keys <- MCKeys
  ProviderOf <- MCProviderOf
  File <- MCFile
  KeyOf <- MCKeyOf
  MaxFaults = 0
CHECK_DEADLOCK FALSE
INVARIANTS
  CutFilesAreNotImported
