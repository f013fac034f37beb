SPECIFICATION ApiFairSpec
CONSTANTS
  r1 = r1
  r2 = r2
  c1 = c1
  c2 = c2
  s1 = s1
  p1 = p1
  k1 = k1
  Imports <- MCImports
  Providers <- MCProviders
  Keys <- MCKeys
  ProviderOf <- MCProviderOf
  File <- MCFile
  KeyOf <- MCKeyOf
  Clients <- MCClients
  EmailOf <- MCEmailOf
  Sockets = {s1}
  MaxFaults = 1
  MaxCrashes = 1
  MaxShutdowns = 1
CONSTRAINT OneKind
CHECK_DEADLOCK FALSE
INVARIANTS
  ApiTypeOK
  OneImportPerKey
  JobsHaveTheirFile
  FilesAreAccountedFor
  OwnImportIsQueued
  NoSilentLoss
  RegisteredIsMine
  RefusalsHaveACause
PROPERTIES
  AnsweredOnce
  ImplementsPromise
  EveryClientIsAnswered
  ShutdownEnds
