-------------------------- MODULE MCImportCreation ---------------------------
(* Two requests with the same idempotency key, and one with another key.      *)
EXTENDS ImportCreation, TLC

CONSTANTS r1, r2, r3, p1, k1

MCImports == {r1, r2, r3}
MCProviders == {p1}
MCKeys == {k1}
MCProviderOf == [r \in MCImports |-> p1]
MCFile == [r \in MCImports |-> <<k1>>]
MCKeyOf == (r1 :> "a") @@ (r2 :> "a") @@ (r3 :> "b")
==============================================================================
