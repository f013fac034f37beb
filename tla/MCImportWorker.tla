--------------------------- MODULE MCImportWorker ----------------------------
(* Two imports of one provider, on two worker processes of one slot each.     *)
(* The first needs two batches, repeats a key and has a bad line; the second  *)
(* fills its only batch exactly, and competes for the key.                    *)
EXTENDS ImportWorker, TLC

CONSTANTS i1, i2, p1, p2, k1, w1, w2, h1, h2

MCImports == {i1, i2}
MCProviders == {p1, p2}
MCKeys == {k1}
MCProviderOf == [i \in MCImports |-> p1]
MCFile == (i1 :> <<k1, Bad, k1>>) @@ (i2 :> <<Blank, k1>>)
MCSlots == {w1, w2}
MCHosts == {h1, h2}
MCHostOf == (w1 :> h1) @@ (w2 :> h2)
==============================================================================
