---------------------------- MODULE MCImportReads ----------------------------
(* Two imports of one provider that share a key; the first has two rejected   *)
(* lines, the second repeats a key and has a blank line.                      *)
EXTENDS ImportReads, TLC

CONSTANTS i1, i2, p1, k1

MCImports == {i1, i2}
MCProviders == {p1}
MCKeys == {k1}
MCProviderOf == (i1 :> p1) @@ (i2 :> p1)
MCFile == (i1 :> <<Bad, k1, Bad>>) @@ (i2 :> <<k1, Blank, k1>>)
MCCurrencyOf == [i \in MCImports |-> [n \in 1 .. 3 |-> "EUR"]]
MCLevelOf == [i \in MCImports |-> [n \in 1 .. 3 |-> IF n = 1 THEN "low" ELSE "high"]]

\* Bounds the counters: batches may be committed again without end.
MaxProcessed == [i \in MCImports |-> IF i = i1 THEN 4 ELSE 3]

\* What is explored further: bounded counters; of the statuses, which neither
\* batches nor reads look at, and of the uploads, one of each kind; and one
\* reader at a time, as readers have no effect on each other.
ReadsBound ==
  /\ \A i \in Imports : /\ row[i].processed <= MaxProcessed[i]
                        /\ row[i].status \in {"none", "pending", "completed"}
                        /\ row[i].status = "completed" => i \in uploaded
                        /\ row[i].status = "pending" => i \notin uploaded
                        /\ ~row[i].cancelRequested
  /\ walk.import = NoImport \/ summary.import = NoImport
==============================================================================
