--------------------------- MODULE EffectivelyOnce ---------------------------
(* What the worker promises for a file: it is read once, front to back, in    *)
(* batches.  Each key of a provider belongs to the first line that claimed    *)
(* it, for good, and an import's tally is that of the lines read so far, each *)
(* counted once.  Workers, jobs, retries and restarts have no place here.     *)
EXTENDS Naturals, Sequences, FiniteSets

CONSTANTS Imports, Keys, Providers, ProviderOf, File, BatchSize

VARIABLES done,    \* done[i]: how many lines of i have been read
          owner,   \* owner[<<p, k>>]: the <<import, line>> that claimed k first
          tally    \* tally[i]: what has been reported of i

Nobody == <<"nobody", 0>>

\* The lines of i up to n that are not blank, and those that are rejected.
Records(i, n) == {m \in 1 .. n : File[i][m] # "blank"}
Refused(i, n) == {m \in 1 .. n : File[i][m] = "bad"}

\* The lines of i after d, up to n, that carry k.
Claims(i, d, n, k) == {m \in d + 1 .. n : File[i][m] = k}

Init == /\ done = [i \in Imports |-> 0]
        /\ owner = [pk \in Providers \X Keys |-> Nobody]
        /\ tally = [i \in Imports |-> [processed |-> 0, accepted |-> 0, rejected |-> 0]]

Advance(i) ==
  \E n \in done[i] + 1 .. Len(File[i]) :
    /\ n <= done[i] + BatchSize
    /\ done' = [done EXCEPT ![i] = n]
    /\ owner' = [pk \in Providers \X Keys |->
         LET claims == Claims(i, done[i], n, pk[2])
         IN IF owner[pk] = Nobody /\ pk[1] = ProviderOf[i] /\ claims # {}
            THEN <<i, CHOOSE m \in claims : \A l \in claims : m <= l>>
            ELSE owner[pk]]
    /\ tally' = [tally EXCEPT ![i] =
         [processed |-> Cardinality(Records(i, n)),
          rejected  |-> Cardinality(Refused(i, n)),
          accepted  |-> Cardinality({pk \in Providers \X Keys : owner'[pk][1] = i})]]

Spec == Init /\ [][\E i \in Imports : Advance(i)]_<<done, owner, tally>>
==============================================================================
