-------------------------- MODULE ImportStoreProofs --------------------------
(* The invariants of the import store, for every set of imports and files and *)
(* every caller.  The inductive invariant is StoreInv: the counters follow    *)
(* the tables because a row that is inserted has a key no stored row has.     *)
EXTENDS ImportStore, FiniteSetTheorems, WellFoundedInduction, TLAPS

StoreInv == /\ StoreTypeOK
            /\ CountsBalance
            /\ AcceptedMatchesRows
            /\ UniqueTransactions
            /\ RowsComeFromTheirLines

\* A set of numbers has a least one.
LEMMA Smallest ==
  ASSUME NEW S \in SUBSET Nat, S # {}
  PROVE  \E n \in S : \A m \in S : n <= m
<1> DEFINE R == OpToRel(<, Nat)
<1>1. IsWellFoundedOn(R, Nat)
  BY NatLessThanWellFounded
<1> HIDE DEF R
<1>2. PICK n \in S : \A m \in S : <<m, n>> \notin R
  BY <1>1, WFMin
<1> USE DEF R
<1>3. \A m \in S : ~ (m < n)
  BY <1>2 DEF OpToRel
<1> QED
  BY <1>3

\* Among sets taken from the subsets of a finite set there is one that no
\* element can be removed from: induction over the subsets.
LEMMA SmallestSubset ==
  ASSUME NEW D, IsFiniteSet(D), NEW Q \in SUBSET (SUBSET D), Q # {}
  PROVE  \E S \in Q : \A e \in S : S \ {e} \notin Q
<1> DEFINE sizes == {Cardinality(S) : S \in Q}
<1>1. \A S \in SUBSET D : IsFiniteSet(S) /\ Cardinality(S) \in Nat
  BY FS_Subset, FS_CardinalityType
<1>2. PICK n \in sizes : \A m \in sizes : n <= m
  <2>1. sizes \in SUBSET Nat /\ sizes # {}
    BY <1>1
  <2> HIDE DEF sizes
  <2> QED
    BY <2>1, Smallest
<1>3. PICK S \in Q : n = Cardinality(S)
  BY <1>2
<1>4. ASSUME NEW e \in S, S \ {e} \in Q PROVE FALSE
  <2>1. Cardinality(S \ {e}) = n - 1 /\ n \in Nat
    BY <1>1, <1>3, FS_RemoveElement
  <2>2. n <= Cardinality(S \ {e})
    BY <1>2, <1>4
  <2> QED
    BY <2>1, <2>2
<1> QED
  BY <1>4

------------------------------------------------------------------------------
\* How many elements a bag has.

\* The copies that a bag holds of the elements of S.
Copies(b, S) == {p \in S \X Nat : p[2] \in 1 .. b[p[1]]}

LEMMA OneMoreElement ==
  ASSUME NEW b, IsABag(b), NEW S \in SUBSET DOMAIN b, NEW e \in S,
         IsFiniteSet(Copies(b, S \ {e}))
  PROVE  /\ IsFiniteSet(Copies(b, S))
         /\ Cardinality(Copies(b, S)) = b[e] + Cardinality(Copies(b, S \ {e}))
<1>1. b[e] \in Nat
  BY DEF IsABag
<1> DEFINE own == {p \in {e} \X Nat : p[2] \in 1 .. b[e]}
<1>2. IsFiniteSet(own) /\ Cardinality(own) = b[e]
  <2> DEFINE f == [k \in 1 .. b[e] |-> <<e, k>>]
  <2>1. f \in [1 .. b[e] -> own] /\ \A p \in own : f[p[2]] = p /\ p[2] \in 1 .. b[e]
    BY <1>1
  <2>2. \A k \in 1 .. b[e] : f[k][2] = k
    OBVIOUS
  <2>3. IsFiniteSet(1 .. b[e]) /\ Cardinality(1 .. b[e]) = b[e]
    BY <1>1, FS_Interval
  <2> HIDE DEF f, own
  <2>4. f \in Bijection(1 .. b[e], own)
    BY <2>1, <2>2 DEF Bijection, Injection, IsInjective, Surjection
  <2> QED
    BY <2>3, <2>4, FS_Bijection DEF ExistsBijection
<1>3. Copies(b, S) = own \cup Copies(b, S \ {e}) /\ own \cap Copies(b, S \ {e}) = {}
  BY DEF Copies
<1> HIDE DEF own
<1>4. Cardinality(Copies(b, S \ {e})) \in Nat
  BY FS_CardinalityType
<1> QED
  <2> DEFINE others == Copies(b, S \ {e})
  <2>1. /\ IsFiniteSet(own \cup others)
        /\ Cardinality(own \cup others)
             = Cardinality(own) + Cardinality(others) - Cardinality(own \cap others)
    BY <1>2, FS_Union
  <2>2. Cardinality(own \cap others) = 0
    BY <1>3, FS_EmptySet
  <2> HIDE DEF others
  <2>3. Cardinality(own \cup others) = b[e] + Cardinality(others)
    BY <1>1, <1>2, <1>4, <2>1, <2>2 DEF others
  <2> QED
    BY <1>3, <2>1, <2>3 DEF others

LEMMA CopiesAreFinite ==
  ASSUME NEW b, IsABag(b), IsFiniteSet(DOMAIN b)
  PROVE  \A S \in SUBSET DOMAIN b : IsFiniteSet(Copies(b, S))
<1> DEFINE Q == {S \in SUBSET DOMAIN b : ~IsFiniteSet(Copies(b, S))}
<1>1. ASSUME Q # {} PROVE FALSE
  <2>0. Q \in SUBSET (SUBSET DOMAIN b)
    OBVIOUS
  <2> HIDE DEF Q
  <2>1. PICK S \in Q : \A e \in S : S \ {e} \notin Q
    BY <1>1, <2>0, SmallestSubset
  <2> USE DEF Q
  <2>2. CASE S = {}
    <3>1. Copies(b, S) = {}
      BY <2>2 DEF Copies
    <3> QED
      BY <3>1, FS_EmptySet
  <2>3. CASE S # {}
    <3>1. PICK e \in S : TRUE
      BY <2>3
    <3>2. IsFiniteSet(Copies(b, S \ {e}))
      BY <2>1
    <3> QED
      BY <3>2, OneMoreElement
  <2> QED
    BY <2>2, <2>3
<1> QED
  BY <1>1

\* The function that BagCardinality is defined with.
Adds(sum, b) ==
  sum = [S \in SUBSET DOMAIN b |-> LET elt == CHOOSE e \in S : TRUE
                                   IN  IF S = {} THEN 0 ELSE b[elt] + sum[S \ {elt}]]

LEMMA BagIsItsCopies ==
  ASSUME NEW b, IsABag(b), IsFiniteSet(DOMAIN b)
  PROVE  BagCardinality(b) = Cardinality(Copies(b, DOMAIN b))
<1> DEFINE size == [S \in SUBSET DOMAIN b |-> Cardinality(Copies(b, S))]
           Q(sum) == {S \in SUBSET DOMAIN b : sum[S] # size[S]}
<1>1. size[{}] = 0
  <2>1. Copies(b, {}) = {}
    BY DEF Copies
  <2> QED
    BY <2>1, FS_EmptySet
<1>2. \A S \in SUBSET DOMAIN b : \A e \in S : size[S] = b[e] + size[S \ {e}]
  BY CopiesAreFinite, OneMoreElement, ZenonT(60)
<1> HIDE DEF size
<1>3. Adds(size, b)
  <2>1. \A S \in SUBSET DOMAIN b : S # {} => (CHOOSE e \in S : TRUE) \in S
    OBVIOUS
  <2>2. size = [S \in SUBSET DOMAIN b |-> size[S]]
    BY DEF size
  <2> QED
    BY <1>1, <1>2, <2>1, <2>2 DEF Adds
<1>4. PICK sum : Adds(sum, b) /\ BagCardinality(b) = sum[DOMAIN b]
  <2>1. BagCardinality(b) = (CHOOSE sum : Adds(sum, b))[DOMAIN b]
    BY DEF BagCardinality, Adds
  <2> QED
    BY <1>3, <2>1
<1>5. ASSUME Q(sum) # {} PROVE FALSE
  <2>0. Q(sum) \in SUBSET (SUBSET DOMAIN b)
    OBVIOUS
  <2> HIDE DEF Q
  <2>1. PICK S \in Q(sum) : \A e \in S : S \ {e} \notin Q(sum)
    BY <1>5, <2>0, SmallestSubset
  <2> USE DEF Q
  <2>2. S # {}
    BY <1>1, <1>4, <2>1 DEF Adds
  <2>3. PICK e \in S : sum[S] = b[e] + sum[S \ {e}]
    BY <1>4, <2>2 DEF Adds
  <2> QED
    BY <1>2, <2>1, <2>3
<1> QED
  BY <1>4, <1>5 DEF size

LEMMA BagWithASet ==
  ASSUME NEW b, IsABag(b), IsFiniteSet(DOMAIN b), NEW R, IsFiniteSet(R)
  PROVE  BagCardinality(b (+) SetToBag(R)) = BagCardinality(b) + Cardinality(R)
<1> DEFINE c == b (+) SetToBag(R)
           new == {p \in R \X Nat : p[2] = c[p[1]]}
           old == Copies(b, DOMAIN b)
<1>1. /\ DOMAIN c = DOMAIN b \cup R
      /\ \A e \in DOMAIN c : c[e] = (IF e \in DOMAIN b THEN b[e] ELSE 0)
                                      + (IF e \in R THEN 1 ELSE 0)
      /\ c \in [DOMAIN c -> {n \in Nat : n > 0}]
  BY DEF SetToBag, IsABag, (+)
<1> HIDE DEF c
<1>2. IsABag(c) /\ IsFiniteSet(DOMAIN c)
  <2>1. IsABag(c)
    BY <1>1, Zenon DEF IsABag
  <2>2. IsFiniteSet(DOMAIN b \cup R)
    BY FS_Union
  <2> QED
    BY <1>1, <2>1, <2>2
<1>3. \A e \in DOMAIN b : b[e] \in Nat /\ b[e] > 0
  BY DEF IsABag
<1>4. \A e \in R : c[e] \in Nat /\ c[e] > 0
  BY <1>1
<1>5. Copies(c, DOMAIN c) = old \cup new
  <2>1. \A e \in DOMAIN c, k \in Nat :
          k \in 1 .. c[e] <=> \/ e \in DOMAIN b /\ k \in 1 .. b[e]
                              \/ e \in R /\ k = c[e]
    BY <1>1, <1>3
  <2> QED
    BY <1>1, <2>1 DEF Copies
<1>6. old \cap new = {}
  BY <1>1, <1>3 DEF Copies
<1>7. IsFiniteSet(new) /\ Cardinality(new) = Cardinality(R)
  <2> DEFINE f == [e \in R |-> <<e, c[e]>>]
  <2>1. f \in [R -> new] /\ \A p \in new : p[1] \in R /\ f[p[1]] = p
    BY <1>4
  <2>2. \A e \in R : f[e][1] = e
    OBVIOUS
  <2> HIDE DEF f, new
  <2>3. f \in Bijection(R, new)
    BY <2>1, <2>2 DEF Bijection, Injection, IsInjective, Surjection
  <2> QED
    BY <2>3, FS_Bijection DEF ExistsBijection
<1> HIDE DEF new, old
<1>8. IsFiniteSet(old) /\ BagCardinality(b) = Cardinality(old)
  BY CopiesAreFinite, BagIsItsCopies DEF old
<1>9. Cardinality(old \cup new) = Cardinality(old) + Cardinality(new)
  <2>1. Cardinality(old \cup new) = Cardinality(old) + Cardinality(new) - 0
    BY <1>6, <1>7, <1>8, FS_Union, FS_EmptySet
  <2> QED
    BY <1>7, <1>8, <2>1, FS_CardinalityType
<1>10. BagCardinality(c) = Cardinality(old \cup new)
  BY <1>2, <1>5, BagIsItsCopies
<1> QED
  BY <1>7, <1>8, <1>9, <1>10 DEF c

LEMMA NoCopies ==
  ASSUME NEW b, DOMAIN b = {}
  PROVE  BagCardinality(b) = 0
<1>1. Copies(b, DOMAIN b) = {}
  BY DEF Copies
<1>2. IsABag(b)
  BY DEF IsABag
<1> QED
  BY <1>1, <1>2, BagIsItsCopies, FS_EmptySet

------------------------------------------------------------------------------
\* The operations.

\* The sets a batch is split into are finite, and a batch inserts at most the
\* lines that validate.
LEMMA BatchSets ==
  ASSUME NEW i \in Imports, NEW lo \in Nat, NEW hi \in Nat
  PROVE  /\ IsFiniteSet(Valid(i, lo, hi))
         /\ IsFiniteSet(Rejected(i, lo, hi))
         /\ IsFiniteSet(NewLines(i, lo, hi))
         /\ ProcessedIn(i, lo, hi) \in Nat
         /\ Cardinality(Rejected(i, lo, hi)) \in Nat
         /\ AcceptedIn(i, lo, hi) \in Nat
         /\ DuplicatesIn(i, lo, hi) \in Nat
         /\ ProcessedIn(i, lo, hi) = AcceptedIn(i, lo, hi)
              + Cardinality(Rejected(i, lo, hi)) + DuplicatesIn(i, lo, hi)
<1>1. IsFiniteSet(lo + 1 .. hi)
  BY FS_Interval
<1>2. /\ Valid(i, lo, hi) \in SUBSET (lo + 1 .. hi)
      /\ Rejected(i, lo, hi) \in SUBSET (lo + 1 .. hi)
  BY DEF Valid, Rejected
<1>3. IsFiniteSet(Valid(i, lo, hi)) /\ IsFiniteSet(Rejected(i, lo, hi))
  BY <1>1, <1>2, FS_Subset
<1>4. NewLines(i, lo, hi) \in SUBSET Valid(i, lo, hi)
  BY DEF NewLines
<1>5. /\ IsFiniteSet(NewLines(i, lo, hi))
      /\ Cardinality(NewLines(i, lo, hi)) <= Cardinality(Valid(i, lo, hi))
  BY <1>3, <1>4, FS_Subset
<1>6. /\ Cardinality(Valid(i, lo, hi)) \in Nat
      /\ Cardinality(Rejected(i, lo, hi)) \in Nat
      /\ Cardinality(NewLines(i, lo, hi)) \in Nat
  BY <1>3, <1>5, FS_CardinalityType
<1> QED
  BY <1>3, <1>5, <1>6 DEF ProcessedIn, AcceptedIn, DuplicatesIn

\* A key is inserted only where no stored row has it: what a batch adds is
\* disjoint from what the import has already.
LEMMA InsertedAreNew ==
  ASSUME NEW i \in Imports, NEW lo \in Nat, NEW hi \in Nat
  PROVE  NewLines(i, lo, hi) \cap stored[i] = {}
BY DEF NewLines, HasKey, SameKey

LEMMA InitInv == StoreInit => StoreInv
<1> SUFFICES ASSUME StoreInit PROVE StoreInv
  OBVIOUS
<1>1. StoreTypeOK
  BY DEF StoreInit, StoreTypeOK, Row, NewRow, Status, EmptyBag, SetToBag, IsABag
<1>2. CountsBalance
  BY DEF StoreInit, CountsBalance, NewRow
<1>3. AcceptedMatchesRows
  BY FS_EmptySet DEF StoreInit, AcceptedMatchesRows, NewRow
<1>4. UniqueTransactions /\ RowsComeFromTheirLines
  BY DEF StoreInit, UniqueTransactions, RowsComeFromTheirLines, EmptyBag,
         SetToBag, BagToSet
<1> QED
  BY <1>1, <1>2, <1>3, <1>4 DEF StoreInv

\* The invariant says nothing of uploaded but its type.
LEMMA FrameInv ==
  ASSUME StoreInv, uploaded' \in SUBSET Imports, UNCHANGED <<row, stored, rejections>>
  PROVE  StoreInv'
<1> USE DEF StoreInv
<1>1. StoreTypeOK'
  BY DEF StoreTypeOK, Lines
<1>2. CountsBalance' /\ AcceptedMatchesRows'
  BY DEF CountsBalance, AcceptedMatchesRows
<1>3. UniqueTransactions'
  BY DEF UniqueTransactions, SameKey
<1>4. RowsComeFromTheirLines'
  BY DEF RowsComeFromTheirLines, Lines, Exists
<1> QED
  BY <1>1, <1>2, <1>3, <1>4

\* The operations that touch neither a table nor a counter.
LEMMA RowUpdateInv ==
  ASSUME StoreInv, NEW i \in Imports, NEW s \in Status \ {"none"}, NEW c \in BOOLEAN,
         row' = [row EXCEPT ![i].status = s, ![i].cancelRequested = c],
         uploaded' \in SUBSET Imports, UNCHANGED <<stored, rejections>>
  PROVE  StoreInv'
<1> USE DEF StoreInv
<1>1. StoreTypeOK'
  BY DEF StoreTypeOK, Row
<1>2. \A j \in Imports : /\ row'[j].processed = row[j].processed
                         /\ row'[j].accepted = row[j].accepted
                         /\ row'[j].rejected = row[j].rejected
                         /\ row'[j].duplicates = row[j].duplicates
  BY DEF StoreTypeOK, Row
<1>3. CountsBalance'
  BY <1>2 DEF CountsBalance
<1>4. AcceptedMatchesRows'
  BY <1>2 DEF AcceptedMatchesRows
<1>5. UniqueTransactions'
  BY DEF UniqueTransactions, SameKey
<1>6. \A j \in Imports : Exists(j) => Exists(j)'
  BY DEF StoreTypeOK, Row, Exists
<1>7. RowsComeFromTheirLines'
  BY <1>6 DEF RowsComeFromTheirLines, Lines
<1> QED
  BY <1>1, <1>3, <1>4, <1>5, <1>7

LEMMA SetStatusInv ==
  ASSUME StoreInv, NEW i \in Imports, NEW s \in Status \ {"none"}, SetStatus(i, s)
  PROVE  StoreInv'
<1> DEFINE c == row[i].cancelRequested
<1>1. c \in BOOLEAN
  BY DEF StoreInv, StoreTypeOK, Row
<1>2. row' = [row EXCEPT ![i].status = s, ![i].cancelRequested = c]
  BY DEF SetStatus, StoreInv, StoreTypeOK, Row
<1>3. uploaded' \in SUBSET Imports /\ UNCHANGED <<stored, rejections>>
  BY DEF SetStatus, StoreInv, StoreTypeOK
<1> QED
  BY <1>1, <1>2, <1>3, RowUpdateInv

LEMMA CreatePendingImportInv ==
  ASSUME StoreInv, NEW i \in Imports, CreatePendingImport(i)
  PROVE  StoreInv'
<1>1. /\ row' = [row EXCEPT ![i] = NewRow("pending")]
      /\ UNCHANGED <<uploaded, stored, rejections>>
      /\ ~Exists(i)
  BY DEF CreatePendingImport
<1>2. NewRow("pending") \in Row
  BY DEF NewRow, Row, Status
<1>3. /\ row'[i] = NewRow("pending")
      /\ \A j \in Imports \ {i} : row'[j] = row[j]
      /\ row' \in [Imports -> Row]
  BY <1>1, <1>2 DEF StoreInv, StoreTypeOK
<1>4. StoreTypeOK'
  BY <1>1, <1>3 DEF StoreInv, StoreTypeOK, Lines
<1>5. CountsBalance'
  BY <1>3 DEF StoreInv, CountsBalance, NewRow
<1>6. AcceptedMatchesRows'
  <2>1. stored[i] = {}
    BY <1>1 DEF StoreInv, RowsComeFromTheirLines
  <2> QED
    BY <1>1, <1>3, <2>1, FS_EmptySet DEF StoreInv, AcceptedMatchesRows, NewRow
<1>7. UniqueTransactions'
  BY <1>1 DEF StoreInv, UniqueTransactions, SameKey
<1>8. RowsComeFromTheirLines'
  BY <1>1, <1>3 DEF StoreInv, RowsComeFromTheirLines, Lines, Exists, NewRow
<1> QED
  BY <1>4, <1>5, <1>6, <1>7, <1>8 DEF StoreInv

\* What a batch adds to a row keeps it a row.
LEMMA CountersAfterBatch ==
  ASSUME NEW r \in Row, NEW h \in Nat, NEW p \in Nat, NEW a \in Nat, NEW b \in Nat,
         NEW d \in Nat, NEW r2,
         r2 = [status |-> r.status, cancelRequested |-> r.cancelRequested,
               checkpoint |-> h, processed |-> r.processed + p,
               accepted |-> r.accepted + a, rejected |-> r.rejected + b,
               duplicates |-> r.duplicates + d]
  PROVE  r2 \in Row
<1>1. /\ r.status \in Status /\ r.cancelRequested \in BOOLEAN
      /\ r.processed \in Nat /\ r.accepted \in Nat
      /\ r.rejected \in Nat /\ r.duplicates \in Nat
  BY DEF Row
<1> QED
  BY <1>1 DEF Row

\* A batch, from any line to any later line, whether or not it was committed
\* before and whatever the checkpoint says.
LEMMA CommitBatchInv ==
  ASSUME StoreInv, NEW i \in Imports, NEW lo \in 0 .. Len(File[i]),
         NEW hi \in 0 .. Len(File[i]), CommitBatch(i, lo, hi)
  PROVE  StoreInv'
<1> DEFINE new == NewLines(i, lo, hi)
           bad == Rejected(i, lo, hi)
<1>1. Len(File[i]) \in Nat /\ lo \in Nat /\ hi \in Nat
  BY FileAssumption
<1>2. /\ new \subseteq Lines(i) /\ bad \subseteq Lines(i)
      /\ \A n \in new : File[i][n] \in Keys
      /\ \A n \in bad : File[i][n] = Bad
  BY <1>1 DEF NewLines, Valid, Rejected, Lines
<1>3. /\ stored' = [stored EXCEPT ![i] = stored[i] \cup new]
      /\ rejections' = [rejections EXCEPT ![i] = rejections[i] (+) SetToBag(bad)]
      /\ uploaded' = uploaded
  BY DEF CommitBatch, Inserted, RejectionsAdded
<1>4. /\ row[i] \in Row
      /\ row' = [row EXCEPT ![i].processed = @ + ProcessedIn(i, lo, hi),
                            ![i].accepted = @ + AcceptedIn(i, lo, hi),
                            ![i].rejected = @ + Cardinality(Rejected(i, lo, hi)),
                            ![i].duplicates = @ + DuplicatesIn(i, lo, hi),
                            ![i].checkpoint = hi]
  BY DEF CommitBatch, StoreInv, StoreTypeOK
<1>5. /\ row'[i] = [status |-> row[i].status,
                    cancelRequested |-> row[i].cancelRequested,
                    checkpoint |-> hi,
                    processed |-> row[i].processed + ProcessedIn(i, lo, hi),
                    accepted |-> row[i].accepted + AcceptedIn(i, lo, hi),
                    rejected |-> row[i].rejected + Cardinality(bad),
                    duplicates |-> row[i].duplicates + DuplicatesIn(i, lo, hi)]
      /\ \A j \in Imports \ {i} : row'[j] = row[j]
      /\ DOMAIN row' = Imports
      /\ row' = [j \in Imports |-> row'[j]]
  BY <1>4 DEF StoreInv, StoreTypeOK, Row
<1>6. /\ ProcessedIn(i, lo, hi) \in Nat /\ AcceptedIn(i, lo, hi) \in Nat
      /\ Cardinality(bad) \in Nat /\ DuplicatesIn(i, lo, hi) \in Nat
      /\ ProcessedIn(i, lo, hi) = AcceptedIn(i, lo, hi) + Cardinality(bad)
                                    + DuplicatesIn(i, lo, hi)
      /\ IsFiniteSet(new)
  BY <1>1, BatchSets
<1>7. StoreTypeOK'
  <2>1. row' \in [Imports -> Row]
    <3>1. row'[i] \in Row
      <4> DEFINE r == row[i]
                 r2 == row'[i]
                 p == ProcessedIn(i, lo, hi)
                 a == AcceptedIn(i, lo, hi)
                 b == Cardinality(bad)
                 d == DuplicatesIn(i, lo, hi)
      <4>1. r2 = [status |-> r.status, cancelRequested |-> r.cancelRequested,
                  checkpoint |-> hi, processed |-> r.processed + p,
                  accepted |-> r.accepted + a, rejected |-> r.rejected + b,
                  duplicates |-> r.duplicates + d]
        BY <1>5
      <4>2. r \in Row /\ hi \in Nat /\ p \in Nat /\ a \in Nat /\ b \in Nat /\ d \in Nat
        BY <1>1, <1>4, <1>6
      <4> HIDE DEF r, r2, p, a, b, d
      <4>3. r2 \in Row
        BY <4>1, <4>2, CountersAfterBatch
      <4> QED
        BY <4>3 DEF r2
    <3>2. \A j \in Imports : row'[j] \in Row
      BY <1>5, <3>1 DEF StoreInv, StoreTypeOK
    <3> QED
      BY <1>5, <3>2
  <2>2. /\ stored' \in [Imports -> SUBSET Nat]
        /\ \A j \in Imports : stored'[j] \subseteq Lines(j)
    BY <1>2, <1>3 DEF StoreInv, StoreTypeOK, Lines
  <2>3. /\ DOMAIN rejections' = Imports
        /\ \A j \in Imports \ {i} : IsABag(rejections'[j])
    BY <1>3 DEF StoreInv, StoreTypeOK
  <2>4. /\ rejections'[i] = rejections[i] (+) SetToBag(bad)
        /\ IsABag(rejections[i])
    BY <1>3 DEF StoreInv, StoreTypeOK
  <2>5. IsABag(rejections'[i])
    BY <2>4 DEF IsABag, SetToBag, (+)
  <2> QED
    BY <1>3, <2>1, <2>2, <2>3, <2>5 DEF StoreInv, StoreTypeOK, Lines
<1>8. CountsBalance'
  <2>1. row[i].processed = row[i].accepted + row[i].rejected + row[i].duplicates
    BY DEF StoreInv, CountsBalance
  <2>2. /\ row'[i].processed = row[i].processed + ProcessedIn(i, lo, hi)
        /\ row'[i].accepted = row[i].accepted + AcceptedIn(i, lo, hi)
        /\ row'[i].rejected = row[i].rejected + Cardinality(bad)
        /\ row'[i].duplicates = row[i].duplicates + DuplicatesIn(i, lo, hi)
    BY <1>5
  <2>3. /\ row[i].processed \in Nat /\ row[i].accepted \in Nat
        /\ row[i].rejected \in Nat /\ row[i].duplicates \in Nat
    BY <1>4 DEF Row
  <2>4. row[i].processed + ProcessedIn(i, lo, hi) =
          (row[i].accepted + AcceptedIn(i, lo, hi))
            + (row[i].rejected + Cardinality(bad))
            + (row[i].duplicates + DuplicatesIn(i, lo, hi))
    <3>1. PICK P \in Nat : P = row[i].processed
      BY <2>3
    <3>2. PICK A \in Nat : A = row[i].accepted
      BY <2>3
    <3>3. PICK B \in Nat : B = row[i].rejected
      BY <2>3
    <3>4. PICK D \in Nat : D = row[i].duplicates
      BY <2>3
    <3>5. PICK p \in Nat, a \in Nat, b \in Nat, d \in Nat :
            /\ p = ProcessedIn(i, lo, hi) /\ a = AcceptedIn(i, lo, hi)
            /\ b = Cardinality(bad) /\ d = DuplicatesIn(i, lo, hi)
            /\ p = a + b + d
      BY <1>6
    <3>6. P = A + B + D
      BY <2>1, <3>1, <3>2, <3>3, <3>4
    <3>8. p = a + b + d
      BY <3>5
    <3>7. P + p = (A + a) + (B + b) + (D + d)
      BY <3>6, <3>8
    <3> QED
      BY <3>1, <3>2, <3>3, <3>4, <3>5, <3>7
  <2>5. row'[i].processed = row'[i].accepted + row'[i].rejected + row'[i].duplicates
    BY <2>2, <2>4
  <2> QED
    BY <1>5, <2>5 DEF StoreInv, CountsBalance
<1>9. AcceptedMatchesRows'
  <2>1. IsFiniteSet(stored[i])
    <3>1. IsFiniteSet(1 .. Len(File[i]))
      BY <1>1, FS_Interval
    <3> QED
      BY <3>1, FS_Subset DEF StoreInv, StoreTypeOK, Lines
  <2>2. new \cap stored[i] = {}
    BY <1>1, InsertedAreNew
  <2>3. Cardinality(stored[i] \cup new) =
          Cardinality(stored[i]) + Cardinality(new) - Cardinality(stored[i] \cap new)
    BY <1>6, <2>1, FS_Union
  <2>4. Cardinality(stored[i] \cap new) = 0
    BY <2>2, FS_EmptySet
  <2>5. Cardinality(stored[i]) \in Nat /\ Cardinality(new) \in Nat
    BY <1>6, <2>1, FS_CardinalityType
  <2>6. row'[i].accepted = Cardinality(stored'[i])
    <3>1. stored'[i] = stored[i] \cup new
      BY <1>3 DEF StoreInv, StoreTypeOK
    <3> QED
      BY <1>5, <2>3, <2>4, <2>5, <3>1 DEF StoreInv, AcceptedMatchesRows, AcceptedIn
  <2>7. \A j \in Imports \ {i} : stored'[j] = stored[j]
    BY <1>3 DEF StoreInv, StoreTypeOK
  <2> QED
    BY <1>5, <2>6, <2>7 DEF StoreInv, AcceptedMatchesRows
<1>10. UniqueTransactions'
  <2>1. \A n, m \in new : File[i][n] = File[i][m] => n = m
    BY <1>1 DEF NewLines, Valid
  <2>2. \A n \in new : \A j \in Imports : \A m \in stored[j] : ~SameKey(i, n, j, m)
    BY DEF NewLines, HasKey
  <2> SUFFICES ASSUME NEW j \in Imports, NEW k \in Imports,
                      NEW n \in stored'[j], NEW m \in stored'[k], SameKey(j, n, k, m)
               PROVE  j = k /\ n = m
    BY DEF UniqueTransactions, SameKey
  <2>3. /\ n \in stored[j] \/ (j = i /\ n \in new)
        /\ m \in stored[k] \/ (k = i /\ m \in new)
    BY <1>3 DEF StoreInv, StoreTypeOK
  <2>4. CASE n \in stored[j] /\ m \in stored[k]
    BY <2>4 DEF StoreInv, UniqueTransactions
  <2>5. CASE j = i /\ n \in new
    BY <2>1, <2>2, <2>3, <2>5 DEF SameKey
  <2>6. CASE k = i /\ m \in new
    BY <2>1, <2>2, <2>3, <2>6 DEF SameKey
  <2> QED
    BY <2>3, <2>4, <2>5, <2>6
<1>11. RowsComeFromTheirLines'
  <2>1. \A j \in Imports : \A n \in stored'[j] : File[j][n] \in Keys
    BY <1>2, <1>3 DEF StoreInv, StoreTypeOK, RowsComeFromTheirLines
  <2>2. \A j \in Imports \ {i} : rejections'[j] = rejections[j]
    BY <1>3 DEF StoreInv, StoreTypeOK
  <2>3. BagToSet(rejections'[i]) = BagToSet(rejections[i]) \cup bad
    BY <1>3 DEF StoreInv, StoreTypeOK, BagToSet, SetToBag, (+)
  <2>5. \A j \in Imports : Exists(j)'
          \/ (j # i /\ row'[j] = row[j] /\ stored'[j] = stored[j])
    BY <1>3, <1>5 DEF CommitBatch, Exists, StoreInv, StoreTypeOK
  <2>4. \A j \in Imports : \A n \in BagToSet(rejections'[j]) :
          n \in Lines(j) /\ File[j][n] = Bad
    BY <1>2, <2>2, <2>3 DEF StoreInv, RowsComeFromTheirLines
  <2> QED
    BY <2>1, <2>2, <2>4, <2>5 DEF StoreInv, RowsComeFromTheirLines, Lines, Exists
<1> QED
  BY <1>7, <1>8, <1>9, <1>10, <1>11 DEF StoreInv

\* One step of any caller.
LEMMA NextInv == StoreInv /\ [StoreNext]_storeVars => StoreInv'
<1> SUFFICES ASSUME StoreInv, [StoreNext]_storeVars PROVE StoreInv'
  OBVIOUS
<1>1. CASE UNCHANGED storeVars
  <2>1. uploaded' \in SUBSET Imports /\ UNCHANGED <<row, stored, rejections>>
    BY <1>1 DEF storeVars, StoreInv, StoreTypeOK
  <2> QED
    BY <2>1, FrameInv
<1>2. ASSUME NEW i \in Imports, CreatePendingImport(i) PROVE StoreInv'
  BY <1>2, CreatePendingImportInv
<1>3. ASSUME NEW i \in Imports, AttachUploadedFile(i) PROVE StoreInv'
  <2>1. /\ uploaded' \in SUBSET Imports
        /\ UNCHANGED <<row, stored, rejections>>
    BY <1>3 DEF AttachUploadedFile, StoreInv, StoreTypeOK
  <2> QED
    BY <2>1, FrameInv
<1>4. ASSUME NEW i \in Imports, WriteCancellation(i) PROVE StoreInv'
  <2>1. /\ row' = [row EXCEPT ![i].status = "cancelling", ![i].cancelRequested = TRUE]
        /\ uploaded' \in SUBSET Imports /\ UNCHANGED <<stored, rejections>>
    BY <1>4 DEF WriteCancellation, StoreInv, StoreTypeOK
  <2>2. "cancelling" \in Status \ {"none"}
    BY DEF Status
  <2> QED
    BY <2>1, <2>2, RowUpdateInv
<1>5. ASSUME NEW i \in Imports, NEW s \in Status \ {"none"}, SetStatus(i, s) PROVE StoreInv'
  BY <1>5, SetStatusInv
<1>6. ASSUME NEW i \in Imports, NEW lo \in 0 .. Len(File[i]),
             NEW hi \in 0 .. Len(File[i]), CommitBatch(i, lo, hi)
      PROVE  StoreInv'
  BY <1>6, CommitBatchInv
<1> QED
  BY <1>1, <1>2, <1>3, <1>4, <1>5, <1>6
     DEF StoreNext, WriteRow, MarkProcessing, MarkCompleted, MarkFailed, MarkCancelled, Status

LEMMA StoreIsInductive == StoreSpec => []StoreInv
BY InitInv, NextInv, PTL DEF StoreSpec

\* The tables keep their types, whoever calls: every stored line is a line of
\* the file of its import.
THEOREM StoreTyped == StoreSpec => []StoreTypeOK
<1>1. StoreInv => StoreTypeOK
  BY DEF StoreInv
<1> QED
  BY StoreIsInductive, <1>1, PTL

\* processed = accepted + rejected + duplicates in every row, also while batches
\* are replayed and overlap (imports.processor.ts:115).
THEOREM CountersBalance == StoreSpec => []CountsBalance
<1>1. StoreInv => CountsBalance
  BY DEF StoreInv
<1> QED
  BY StoreIsInductive, <1>1, PTL

\* acceptedCount is the number of transaction rows of the import, for every
\* overlap of workers and of imports that carry the same keys.
THEOREM AcceptedIsWhatIsStored == StoreSpec => []AcceptedMatchesRows
<1>1. StoreInv => AcceptedMatchesRows
  BY DEF StoreInv
<1> QED
  BY StoreIsInductive, <1>1, PTL

\* No two rows of the transaction table have the same provider and key.
THEOREM KeysAreStoredOnce == StoreSpec => []UniqueTransactions
<1>1. StoreInv => UniqueTransactions
  BY DEF StoreInv
<1> QED
  BY StoreIsInductive, <1>1, PTL

\* A transaction row comes from a line that validates and a rejection from one
\* that does not, of an import that has a row.
THEOREM RowsHaveTheirLine == StoreSpec => []RowsComeFromTheirLines
<1>1. StoreInv => RowsComeFromTheirLines
  BY DEF StoreInv
<1> QED
  BY StoreIsInductive, <1>1, PTL

LEMMA StoredGrows ==
  ASSUME StoreInv, [StoreNext]_storeVars
  PROVE  \A i \in Imports : stored[i] \subseteq stored'[i]
<1>1. CASE UNCHANGED stored
  BY <1>1
<1>2. ASSUME NEW i \in Imports, NEW lo, NEW hi, CommitBatch(i, lo, hi)
      PROVE  \A j \in Imports : stored[j] \subseteq stored'[j]
  <2>1. stored' = [stored EXCEPT ![i] = stored[i] \cup NewLines(i, lo, hi)]
    BY <1>2 DEF CommitBatch, Inserted
  <2> QED
    BY <2>1 DEF StoreInv, StoreTypeOK
<1> QED
  BY <1>1, <1>2 DEF StoreNext, WriteRow, CreatePendingImport, AttachUploadedFile,
     WriteCancellation, MarkProcessing, MarkCompleted, MarkFailed, MarkCancelled,
     SetStatus, storeVars

\* A transaction row, once there, is never replaced or removed.
THEOREM RowsAreKept == StoreSpec => FirstWriteWins
<1>1. ASSUME StoreInv, [StoreNext]_storeVars
      PROVE  [\A i \in Imports : stored[i] \subseteq stored'[i]]_storeVars
  BY <1>1, StoredGrows
<1> QED
  BY InitInv, NextInv, <1>1, PTL DEF StoreSpec, FirstWriteWins

LEMMA RejectedInit == StoreInit => RejectedMatchesRows
BY NoCopies DEF StoreInit, RejectedMatchesRows, NewRow, EmptyBag, SetToBag

LEMMA RejectedNext == StoreInv /\ RejectedMatchesRows /\ [StoreNext]_storeVars
                        => RejectedMatchesRows'
<1> SUFFICES ASSUME StoreInv, RejectedMatchesRows, [StoreNext]_storeVars,
                    NEW j \in Imports
             PROVE  row'[j].rejected = BagCardinality(rejections'[j])
  BY DEF RejectedMatchesRows
<1>1. row[j].rejected = BagCardinality(rejections[j]) /\ row \in [Imports -> Row]
  BY DEF RejectedMatchesRows, StoreInv, StoreTypeOK
<1>2. CASE UNCHANGED storeVars
  BY <1>1, <1>2 DEF storeVars
<1>3. ASSUME NEW i \in Imports, CreatePendingImport(i)
      PROVE  row'[j].rejected = BagCardinality(rejections'[j])
  <2>1. CASE j = i
    <3>1. row'[j].rejected = 0 /\ rejections'[j] = rejections[j]
      BY <1>1, <1>3, <2>1 DEF CreatePendingImport, NewRow
    <3>2. DOMAIN rejections[j] = {}
      BY <1>3, <2>1 DEF CreatePendingImport, StoreInv, RowsComeFromTheirLines, BagToSet
    <3> QED
      BY <3>1, <3>2, NoCopies
  <2>2. CASE j # i
    BY <1>1, <1>3, <2>2 DEF CreatePendingImport
  <2> QED
    BY <2>1, <2>2
<1>4. ASSUME NEW i \in Imports, WriteRow(i), ~CreatePendingImport(i)
      PROVE  row'[j].rejected = row[j].rejected /\ rejections' = rejections
  BY <1>1, <1>4 DEF WriteRow, AttachUploadedFile, WriteCancellation, MarkProcessing,
     MarkCompleted, MarkFailed, MarkCancelled, SetStatus, Row
<1>5. ASSUME NEW i \in Imports, NEW lo \in Nat, NEW hi \in Nat, CommitBatch(i, lo, hi)
      PROVE  row'[j].rejected = BagCardinality(rejections'[j])
  <2>1. CASE j = i
    <3> DEFINE R == Rejected(i, lo, hi)
    <3>1. rejections'[j] = rejections[j] (+) SetToBag(R)
      BY <1>5, <2>1 DEF CommitBatch, RejectionsAdded, StoreInv, StoreTypeOK
    <3>2. row'[j].rejected = row[j].rejected + Cardinality(R)
      BY <1>1, <1>5, <2>1 DEF CommitBatch, Row
    <3>3. IsFiniteSet(R)
      BY BatchSets
    <3>4. IsABag(rejections[j]) /\ IsFiniteSet(DOMAIN rejections[j])
      <4>1. IsABag(rejections[j]) /\ DOMAIN rejections[j] \in SUBSET (1 .. Len(File[j]))
        BY DEF StoreInv, StoreTypeOK, RowsComeFromTheirLines, BagToSet, Lines
      <4>2. Len(File[j]) \in Nat
        BY FileAssumption
      <4>3. IsFiniteSet(1 .. Len(File[j]))
        BY <4>2, FS_Interval
      <4> QED
        BY <4>1, <4>3, FS_Subset
    <3> HIDE DEF R
    <3> QED
      BY <1>1, <3>1, <3>2, <3>3, <3>4, BagWithASet
  <2>2. CASE j # i
    BY <1>1, <1>5, <2>2 DEF CommitBatch, RejectionsAdded, StoreInv, StoreTypeOK
  <2> QED
    BY <2>1, <2>2
<1> QED
  <2>1. \A i \in Imports : 0 .. Len(File[i]) \subseteq Nat
    OBVIOUS
  <2> QED
    BY <1>1, <1>2, <1>3, <1>4, <1>5, <2>1 DEF StoreNext

\* rejectedCount is the number of rejected_record rows of the import, also where
\* two workers reject a line twice (imports.repository.ts, commitBatchOnce).
THEOREM RejectedIsWhatIsStored == StoreSpec => []RejectedMatchesRows
<1>1. StoreInv /\ RejectedMatchesRows /\ [StoreNext]_storeVars
        => (StoreInv /\ RejectedMatchesRows)'
  BY NextInv, RejectedNext
<1> QED
  BY InitInv, RejectedInit, <1>1, PTL DEF StoreSpec
==============================================================================
