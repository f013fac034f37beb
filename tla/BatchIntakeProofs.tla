-------------------------- MODULE BatchIntakeProofs --------------------------
(* What ImportProcessor makes of the lines of a file, for any batch size, any *)
(* files, chunks and restarts, and whatever values the bytes stand for.       *)
(*                                                                            *)
(* The argument.  The parser under the loop is the parser alone (IntakeParses):*)
(* a restart begins behind a line that was yielded.  Batches do not matter:   *)
(* what was accepted so far is what one batch of all the committed lines      *)
(* would have accepted, and likewise for the rejected (ScreenedInv).  The     *)
(* lines hold what stands between two newlines of the file (FileLineIs), and  *)
(* the steps of the normalization are idempotent in their order (NormalForm). *)
EXTENDS BatchIntake, NdjsonLinesProofs

------------------------------------------------------------------------------
\* Selections.

Rank(P, k) == Cardinality({m \in P : m <= k})
Place(P, n) == CHOOSE k \in P : Rank(P, k) = n

LEMMA RanksGrow ==
  ASSUME NEW P \in SUBSET Nat, IsFiniteSet(P), NEW k \in P
  PROVE  /\ Rank(P, k) \in 1 .. Cardinality(P) /\ Cardinality(P) \in Nat
         /\ \A m \in P : m < k => Rank(P, m) < Rank(P, k)
<1> DEFINE low(j) == {m \in P : m <= j}
<1>1. \A j \in P : low(j) \in SUBSET P
  OBVIOUS
<1>2. \A j \in P : /\ IsFiniteSet(low(j)) /\ Cardinality(low(j)) \in Nat
                   /\ Cardinality(low(j)) <= Cardinality(P) /\ Cardinality(P) \in Nat
  <2> HIDE DEF low
  <2> QED
    BY <1>1, FS_Subset, FS_CardinalityType
<1>3. ASSUME NEW m \in P, m < k PROVE Cardinality(low(m)) < Cardinality(low(k))
  <2>1. \A j \in P : j \in Nat
    OBVIOUS
  <2>2. \A j \in P : j <= m => j <= k
    BY <1>3, <2>1
  <2>3. low(m) \in SUBSET low(k)
    BY <2>2
  <2>4. k \in low(k) /\ k \notin low(m)
    BY <1>3, <2>1
  <2> HIDE DEF low
  <2>5. Cardinality(low(m)) <= Cardinality(low(k)) /\ Cardinality(low(m)) # Cardinality(low(k))
    BY <1>2, <2>3, <2>4, FS_Subset
  <2> QED
    BY <1>2, <1>3, <2>5
<1>4. Cardinality(low(k)) # 0
  <2>1. k \in low(k)
    OBVIOUS
  <2> HIDE DEF low
  <2> QED
    BY <1>2, <2>1, FS_EmptySet
<1> QED
  BY <1>2, <1>3, <1>4 DEF Rank

\* The places are found one after the other.
LEMMA Places ==
  ASSUME NEW P \in SUBSET Nat, IsFiniteSet(P)
  PROVE  /\ Cardinality(P) \in Nat
         /\ \A n \in 1 .. Cardinality(P) : Place(P, n) \in P /\ Rank(P, Place(P, n)) = n
         /\ \A k \in P : Place(P, Rank(P, k)) = k
         /\ \A m, n \in 1 .. Cardinality(P) : m < n => Place(P, m) < Place(P, n)
<1> DEFINE c == Cardinality(P)
           rank == [k \in P |-> Rank(P, k)]
<1>1. c \in Nat
  BY FS_CardinalityType
<1>2. \A k \in P : Rank(P, k) \in 1 .. c
  BY RanksGrow
<1>3. \A j, k \in P : j < k => Rank(P, j) < Rank(P, k)
  BY RanksGrow
<1>4. \A j, k \in P : Rank(P, j) = Rank(P, k) => j = k
  <2> SUFFICES ASSUME NEW j \in P, NEW k \in P, Rank(P, j) = Rank(P, k), j # k PROVE FALSE
    OBVIOUS
  <2>1. Rank(P, j) < Rank(P, k) \/ Rank(P, k) < Rank(P, j)
    BY <1>3
  <2> QED
    BY <1>2, <2>1
<1>5. \A n \in 1 .. c : \E k \in P : Rank(P, k) = n
  <2>1. IsFiniteSet(1 .. c) /\ Cardinality(1 .. c) = c
    BY <1>1, FS_Interval
  <2>2. rank \in Injection(P, 1 .. c)
    BY <1>2, <1>4 DEF Injection, IsInjective
  <2>3. Cardinality(P) = Cardinality(1 .. c)
    BY <2>1
  <2>4. rank \in Surjection(P, 1 .. c)
    <3> HIDE DEF rank, c
    <3> QED
      BY <2>1, <2>2, <2>3, FS_Injection
  <2> QED
    BY <2>4 DEF Surjection
<1>6. \A n \in 1 .. c : Place(P, n) \in P /\ Rank(P, Place(P, n)) = n
  BY <1>5 DEF Place
<1>7. \A k \in P : Place(P, Rank(P, k)) = k
  BY <1>2, <1>4, <1>6
<1>8. ASSUME NEW m \in 1 .. c, NEW n \in 1 .. c, m < n PROVE Place(P, m) < Place(P, n)
  <2> SUFFICES ASSUME ~(Place(P, m) < Place(P, n)) PROVE FALSE
    OBVIOUS
  <2>1. Place(P, m) \in Nat /\ Place(P, n) \in Nat
    BY <1>6
  <2>2. Place(P, n) < Place(P, m) \/ Place(P, n) = Place(P, m)
    BY <2>1
  <2>3. n < m \/ n = m
    BY <1>3, <1>6, <2>2
  <2> QED
    BY <1>8, <2>3
<1> QED
  BY <1>1, <1>6, <1>7, <1>8

LEMMA SelectedAt ==
  ASSUME NEW s, NEW P
  PROVE  SelectAt(s, P) = [n \in 1 .. Cardinality(P) |-> s[Place(P, n)]]
BY DEF SelectAt, Place, Rank

\* Only what is at the places matters.
LEMMA SameSelection ==
  ASSUME NEW s, NEW t, NEW P \in SUBSET Nat, IsFiniteSet(P), \A k \in P : s[k] = t[k]
  PROVE  SelectAt(s, P) = SelectAt(t, P)
<1>1. \A n \in 1 .. Cardinality(P) : s[Place(P, n)] = t[Place(P, n)]
  BY Places
<1> QED
  BY <1>1, SelectedAt

------------------------------------------------------------------------------
\* What the committed batches have made of the lines.  (v is valueOf, ls lines.)

ValueIn(v, l) == IF Cardinality(Tokens(l.raw)) = 1
                 THEN v[l.raw[CHOOSE n \in Tokens(l.raw) : TRUE]] ELSE NotJson

Keeps(v, l) == ValueIn(v, l).type = "object" /\ Satisfies(NormalizeRecord(ValueIn(v, l)))

Good(v, ls, c) == {k \in 1 .. c : ~IsBlank(ls[k]) /\ Keeps(v, ls[k])}
Bad(v, ls, c) == {k \in 1 .. c : ~IsBlank(ls[k]) /\ ~Keeps(v, ls[k])}

AcceptedRow(v, l) == [lineNumber |-> l.lineNumber,
                      transaction |-> Stored(NormalizeRecord(ValueIn(v, l))),
                      fingerprint |-> Fingerprint(NormalizeRecord(ValueIn(v, l))),
                      riskLevel |-> RiskLevel(NormalizeRecord(ValueIn(v, l)))]

ReasonIn(v, l) ==
  IF ValueIn(v, l) = NotJson
  THEN IF l.oversized THEN "LINE_TOO_LONG" ELSE "INVALID_JSON"
  ELSE IF ValueIn(v, l).type = "object" THEN "VALIDATION_FAILED" ELSE "INVALID_RECORD"

RejectedRow(v, l) == [lineNumber |-> l.lineNumber, reasonCode |-> ReasonIn(v, l)]

AcceptedRows(v, ls) == [k \in DOMAIN ls |-> AcceptedRow(v, ls[k])]
RejectedRows(v, ls) == [k \in DOMAIN ls |-> RejectedRow(v, ls[k])]

\* s holds the rows of the lines P, each once and in order.
Listed(s, P, row) ==
  /\ s \in Seq({row[k] : k \in P})
  /\ \A k \in P : \E i \in DOMAIN s : s[i] = row[k]
  /\ \A i, j \in DOMAIN s : i < j => s[i].lineNumber < s[j].lineNumber

ScreenedInv ==
  /\ ParseInv
  /\ valueOf \in Valuations
  /\ committed \in 0 .. Len(lines)
  /\ outcome \in {"running", "completed", "failed"}
  /\ outcome = "completed" => pc = "done" /\ committed = Len(lines)
  /\ Listed(accepted, Good(valueOf, lines, committed), AcceptedRows(valueOf, lines))
  /\ Listed(rejected, Bad(valueOf, lines, committed), RejectedRows(valueOf, lines))
  /\ processed = Len(accepted) + Len(rejected)

------------------------------------------------------------------------------
\* Listings.

LEMMA NothingListed == ASSUME NEW row PROVE Listed(<<>>, {}, row)
BY DEF Listed

LEMMA SameListing ==
  ASSUME NEW s, NEW P, NEW row, NEW row2, Listed(s, P, row), \A k \in P : row[k] = row2[k]
  PROVE  Listed(s, P, row2)
<1>1. {row[k] : k \in P} = {row2[k] : k \in P}
  OBVIOUS
<1> QED
  BY <1>1 DEF Listed

LEMMA JoinedListing ==
  ASSUME NEW s, NEW t, NEW row, NEW c \in Nat, NEW P \in SUBSET (1 .. c), NEW Q \in SUBSET Nat,
         \A k \in Q : c < k, \A k \in P \cup Q : row[k].lineNumber = k,
         Listed(s, P, row), Listed(t, Q, row)
  PROVE  Listed(s \o t, P \cup Q, row) /\ Len(s \o t) = Len(s) + Len(t)
<1> DEFINE S == {row[k] : k \in P \cup Q}
<1>1. s \in Seq(S) /\ t \in Seq(S)
  <2>1. s \in Seq({row[k] : k \in P}) /\ t \in Seq({row[k] : k \in Q})
    BY DEF Listed
  <2>2. {row[k] : k \in P} \subseteq S /\ {row[k] : k \in Q} \subseteq S
    OBVIOUS
  <2> HIDE DEF S
  <2> QED
    BY <2>1, <2>2, SeqMonotonic
<1>2. /\ Len(s) \in Nat /\ DOMAIN s = 1 .. Len(s)
      /\ Len(t) \in Nat /\ DOMAIN t = 1 .. Len(t)
  <2> HIDE DEF S
  <2> QED
    BY <1>1, LenProperties
<1>3. /\ s \o t \in Seq(S) /\ Len(s \o t) = Len(s) + Len(t)
      /\ DOMAIN (s \o t) = 1 .. Len(s) + Len(t)
      /\ \A i \in 1 .. Len(s) + Len(t) :
           (s \o t)[i] = IF i <= Len(s) THEN s[i] ELSE t[i - Len(s)]
  <2> HIDE DEF S
  <2> QED
    BY <1>1, ConcatProperties, LenProperties
<1>4. /\ \A i \in DOMAIN s : s[i].lineNumber \in P
      /\ \A i \in DOMAIN t : t[i].lineNumber \in Q
  <2>1. \A i \in DOMAIN s : s[i] \in {row[k] : k \in P}
    BY <1>2, ElementOfSeq DEF Listed
  <2>2. \A i \in DOMAIN t : t[i] \in {row[k] : k \in Q}
    BY <1>2, ElementOfSeq DEF Listed
  <2> QED
    BY <2>1, <2>2
<1>5. \A k \in P \cup Q : \E i \in DOMAIN (s \o t) : (s \o t)[i] = row[k]
  <2>1. ASSUME NEW k \in P PROVE \E i \in DOMAIN (s \o t) : (s \o t)[i] = row[k]
    <3>1. PICK i \in 1 .. Len(s) : s[i] = row[k]
      BY <1>2 DEF Listed
    <3> QED
      BY <1>2, <1>3, <3>1
  <2>2. ASSUME NEW k \in Q PROVE \E i \in DOMAIN (s \o t) : (s \o t)[i] = row[k]
    <3>1. PICK i \in 1 .. Len(t) : t[i] = row[k]
      BY <1>2 DEF Listed
    <3>2. Len(s) + i \in 1 .. Len(s) + Len(t) /\ Len(s) + i - Len(s) = i /\ ~(Len(s) + i <= Len(s))
      BY <1>2
    <3> QED
      BY <1>3, <3>1, <3>2
  <2> QED
    BY <2>1, <2>2
<1>6. ASSUME NEW i \in DOMAIN (s \o t), NEW j \in DOMAIN (s \o t), i < j
      PROVE  (s \o t)[i].lineNumber < (s \o t)[j].lineNumber
  <2>1. CASE j <= Len(s)
    <3>1. i \in DOMAIN s /\ j \in DOMAIN s
      BY <1>2, <1>3, <1>6, <2>1
    <3> QED
      BY <1>2, <1>3, <1>6, <3>1 DEF Listed
  <2>2. CASE Len(s) < i
    <3>1. i - Len(s) \in DOMAIN t /\ j - Len(s) \in DOMAIN t /\ i - Len(s) < j - Len(s)
      BY <1>2, <1>3, <1>6, <2>2
    <3>2. t[i - Len(s)].lineNumber < t[j - Len(s)].lineNumber
      BY <3>1 DEF Listed
    <3>3. (s \o t)[i] = t[i - Len(s)] /\ (s \o t)[j] = t[j - Len(s)]
      BY <1>2, <1>3, <1>6, <2>2
    <3> QED
      BY <3>2, <3>3
  <2>3. CASE i <= Len(s) /\ Len(s) < j
    <3>1. i \in DOMAIN s /\ j - Len(s) \in DOMAIN t
      BY <1>2, <1>3, <1>6, <2>3
    <3>2. (s \o t)[i] = s[i] /\ (s \o t)[j] = t[j - Len(s)]
      BY <1>2, <1>3, <1>6, <2>3
    <3>3. s[i].lineNumber \in 1 .. c /\ t[j - Len(s)].lineNumber \in Nat
          /\ c < t[j - Len(s)].lineNumber
      BY <1>4, <3>1
    <3> QED
      BY <3>2, <3>3
  <2> QED
    BY <1>2, <1>3, <1>6, <2>1, <2>2, <2>3
<1> QED
  BY <1>3, <1>5, <1>6 DEF Listed

\* What is selected from a batch behind line c.
Behind(c, Q) == {c + k : k \in Q}
IsSelected(t, Q, row, c) ==
  /\ t = [n \in 1 .. Cardinality(Q) |-> row[c + Place(Q, n)]]
  /\ \A k \in Q : row[c + k].lineNumber = c + k

LEMMA BatchListing ==
  ASSUME NEW row, NEW c \in Nat, NEW b \in Nat, NEW Q \in SUBSET (1 .. b),
         NEW t, IsSelected(t, Q, row, c)
  PROVE  /\ Listed(t, Behind(c, Q), row)
         /\ Len(t) = Cardinality(Q) /\ Cardinality(Q) \in Nat
<1> DEFINE P == Behind(c, Q)
<1>1. IsFiniteSet(Q) /\ Q \in SUBSET Nat
  <2>1. IsFiniteSet(1 .. b)
    BY FS_Interval
  <2>2. IsFiniteSet(Q)
    BY <2>1, FS_Subset
  <2>3. Q \in SUBSET Nat
    OBVIOUS
  <2> QED
    BY <2>2, <2>3
<1>2. /\ Cardinality(Q) \in Nat
      /\ \A n \in 1 .. Cardinality(Q) : Place(Q, n) \in Q
      /\ \A k \in Q : Place(Q, Rank(Q, k)) = k /\ Rank(Q, k) \in 1 .. Cardinality(Q)
      /\ \A m, n \in 1 .. Cardinality(Q) : m < n => Place(Q, m) < Place(Q, n)
  BY <1>1, Places, RanksGrow
<1> DEFINE S == {row[k] : k \in P}
<1> USE DEF IsSelected
<1>3. \A n \in 1 .. Cardinality(Q) : t[n] = row[c + Place(Q, n)] /\ t[n] \in S
  BY <1>2 DEF Behind
<1>4. t \in Seq(S) /\ Len(t) = Cardinality(Q) /\ DOMAIN t = 1 .. Cardinality(Q)
  <2>1. t \in [1 .. Cardinality(Q) -> S]
    BY <1>3
  <2> HIDE DEF S
  <2> QED
    BY <1>2, <2>1
<1>5. \A k \in P : \E i \in DOMAIN t : t[i] = row[k]
  <2> SUFFICES ASSUME NEW j \in Q PROVE \E i \in DOMAIN t : t[i] = row[c + j]
    BY DEF Behind
  <2> QED
    BY <1>2, <1>3, <1>4
<1>6. ASSUME NEW i \in DOMAIN t, NEW j \in DOMAIN t, i < j PROVE t[i].lineNumber < t[j].lineNumber
  <2>1. /\ Place(Q, i) \in Q /\ Place(Q, j) \in Q /\ Place(Q, i) < Place(Q, j)
    BY <1>2, <1>4, <1>6
  <2>2. t[i].lineNumber = c + Place(Q, i) /\ t[j].lineNumber = c + Place(Q, j)
    BY <1>3, <1>4, <2>1
  <2>3. Place(Q, i) \in Nat /\ Place(Q, j) \in Nat
    BY <1>1, <2>1
  <2> QED
    BY <2>1, <2>2, <2>3
<1> QED
  BY <1>2, <1>4, <1>5, <1>6 DEF Listed

------------------------------------------------------------------------------
\* The steps of the loop.

\* What the loop does to the parser is a step of the parser.
LEMMA LoopStep == committed \in 0 .. Len(lines) /\ [IntakeNext]_allVars => [Next]_vars
<1> SUFFICES ASSUME committed \in 0 .. Len(lines), [IntakeNext]_allVars PROVE [Next]_vars
  OBVIOUS
<1>1. CASE Parse
  BY <1>1 DEF Parse, Next
<1>2. CASE Flush \/ Complete \/ UNCHANGED allVars
  BY <1>2 DEF Flush, Complete, allVars
<1>3. CASE Restart
  BY <1>3 DEF Restart, Resume, Next
<1> QED
  BY <1>1, <1>2, <1>3 DEF IntakeNext

LEMMA ValuesAreRead ==
  ASSUME NEW l
  PROVE  /\ Parsed(l.raw) = ValueIn(valueOf, l)
         /\ IsValid(l) <=> ~IsBlank(l) /\ Keeps(valueOf, l)
         /\ IsRejected(l) <=> ~IsBlank(l) /\ ~Keeps(valueOf, l)
         /\ ReasonCode(l) = ReasonIn(valueOf, l)
         /\ Record(l) = NormalizeRecord(ValueIn(valueOf, l))
<1>1. Parsed(l.raw) = ValueIn(valueOf, l)
  BY DEF Parsed, ValueIn
<1> QED
  BY <1>1 DEF IsValid, IsRejected, IsObject, Record, Keeps, ReasonCode, ReasonIn

LEMMA RowsHaveTheirNumbers ==
  ASSUME ParseInv, NEW v
  PROVE  /\ Len(lines) \in Nat /\ DOMAIN lines = 1 .. Len(lines)
         /\ \A k \in 1 .. Len(lines) : /\ AcceptedRows(v, lines)[k].lineNumber = k
                                       /\ RejectedRows(v, lines)[k].lineNumber = k
<1>1. lines \in Seq(Line(file)) /\ \A k \in DOMAIN lines : lines[k].lineNumber = k
  BY DEF ParseInv, AreLines
<1>2. Len(lines) \in Nat /\ DOMAIN lines = 1 .. Len(lines)
  BY <1>1, LenProperties
<1> QED
  BY <1>1, <1>2 DEF AcceptedRows, RejectedRows, AcceptedRow, RejectedRow

LEMMA BatchIsTheRest ==
  ASSUME ScreenedInv
  PROVE  /\ Len(lines) \in Nat /\ committed \in Nat /\ Len(lines) - committed \in Nat
         /\ Batch \in Seq(Line(file))
         /\ Len(Batch) = Len(lines) - committed /\ DOMAIN Batch = 1 .. Len(lines) - committed
         /\ \A k \in DOMAIN Batch : Batch[k] = lines[committed + k]
<1>1. lines \in Seq(Line(file)) /\ Len(lines) \in Nat /\ committed \in 0 .. Len(lines)
  BY RowsHaveTheirNumbers DEF ScreenedInv, ParseInv, AreLines
<1>2. committed \in Nat /\ committed <= Len(lines)
  BY <1>1
<1>3. /\ Batch \in Seq(Line(file)) /\ Len(Batch) = Len(lines) - committed
      /\ \A k \in 1 .. Len(lines) - committed : Batch[k] = lines[committed + k]
  BY <1>1, <1>2, Piece DEF Batch
<1>4. DOMAIN Batch = 1 .. Len(Batch)
  BY <1>3, LenProperties
<1> QED
  BY <1>1, <1>2, <1>3, <1>4

LEMMA ScreenedInit == IntakeInit => ScreenedInv
<1> SUFFICES ASSUME IntakeInit PROVE ScreenedInv
  OBVIOUS
<1>1. ParseInv
  BY ParseInit DEF IntakeInit
<1>2. Len(<<>>) = 0 /\ lines = <<>> /\ committed = 0 /\ accepted = <<>> /\ rejected = <<>>
  BY NothingInIt DEF IntakeInit, Init
<1>3. Good(valueOf, lines, committed) = {} /\ Bad(valueOf, lines, committed) = {}
  BY <1>2 DEF Good, Bad
<1> QED
  BY <1>1, <1>2, <1>3, NothingListed DEF ScreenedInv, IntakeInit

\* The scores find their way back: the n-th accepted record has its own.
LEMMA LevelsAreTheirs ==
  ASSUME ScreenedInv, NEW n \in 1 .. Cardinality(Accepts)
  PROVE  LevelOf(n) = RiskLevel(Record(Batch[Place(Accepts, n)]))
<1> DEFINE P == Accepts
           places == SelectAt([k \in DOMAIN Batch |-> k], P)
           c == Cardinality(P)
<1>1. P \in SUBSET (1 .. Len(lines) - committed) /\ DOMAIN Batch = 1 .. Len(lines) - committed
      /\ Len(lines) - committed \in Nat
  BY BatchIsTheRest DEF Accepts
<1>2. P \in SUBSET Nat /\ IsFiniteSet(P)
  <2>1. IsFiniteSet(1 .. Len(lines) - committed)
    BY <1>1, FS_Interval
  <2>2. P \in SUBSET Nat
    BY <1>1
  <2> HIDE DEF P
  <2>3. IsFiniteSet(P)
    BY <1>1, <2>1, FS_Subset
  <2> QED
    BY <2>2, <2>3
<1>3. /\ c \in Nat
      /\ \A i \in 1 .. c : Place(P, i) \in P /\ Rank(P, Place(P, i)) = i
  <2> HIDE DEF P
  <2> QED
    BY <1>2, Places
<1>4. DOMAIN places = 1 .. c /\ \A i \in 1 .. c : places[i] = Place(P, i)
  <2>1. \A k \in P : k \in DOMAIN Batch
    BY <1>1
  <2> HIDE DEF P
  <2>2. places = [i \in 1 .. c |-> [k \in DOMAIN Batch |-> k][Place(P, i)]]
    BY SelectedAt
  <2> QED
    BY <1>3, <2>1, <2>2
<1>5. \A k : AcceptedIndex(k) = Rank(P, k)
  BY DEF AcceptedIndex, Rank
<1>6. /\ DOMAIN ToScore = 1 .. c
      /\ \A i \in 1 .. c : /\ ToScore[i].acceptedIndex = i
                           /\ ToScore[i].record = Record(Batch[Place(P, i)])
  <2> HIDE DEF P, c
  <2>1. ToScore = [i \in DOMAIN places |-> [acceptedIndex |-> AcceptedIndex(places[i]),
                                            record |-> Record(Batch[places[i]])]]
    BY DEF ToScore, P
  <2> HIDE DEF places
  <2> QED
    BY <1>3, <1>4, <1>5, <2>1
<1>7. {i \in DOMAIN ToScore : ToScore[i].acceptedIndex = n} = {n}
  BY <1>6
<1>8. (CHOOSE i \in {n} : \A j \in {n} : j <= i) = n
  OBVIOUS
<1> HIDE DEF P, c
<1>9. LevelOf(n) = RiskLevel(ToScore[n].record)
  BY <1>7, <1>8 DEF LevelOf
<1> QED
  BY <1>6, <1>9 DEF c, P

\* A batch adds what one batch of all the lines would hold behind the others.
LEMMA CommitStep == ScreenedInv /\ Flush /\ Commit => ScreenedInv'
<1> SUFFICES ASSUME ScreenedInv, Flush, Commit PROVE ScreenedInv'
  OBVIOUS
<1> DEFINE V == Accepts
           R == Rejects
           c == committed
           valid == SelectAt(Batch, V)
           invalid == SelectAt(Batch, R)
           arow == AcceptedRows(valueOf, lines)
           rrow == RejectedRows(valueOf, lines)
           len == Len(lines)
<1>1. /\ ParseInv /\ valueOf \in Valuations /\ c \in 0 .. len
      /\ Listed(accepted, Good(valueOf, lines, c), arow)
      /\ Listed(rejected, Bad(valueOf, lines, c), rrow)
      /\ processed = Len(accepted) + Len(rejected)
  BY DEF ScreenedInv
<1>2. /\ accepted' = accepted \o AcceptedIn(valid) /\ rejected' = rejected \o RejectedIn(invalid)
      /\ processed' = processed + Len(valid) + Len(invalid)
      /\ committed' = len /\ outcome' = outcome /\ outcome = "running"
      /\ UNCHANGED <<vars, valueOf>>
  BY DEF Commit, Flush
<1>3. /\ len \in Nat /\ c \in Nat /\ len - c \in Nat
      /\ DOMAIN Batch = 1 .. len - c
      /\ \A k \in DOMAIN Batch : Batch[k] = lines[c + k]
  BY BatchIsTheRest
<1>4. DOMAIN lines = 1 .. len
  BY <1>1, RowsHaveTheirNumbers
<1>5. \A k \in 1 .. len : arow[k].lineNumber = k /\ rrow[k].lineNumber = k
  BY <1>1, RowsHaveTheirNumbers
<1>6. V \in SUBSET (1 .. len - c) /\ R \in SUBSET (1 .. len - c)
  BY <1>3 DEF Accepts, Rejects
<1>7. /\ IsFiniteSet(V) /\ V \in SUBSET Nat /\ IsFiniteSet(R) /\ R \in SUBSET Nat
  <2>1. IsFiniteSet(1 .. len - c)
    BY <1>3, FS_Interval
  <2> HIDE DEF V, R
  <2>2. IsFiniteSet(V) /\ IsFiniteSet(R)
    BY <1>6, <2>1, FS_Subset
  <2> QED
    BY <1>6, <2>2
<1>8. /\ valid = [n \in 1 .. Cardinality(V) |-> Batch[Place(V, n)]]
      /\ invalid = [n \in 1 .. Cardinality(R) |-> Batch[Place(R, n)]]
  BY SelectedAt
<1>9. /\ \A n \in 1 .. Cardinality(V) : Place(V, n) \in V
      /\ \A n \in 1 .. Cardinality(R) : Place(R, n) \in R
      /\ Cardinality(V) \in Nat /\ Cardinality(R) \in Nat
  <2> HIDE DEF V, R
  <2> QED
    BY <1>7, Places
<1>10. /\ AcceptedIn(valid) = [n \in 1 .. Cardinality(V) |-> arow[c + Place(V, n)]]
       /\ Len(valid) = Cardinality(V)
  <2>1. DOMAIN valid = 1 .. Cardinality(V) /\ Len(valid) = Cardinality(V)
    <3> HIDE DEF V
    <3> QED
      BY <1>8, <1>9
  <2>2. ASSUME NEW n \in 1 .. Cardinality(V)
        PROVE  /\ valid[n] = lines[c + Place(V, n)]
               /\ AcceptedRow(valueOf, valid[n]) = arow[c + Place(V, n)]
    <3>1. Place(V, n) \in V /\ Place(V, n) \in 1 .. len - c
      <4> HIDE DEF V
      <4> QED
        BY <1>6, <1>9
    <3>2. valid[n] = lines[c + Place(V, n)]
      BY <1>3, <1>8, <3>1
    <3>3. c + Place(V, n) \in DOMAIN lines
      BY <1>3, <1>4, <3>1
    <3> QED
      BY <3>2, <3>3 DEF AcceptedRows
  <2>3. ASSUME NEW n \in 1 .. Cardinality(V)
        PROVE  [lineNumber |-> valid[n].lineNumber,
                transaction |-> Stored(Record(valid[n])),
                fingerprint |-> Fingerprint(Record(valid[n])),
                riskLevel |-> LevelOf(n)] = AcceptedRow(valueOf, valid[n])
    <3>1. LevelOf(n) = RiskLevel(Record(valid[n]))
      BY <1>8, LevelsAreTheirs
    <3> HIDE DEF V, valid
    <3> QED
      BY <3>1, ValuesAreRead DEF AcceptedRow
  <2> HIDE DEF V, valid, arow
  <2> QED
    BY <2>1, <2>2, <2>3 DEF AcceptedIn
<1>11. /\ RejectedIn(invalid) = [n \in 1 .. Cardinality(R) |-> rrow[c + Place(R, n)]]
       /\ Len(invalid) = Cardinality(R)
  <2>1. DOMAIN invalid = 1 .. Cardinality(R) /\ Len(invalid) = Cardinality(R)
    <3> HIDE DEF R
    <3> QED
      BY <1>8, <1>9
  <2>2. ASSUME NEW n \in 1 .. Cardinality(R)
        PROVE  /\ invalid[n] = lines[c + Place(R, n)]
               /\ RejectedRow(valueOf, invalid[n]) = rrow[c + Place(R, n)]
    <3>1. Place(R, n) \in R /\ Place(R, n) \in 1 .. len - c
      <4> HIDE DEF R
      <4> QED
        BY <1>6, <1>9
    <3>2. invalid[n] = lines[c + Place(R, n)]
      BY <1>3, <1>8, <3>1
    <3>3. c + Place(R, n) \in DOMAIN lines
      BY <1>3, <1>4, <3>1
    <3> QED
      BY <3>2, <3>3 DEF RejectedRows
  <2>3. ASSUME NEW n \in 1 .. Cardinality(R)
        PROVE  [lineNumber |-> invalid[n].lineNumber, reasonCode |-> ReasonCode(invalid[n])]
                 = RejectedRow(valueOf, invalid[n])
    BY ValuesAreRead DEF RejectedRow
  <2> HIDE DEF R, invalid, rrow
  <2> QED
    BY <2>1, <2>2, <2>3 DEF RejectedIn
<1>12. /\ Listed(AcceptedIn(valid), Behind(c, V), arow)
       /\ Len(AcceptedIn(valid)) = Cardinality(V)
  <2>1. \A k \in V : arow[c + k].lineNumber = c + k
    BY <1>3, <1>5, <1>6
  <2> DEFINE b == len - c
  <2>2. b \in Nat /\ V \in SUBSET (1 .. b)
    BY <1>3, <1>6
  <2> HIDE DEF V, valid, arow, b, c
  <2>3. IsSelected(AcceptedIn(valid), V, arow, c)
    BY <1>10, <2>1 DEF IsSelected
  <2> QED
    BY <1>3, <2>2, <2>3, BatchListing, ZenonT(60)
<1>13. /\ Listed(RejectedIn(invalid), Behind(c, R), rrow)
       /\ Len(RejectedIn(invalid)) = Cardinality(R)
  <2>1. \A k \in R : rrow[c + k].lineNumber = c + k
    BY <1>3, <1>5, <1>6
  <2> DEFINE b == len - c
  <2>2. b \in Nat /\ R \in SUBSET (1 .. b)
    BY <1>3, <1>6
  <2> HIDE DEF R, invalid, rrow, b, c
  <2>3. IsSelected(RejectedIn(invalid), R, rrow, c)
    BY <1>11, <2>1 DEF IsSelected
  <2> QED
    BY <1>3, <2>2, <2>3, BatchListing, ZenonT(60)
<1>14. /\ Good(valueOf, lines, len) = Good(valueOf, lines, c) \cup Behind(c, V)
       /\ Bad(valueOf, lines, len) = Bad(valueOf, lines, c) \cup Behind(c, R)
  <2>1. \A m \in 1 .. len : m \in 1 .. c \/ (m - c \in DOMAIN Batch /\ m = c + (m - c))
    BY <1>3
  <2>2. \A k \in DOMAIN Batch : /\ c + k \in 1 .. len /\ Batch[k] = lines[c + k]
                                /\ k \in V <=> c + k \in Good(valueOf, lines, len)
                                /\ k \in R <=> c + k \in Bad(valueOf, lines, len)
    BY <1>3, ValuesAreRead DEF Good, Bad, Accepts, Rejects
  <2>3. \A m \in 1 .. c : /\ m \in 1 .. len
                          /\ m \in Good(valueOf, lines, len) <=> m \in Good(valueOf, lines, c)
                          /\ m \in Bad(valueOf, lines, len) <=> m \in Bad(valueOf, lines, c)
    BY <1>1, <1>3 DEF Good, Bad
  <2>4. /\ Good(valueOf, lines, len) \subseteq 1 .. len /\ Good(valueOf, lines, c) \subseteq 1 .. c
        /\ Bad(valueOf, lines, len) \subseteq 1 .. len /\ Bad(valueOf, lines, c) \subseteq 1 .. c
        /\ V \subseteq DOMAIN Batch /\ R \subseteq DOMAIN Batch
    BY DEF Good, Bad, Accepts, Rejects
  <2> HIDE DEF V, R, len, c
  <2> QED
    BY <2>1, <2>2, <2>3, <2>4 DEF Behind
<1>15. /\ Listed(accepted', Good(valueOf, lines, len), arow)
       /\ Len(accepted') = Len(accepted) + Cardinality(V)
  <2> DEFINE Q == Behind(c, V)
  <2>1. /\ Good(valueOf, lines, c) \in SUBSET (1 .. c) /\ Q \in SUBSET Nat
        /\ \A k \in Q : c < k
        /\ \A k \in Good(valueOf, lines, c) \cup Q : arow[k].lineNumber = k
    BY <1>1, <1>3, <1>5, <1>6 DEF Good, Behind
  <2> HIDE DEF V, valid, arow, Q, c, len
  <2>2. Listed(AcceptedIn(valid), Q, arow)
    BY <1>12 DEF Q
  <2>3. /\ Listed(accepted \o AcceptedIn(valid), Good(valueOf, lines, c) \cup Q, arow)
        /\ Len(accepted \o AcceptedIn(valid)) = Len(accepted) + Len(AcceptedIn(valid))
    BY <1>1, <1>3, <2>1, <2>2, JoinedListing
  <2> QED
    BY <1>2, <1>12, <1>14, <2>3 DEF Q
<1>16. /\ Listed(rejected', Bad(valueOf, lines, len), rrow)
       /\ Len(rejected') = Len(rejected) + Cardinality(R)
  <2> DEFINE Q == Behind(c, R)
  <2>1. /\ Bad(valueOf, lines, c) \in SUBSET (1 .. c) /\ Q \in SUBSET Nat
        /\ \A k \in Q : c < k
        /\ \A k \in Bad(valueOf, lines, c) \cup Q : rrow[k].lineNumber = k
    BY <1>1, <1>3, <1>5, <1>6 DEF Bad, Behind
  <2> HIDE DEF R, invalid, rrow, Q, c, len
  <2>2. Listed(RejectedIn(invalid), Q, rrow)
    BY <1>13 DEF Q
  <2>3. /\ Listed(rejected \o RejectedIn(invalid), Bad(valueOf, lines, c) \cup Q, rrow)
        /\ Len(rejected \o RejectedIn(invalid)) = Len(rejected) + Len(RejectedIn(invalid))
    BY <1>1, <1>3, <2>1, <2>2, JoinedListing
  <2> QED
    BY <1>2, <1>13, <1>14, <2>3 DEF Q
<1>17. processed' = Len(accepted') + Len(rejected')
  <2>1. Len(accepted) \in Nat /\ Len(rejected) \in Nat
    BY <1>1, LenProperties DEF Listed
  <2> HIDE DEF V, R, valid, invalid
  <2> QED
    BY <1>1, <1>2, <1>9, <1>10, <1>11, <1>15, <1>16, <2>1
<1>18. ParseInv'
  BY <1>1, <1>2, ParseStep
<1>19. lines' = lines /\ valueOf' = valueOf /\ pc' = pc
  BY <1>2 DEF vars
<1> HIDE DEF V, R, valid, invalid
<1> QED
  BY <1>1, <1>2, <1>3, <1>15, <1>16, <1>17, <1>18, <1>19 DEF ScreenedInv

\* The parser's steps leave the lines of the committed batches as they are.
LEMMA ParseKeepsLines ==
  ASSUME ScreenedInv, Parse
  PROVE  /\ lines' = lines \/ \E l : lines' = Append(lines, l)
         /\ pc # "done"
BY DEF Parse, ReadChunk, YieldLine, YieldOversized, AwaitMore, EndOfStream, YieldRest, Yield

LEMMA SameRows ==
  ASSUME ScreenedInv, NEW ls, committed <= Len(ls), Len(ls) \in Nat, DOMAIN ls = 1 .. Len(ls),
         \A k \in 1 .. committed : ls[k] = lines[k]
  PROVE  /\ committed \in 0 .. Len(ls)
         /\ Listed(accepted, Good(valueOf, ls, committed), AcceptedRows(valueOf, ls))
         /\ Listed(rejected, Bad(valueOf, ls, committed), RejectedRows(valueOf, ls))
<1>1. /\ committed \in Nat /\ committed <= Len(lines) /\ Len(lines) \in Nat
      /\ DOMAIN lines = 1 .. Len(lines)
  BY RowsHaveTheirNumbers DEF ScreenedInv
<1>2. /\ Good(valueOf, ls, committed) = Good(valueOf, lines, committed)
      /\ Bad(valueOf, ls, committed) = Bad(valueOf, lines, committed)
  BY DEF Good, Bad
<1>3. \A k \in 1 .. committed : /\ AcceptedRows(valueOf, ls)[k] = AcceptedRows(valueOf, lines)[k]
                                /\ RejectedRows(valueOf, ls)[k] = RejectedRows(valueOf, lines)[k]
  <2>1. \A k \in 1 .. committed : k \in DOMAIN ls /\ k \in DOMAIN lines
    BY <1>1
  <2> QED
    BY <2>1 DEF AcceptedRows, RejectedRows
<1>4. /\ Good(valueOf, lines, committed) \subseteq 1 .. committed
      /\ Bad(valueOf, lines, committed) \subseteq 1 .. committed
  BY DEF Good, Bad
<1>5. Listed(accepted, Good(valueOf, lines, committed), AcceptedRows(valueOf, ls))
  BY <1>3, <1>4, SameListing DEF ScreenedInv
<1>6. Listed(rejected, Bad(valueOf, lines, committed), RejectedRows(valueOf, ls))
  BY <1>3, <1>4, SameListing DEF ScreenedInv
<1> QED
  BY <1>1, <1>2, <1>5, <1>6

LEMMA ScreenedStep == ScreenedInv /\ [IntakeNext]_allVars => ScreenedInv'
<1> SUFFICES ASSUME ScreenedInv, [IntakeNext]_allVars PROVE ScreenedInv'
  OBVIOUS
<1>1. ParseInv' /\ ParseInv
  BY LoopStep, ParseStep DEF ScreenedInv
<1>2. /\ Len(lines) \in Nat /\ DOMAIN lines = 1 .. Len(lines) /\ lines \in Seq(Line(file))
      /\ committed \in 0 .. Len(lines)
  BY RowsHaveTheirNumbers DEF ScreenedInv, ParseInv, AreLines
<1>3. ASSUME UNCHANGED intakeVars, outcome # "completed", NEW ls, lines' = ls,
             committed <= Len(ls), Len(ls) \in Nat, DOMAIN ls = 1 .. Len(ls),
             \A k \in 1 .. committed : ls[k] = lines[k]
      PROVE  ScreenedInv'
  <2>1. /\ committed \in 0 .. Len(ls)
        /\ Listed(accepted, Good(valueOf, ls, committed), AcceptedRows(valueOf, ls))
        /\ Listed(rejected, Bad(valueOf, ls, committed), RejectedRows(valueOf, ls))
    BY <1>3, SameRows
  <2> QED
    BY <1>1, <1>3, <2>1 DEF ScreenedInv, intakeVars
<1>4. CASE Parse
  <2>1. UNCHANGED intakeVars /\ outcome # "completed"
    BY <1>4 DEF Parse
  <2>2. CASE lines' = lines
    BY <1>2, <1>3, <2>1, <2>2
  <2>3. CASE \E l : lines' = Append(lines, l)
    <3>1. PICK l : lines' = Append(lines, l)
      BY <2>3
    <3> DEFINE ls == Append(lines, l)
               T == Line(file) \cup {l}
    <3>2. lines \in Seq(T)
      <4>1. Line(file) \subseteq T
        OBVIOUS
      <4> HIDE DEF T
      <4> QED
        BY <1>2, <4>1, SeqMonotonic
    <3>3. l \in T
      OBVIOUS
    <3> HIDE DEF T
    <3>4. /\ ls \in Seq(T) /\ Len(ls) = Len(lines) + 1
          /\ \A k \in 1 .. Len(lines) : ls[k] = lines[k]
      BY <3>2, <3>3, AppendProperties
    <3> HIDE DEF ls
    <3>5. Len(ls) \in Nat /\ DOMAIN ls = 1 .. Len(ls)
      BY <3>4, LenProperties
    <3> QED
      BY <1>2, <1>3, <2>1, <3>1, <3>4, <3>5 DEF ls
  <2> QED
    BY <1>4, <2>2, <2>3, ParseKeepsLines
<1>5. CASE Restart
  <2>1. /\ UNCHANGED intakeVars /\ outcome # "completed"
        /\ lines' = SubSeq(lines, 1, committed)
    BY <1>5 DEF Restart, ResumeAt
  <2> DEFINE ls == SubSeq(lines, 1, committed)
  <2>2. /\ Len(ls) = committed /\ \A k \in 1 .. committed : ls[k] = lines[k]
        /\ AreLines(file, ls)
    BY <1>1, <1>2, FewerLines DEF ParseInv, TypeOK
  <2>3. DOMAIN ls = 1 .. Len(ls) /\ Len(ls) \in Nat
    <3> HIDE DEF ls
    <3> QED
      BY <2>2, LenProperties DEF AreLines
  <2> HIDE DEF ls
  <2> QED
    BY <1>2, <1>3, <2>1, <2>2, <2>3 DEF ls
<1>6. CASE Flush /\ Commit
  BY <1>6, CommitStep
<1>7. CASE Flush /\ Fail
  BY <1>1, <1>7 DEF Flush, Fail, ScreenedInv, vars
<1>8. CASE Complete
  <2>1. Len(Batch) = Len(lines) - committed /\ Len(Batch) = 0
    BY <1>8, BatchIsTheRest, NothingInIt DEF Complete
  <2>2. committed \in Int /\ Len(lines) \in Int
    BY <1>2
  <2>3. committed = Len(lines)
    BY <2>1, <2>2
  <2> QED
    BY <1>1, <1>8, <2>3 DEF Complete, ScreenedInv, vars
<1>9. CASE UNCHANGED allVars
  BY <1>1, <1>9 DEF ScreenedInv, allVars, vars, intakeVars
<1> QED
  BY <1>4, <1>5, <1>6, <1>7, <1>8, <1>9 DEF IntakeNext, Flush

LEMMA ScreenedIsInductive == IntakeSpec => []ScreenedInv
BY ScreenedInit, ScreenedStep, PTL DEF IntakeSpec

\* The parser under the loop of ImportProcessor.process, which is restarted
\* behind the last committed batch, is the parser that may be restarted behind
\* any line: what is proved of that one holds in the loop.
THEOREM IntakeParses == IntakeSpec => Spec
<1>1. IntakeInit => Init
  BY DEF IntakeInit
<1>2. ScreenedInv /\ [IntakeNext]_allVars => [Next]_vars
  BY LoopStep DEF ScreenedInv
<1> QED
  BY <1>1, <1>2, ScreenedIsInductive, PTL DEF IntakeSpec, Spec

\* No byte is lost or parsed twice, whatever the batches and the restarts.
THEOREM NoByteIsLost == IntakeSpec => []NoByteLost
BY IntakeParses, EveryByteIsInOneLine, PTL

\* Nor is a short line cut, joined or misnumbered.
THEOREM LinesAreIntact == IntakeSpec => []LinesAreTheFiles
BY IntakeParses, ShortLinesAreKept, PTL

------------------------------------------------------------------------------
\* What the invariant says of the results.

Numbered(P, row) == \A k \in P : row[k].lineNumber = k

LEMMA ListedNumbers ==
  ASSUME NEW s, NEW P, NEW row, Listed(s, P, row), Numbered(P, row)
  PROVE  /\ Len(s) \in Nat /\ DOMAIN s = 1 .. Len(s)
         /\ \A i \in DOMAIN s : s[i].lineNumber \in P /\ s[i] = row[s[i].lineNumber]
         /\ DOMAIN LineNumbers(s) = DOMAIN s
         /\ Ascending(LineNumbers(s))
         /\ Elements(LineNumbers(s)) = P
<1> USE DEF Numbered
<1>1. Len(s) \in Nat /\ DOMAIN s = 1 .. Len(s)
  BY LenProperties DEF Listed
<1>2. \A i \in DOMAIN s : s[i] \in {row[k] : k \in P}
  BY <1>1, ElementOfSeq DEF Listed
<1>3. \A i \in DOMAIN s : s[i].lineNumber \in P /\ s[i] = row[s[i].lineNumber]
  BY <1>2
<1>4. DOMAIN LineNumbers(s) = DOMAIN s /\ \A i \in DOMAIN s : LineNumbers(s)[i] = s[i].lineNumber
  BY DEF LineNumbers
<1>5. Ascending(LineNumbers(s))
  BY <1>4 DEF Ascending, Listed
<1>6. Elements(LineNumbers(s)) = P
  <2>1. \A k \in P : \E i \in DOMAIN s : LineNumbers(s)[i] = k
    BY <1>4 DEF Listed
  <2> QED
    BY <1>3, <1>4, <2>1 DEF Elements
<1> QED
  BY <1>1, <1>3, <1>4, <1>5, <1>6

LEMMA ScreenedLists ==
  ASSUME ScreenedInv
  PROVE  /\ Good(valueOf, lines, committed) \subseteq 1 .. Len(lines)
         /\ Numbered(Good(valueOf, lines, committed), AcceptedRows(valueOf, lines))
         /\ Bad(valueOf, lines, committed) \subseteq 1 .. Len(lines)
         /\ Numbered(Bad(valueOf, lines, committed), RejectedRows(valueOf, lines))
<1>1. /\ committed \in 0 .. Len(lines) /\ Len(lines) \in Nat
      /\ \A k \in 1 .. Len(lines) : /\ AcceptedRows(valueOf, lines)[k].lineNumber = k
                                    /\ RejectedRows(valueOf, lines)[k].lineNumber = k
  BY RowsHaveTheirNumbers DEF ScreenedInv
<1>2. /\ Good(valueOf, lines, committed) \subseteq 1 .. Len(lines)
      /\ Bad(valueOf, lines, committed) \subseteq 1 .. Len(lines)
  BY <1>1 DEF Good, Bad
<1> QED
  BY <1>1, <1>2 DEF Numbered

LEMMA EachScreened == ScreenedInv => ScreenedOnce
<1> SUFFICES ASSUME ScreenedInv PROVE ScreenedOnce
  OBVIOUS
<1> DEFINE a == LineNumbers(accepted)
           r == LineNumbers(rejected)
<1>1. /\ Listed(accepted, Good(valueOf, lines, committed), AcceptedRows(valueOf, lines))
      /\ Listed(rejected, Bad(valueOf, lines, committed), RejectedRows(valueOf, lines))
      /\ committed \in 0 .. Len(lines) /\ ParseInv
      /\ processed = Len(accepted) + Len(rejected)
  BY DEF ScreenedInv
<1>2. /\ Ascending(a) /\ Elements(a) = Good(valueOf, lines, committed)
  BY <1>1, ListedNumbers, ScreenedLists
<1>3. /\ Ascending(r) /\ Elements(r) = Bad(valueOf, lines, committed)
  BY <1>1, ListedNumbers, ScreenedLists
<1>4. /\ Len(lines) \in Nat /\ DOMAIN lines = 1 .. Len(lines)
      /\ \A k \in DOMAIN lines : lines[k].lineNumber = k
  BY <1>1, RowsHaveTheirNumbers DEF ParseInv, AreLines
<1>5. \A m \in 1 .. committed : m \in DOMAIN lines /\ lines[m].lineNumber = m
  BY <1>1, <1>4
<1>6. Elements(a) \cap Elements(r) = {}
  BY <1>2, <1>3 DEF Good, Bad
<1>7. Elements(a) \cup Elements(r) = {m \in 1 .. committed : Tokens(lines[m].raw) # {}}
  BY <1>2, <1>3 DEF Good, Bad, IsBlank
<1>8. {m \in 1 .. committed : Tokens(lines[m].raw) # {}}
        = {lines[k].lineNumber : k \in {m \in 1 .. committed : Tokens(lines[m].raw) # {}}}
  BY <1>5
<1> QED
  BY <1>1, <1>2, <1>3, <1>6, <1>7, <1>8 DEF ScreenedOnce

\* Every line of the committed batches that is not blank is accepted or rejected
\* once, under its own number, and counted in processedCount.
THEOREM EachLineIsScreenedOnce == IntakeSpec => []ScreenedOnce
BY ScreenedIsInductive, EachScreened, PTL

LEMMA ListedLength ==
  ASSUME NEW s, NEW P, NEW row, Listed(s, P, row), Numbered(P, row), P \subseteq Nat
  PROVE  IsFiniteSet(P) /\ Cardinality(P) = Len(s)
<1>1. /\ Len(s) \in Nat /\ DOMAIN s = 1 .. Len(s)
      /\ \A i \in DOMAIN s : s[i].lineNumber \in P
      /\ Elements(LineNumbers(s)) = P
  BY ListedNumbers
<1> DEFINE f == [i \in 1 .. Len(s) |-> s[i].lineNumber]
<1>2. f \in [1 .. Len(s) -> P]
  BY <1>1
<1>3. \A i, j \in 1 .. Len(s) : f[i] = f[j] => i = j
  <2> SUFFICES ASSUME NEW i \in 1 .. Len(s), NEW j \in 1 .. Len(s), f[i] = f[j], i # j PROVE FALSE
    OBVIOUS
  <2>1. s[i].lineNumber < s[j].lineNumber \/ s[j].lineNumber < s[i].lineNumber
    BY <1>1 DEF Listed
  <2>2. s[i].lineNumber \in Nat /\ s[j].lineNumber \in Nat
    BY <1>1
  <2> QED
    BY <2>1, <2>2
<1>4. \A k \in P : \E i \in 1 .. Len(s) : f[i] = k
  BY <1>1 DEF Elements, LineNumbers
<1> HIDE DEF f
<1>5. IsFiniteSet(1 .. Len(s)) /\ Cardinality(1 .. Len(s)) = Len(s)
  <2>1. PICK c \in Nat : c = Len(s)
    BY <1>1
  <2>2. IsFiniteSet(1 .. c) /\ Cardinality(1 .. c) = c
    BY FS_Interval
  <2> QED
    BY <2>1, <2>2
<1>6. f \in Surjection(1 .. Len(s), P) /\ f \in Injection(1 .. Len(s), P)
  BY <1>2, <1>3, <1>4 DEF Surjection, Injection, IsInjective
<1> QED
  BY <1>5, <1>6, FS_Surjection

LEMMA IntakeTypes == ScreenedInv => IntakeTypeOK
<1> SUFFICES ASSUME ScreenedInv PROVE IntakeTypeOK
  OBVIOUS
<1> DEFINE good == Good(valueOf, lines, committed)
           bad == Bad(valueOf, lines, committed)
<1>1. /\ Listed(accepted, good, AcceptedRows(valueOf, lines))
      /\ Listed(rejected, bad, RejectedRows(valueOf, lines))
      /\ committed \in 0 .. Len(lines) /\ TypeOK /\ ParseInv
      /\ processed = Len(accepted) + Len(rejected)
  BY DEF ScreenedInv, ParseInv
<1>2. Len(lines) \in Nat /\ DOMAIN lines = 1 .. Len(lines)
  BY <1>1, RowsHaveTheirNumbers
<1>3. Len(lines) <= Len(file) /\ Len(file) \in Nat
  <2>1. file \in Files /\ AreLines(file, lines) /\ Len(file) \in Nat
    BY <1>1, FilesAreSequences DEF ParseInv, TypeOK
  <2>2. Start(lines, Len(lines) + 1) \in 0 .. Len(file) /\ Len(lines) <= Start(lines, Len(lines) + 1)
    BY <2>1, NumbersStayBelow
  <2> QED
    BY <1>2, <2>1, <2>2
<1>4. good \subseteq 1 .. committed /\ bad \subseteq 1 .. committed /\ good \cap bad = {}
  BY DEF Good, Bad
<1>5. /\ IsFiniteSet(good) /\ Cardinality(good) = Len(accepted)
      /\ IsFiniteSet(bad) /\ Cardinality(bad) = Len(rejected)
  <2>1. good \subseteq Nat /\ bad \subseteq Nat
    BY <1>4
  <2> QED
    BY <1>1, <2>1, ListedLength, ScreenedLists
<1>6. Len(accepted) + Len(rejected) <= committed
  <2> HIDE DEF good, bad
  <2>1. IsFiniteSet(1 .. committed) /\ Cardinality(1 .. committed) = committed
    BY <1>1, <1>2, FS_Interval
  <2>2. good \cup bad \in SUBSET (1 .. committed)
    BY <1>4
  <2>3. Cardinality(good \cup bad) <= committed
    BY <2>1, <2>2, FS_Subset
  <2>4. Cardinality(good \cup bad) = Cardinality(good) + Cardinality(bad) - Cardinality(good \cap bad)
    BY <1>5, FS_Union
  <2>5. Cardinality(good \cap bad) = 0
    BY <1>4, FS_EmptySet
  <2>6. Cardinality(good) \in Nat /\ Cardinality(bad) \in Nat
    BY <1>5, FS_CardinalityType
  <2> QED
    BY <1>5, <2>3, <2>4, <2>5, <2>6
<1>7. processed \in 0 .. Len(file)
  <2>1. Len(accepted) \in Nat /\ Len(rejected) \in Nat
    BY <1>1, LenProperties DEF Listed
  <2> QED
    BY <1>1, <1>2, <1>3, <1>6, <2>1
<1>8. \A k \in DOMAIN accepted : accepted[k].riskLevel \in {"low", "medium", "high"}
  <2> SUFFICES ASSUME NEW k \in DOMAIN accepted
               PROVE  accepted[k].riskLevel \in {"low", "medium", "high"}
    OBVIOUS
  <2>1. PICK m \in good : accepted[k] = AcceptedRows(valueOf, lines)[m]
    BY <1>1, ListedNumbers, ScreenedLists
  <2>2. m \in DOMAIN lines
    BY <1>1, <1>2, <1>4
  <2> QED
    BY <2>1, <2>2 DEF AcceptedRows, AcceptedRow, RiskLevel, RiskLevelFor
<1>9. \A k \in DOMAIN rejected : rejected[k].reasonCode \in ReasonCodes
  <2> SUFFICES ASSUME NEW k \in DOMAIN rejected PROVE rejected[k].reasonCode \in ReasonCodes
    OBVIOUS
  <2>1. PICK m \in bad : rejected[k] = RejectedRows(valueOf, lines)[m]
    BY <1>1, ListedNumbers, ScreenedLists
  <2>2. m \in DOMAIN lines
    BY <1>1, <1>2, <1>4
  <2> QED
    BY <2>1, <2>2 DEF RejectedRows, RejectedRow, ReasonIn, ReasonCodes
<1> QED
  BY <1>1, <1>7, <1>8, <1>9 DEF IntakeTypeOK, ScreenedInv

\* The counts stay within the file, every stored transaction has a level and
\* every rejection a reason code.
THEOREM IntakeTyped == IntakeSpec => []IntakeTypeOK
BY ScreenedIsInductive, IntakeTypes, PTL

------------------------------------------------------------------------------
\* What fails an import.

\* The text of a line that is not blank is a piece of the file.
LEMMA RawIsPiece ==
  ASSUME ParseInv, NEW k \in DOMAIN lines, Tokens(lines[k].raw) # {}
  PROVE  \E a, b \in DOMAIN file :
           /\ lines[k].raw = SubSeq(file, a, b)
           /\ \A j \in DOMAIN lines[k].raw : a + j - 1 \in DOMAIN file
                                              /\ lines[k].raw[j] = file[a + j - 1]
<1> DEFINE raw == lines[k].raw
<1>1. PICK j \in DOMAIN raw : TRUE
  BY DEF Tokens
<1>2. /\ file \in Files /\ file \in Seq(Bytes(file)) /\ Len(file) \in Nat
      /\ DOMAIN file = 1 .. Len(file) /\ raw \in Parts(file)
  <2>1. file \in Files /\ lines \in Seq(Line(file))
    BY DEF ParseInv, TypeOK, AreLines
  <2>2. lines[k] \in Line(file)
    BY <2>1, LenProperties, ElementOfSeq
  <2> QED
    BY <2>1, <2>2, FilesAreSequences DEF Line
<1> HIDE DEF raw
<1>3. PICK a \in 1 .. Len(file) + 1, b \in 0 .. Len(file) : raw = SubSeq(file, a, b)
  BY <1>2, PartsAre
<1>4. /\ DOMAIN raw = 1 .. Len(raw)
      /\ \A m \in 1 .. b - a + 1 : raw[m] = file[a + m - 1]
      /\ Len(raw) = IF a <= b THEN b - a + 1 ELSE 0
  <2>1. a \in Int /\ b \in Int /\ \A m \in a .. b : file[m] \in Bytes(file)
    BY <1>2, <1>3 DEF Bytes
  <2>2. /\ SubSeq(file, a, b) \in Seq(Bytes(file))
        /\ Len(SubSeq(file, a, b)) = IF a <= b THEN b - a + 1 ELSE 0
        /\ \A m \in 1 .. b - a + 1 : SubSeq(file, a, b)[m] = file[a + m - 1]
    BY <2>1, SubSeqProperties
  <2> QED
    BY <1>3, <2>2, LenProperties
<1>5. a <= b
  BY <1>1, <1>3, <1>4
<1>6. a \in DOMAIN file /\ b \in DOMAIN file
  BY <1>2, <1>3, <1>5
<1>7. \A m \in DOMAIN raw : a + m - 1 \in DOMAIN file /\ raw[m] = file[a + m - 1]
  BY <1>2, <1>3, <1>4, <1>5
<1> QED
  BY <1>3, <1>6, <1>7 DEF raw

LEMMA OneToken ==
  ASSUME ParseInv, TextsAreClean, valueOf \in Valuations, NEW k \in DOMAIN lines,
         ValueIn(valueOf, lines[k]) # NotJson
  PROVE  \E n \in DOMAIN file : /\ file[n] \notin {NL, CR} /\ file[n] \in DOMAIN valueOf
                                /\ ValueIn(valueOf, lines[k]) = valueOf[file[n]]
<1> DEFINE raw == lines[k].raw
           token == CHOOSE m \in Tokens(raw) : TRUE
<1>1. Cardinality(Tokens(raw)) = 1 /\ ValueIn(valueOf, lines[k]) = valueOf[raw[token]]
  BY DEF ValueIn
<1>2. Tokens(raw) # {}
  BY <1>1, FS_EmptySet
<1>3. token \in DOMAIN raw /\ raw[token] # CR
  BY <1>2 DEF Tokens
<1>4. raw[token] # NL
  BY <1>3 DEF TextsAreClean, Newlines
<1> HIDE DEF token
<1>5. PICK n \in DOMAIN file : raw[token] = file[n]
  BY <1>2, <1>3, RawIsPiece
<1>6. file[n] \in DOMAIN valueOf
  <2>1. file \in Files
    BY DEF ParseInv, TypeOK
  <2> QED
    BY <1>3, <1>4, <1>5, <2>1, IntakeAssumption
<1> QED
  BY <1>1, <1>3, <1>4, <1>5, <1>6

\* What no rejection reports, of a value and of a text.
IsFatal(v) ==
  LET t == NormalizeRecord(v)
      valid == v.type = "object" /\ Satisfies(t)
  IN \/ v.type = "object" /\ v.description.type \in {"number", "boolean", "object"}
     \/ ~valid /\ v.refused
     \/ valid /\ (Overflows(t) \/ IsDubious(t))

LEMMA FatalStep ==
  ScreenedInv /\ TextsAreClean /\ FatalRecordsAreKnown /\ [IntakeNext]_allVars
    => FatalRecordsAreKnown'
<1> SUFFICES ASSUME ScreenedInv, TextsAreClean, FatalRecordsAreKnown, [IntakeNext]_allVars
             PROVE  FatalRecordsAreKnown'
  OBVIOUS
<1>1. valueOf' = valueOf /\ file' = file
  BY DEF IntakeNext, Parse, Flush, Complete, Restart, intakeVars, allVars, vars,
         ReadChunk, YieldLine, YieldOversized, AwaitMore, EndOfStream
<1>2. CASE outcome' # "failed" \/ outcome = "failed"
  BY <1>1, <1>2 DEF FatalRecordsAreKnown
<1>3. CASE outcome' = "failed" /\ outcome # "failed"
  <2>1. BatchThrows \/ Unstorable \/ Dubious
    BY <1>3 DEF IntakeNext, Parse, Flush, Commit, Complete, Restart, intakeVars, allVars
  <2>2. PICK k \in DOMAIN Batch :
          /\ ~IsBlank(Batch[k])
          /\ \/ Parsed(Batch[k].raw) # NotJson /\ IsFatal(Parsed(Batch[k].raw))
             \/ Batch[k].raw \in RefusedTexts
    <3>1. NotJson.type = "not JSON"
      BY DEF NotJson
    <3>2. CASE BatchThrows
      BY <3>1, <3>2 DEF BatchThrows, Throws, IsObject, IsFatal
    <3>3. CASE \E k \in Rejects : IsRefused(Batch[k])
      BY <3>3 DEF Rejects, IsRejected, IsValid, IsObject, Record, IsRefused, IsFatal
    <3>4. CASE \E k \in Accepts : Overflows(Record(Batch[k])) \/ IsDubious(Record(Batch[k]))
      BY <3>1, <3>4 DEF Accepts, IsValid, IsObject, Record, IsFatal
    <3> QED
      BY <2>1, <3>2, <3>3, <3>4 DEF Unstorable, Dubious
  <2> DEFINE m == committed + k
  <2>3. m \in DOMAIN lines /\ Batch[k] = lines[m]
    <3>1. committed \in 0 .. Len(lines) /\ DOMAIN lines = 1 .. Len(lines)
      BY RowsHaveTheirNumbers DEF ScreenedInv
    <3> QED
      BY <3>1, BatchIsTheRest
  <2> DEFINE v == ValueIn(valueOf, lines[m])
  <2>4. Parsed(Batch[k].raw) = v
    BY <2>3, ValuesAreRead
  <2>5. CASE v # NotJson /\ IsFatal(v)
    <3>1. PICK n \in DOMAIN file : file[n] \in DOMAIN valueOf /\ v = valueOf[file[n]]
      <4> HIDE DEF m
      <4> QED
        BY <2>3, <2>5, OneToken DEF ScreenedInv
    <3> HIDE DEF v
    <3> QED
      BY <1>1, <2>5, <3>1 DEF FatalRecordsAreKnown, IsFatal
  <2>6. CASE lines[m].raw \in RefusedTexts
    <3>1. Tokens(lines[m].raw) # {}
      BY <2>2, <2>3 DEF IsBlank
    <3> HIDE DEF m
    <3>2. PICK a \in DOMAIN file, b \in DOMAIN file : lines[m].raw = SubSeq(file, a, b)
      BY <2>3, <3>1, RawIsPiece DEF ScreenedInv
    <3> QED
      BY <1>1, <2>6, <3>2 DEF FatalRecordsAreKnown
  <2> QED
    BY <2>2, <2>3, <2>4, <2>5, <2>6
<1> QED
  BY <1>2, <1>3

\* An import fails for no other lines than those that no rejection reports:
\* records that throw, what is rejected and refused by the column, be it a record,
\* another value or no JSON at all, and valid records that the table may refuse.
THEOREM NothingElseIsFatal == IntakeSpec => []FatalRecordsAreKnown
<1>1. IntakeInit => ScreenedInv /\ TextsAreClean /\ FatalRecordsAreKnown
  BY ScreenedInit, CleanInit DEF IntakeInit, FatalRecordsAreKnown
<1>2. /\ ScreenedInv /\ TextsAreClean /\ FatalRecordsAreKnown /\ [IntakeNext]_allVars
      => (ScreenedInv /\ TextsAreClean /\ FatalRecordsAreKnown)'
  BY ScreenedStep, FatalStep, LoopStep, CleanStep DEF ScreenedInv
<1> QED
  BY <1>1, <1>2, PTL DEF IntakeSpec

------------------------------------------------------------------------------
\* Normalizing what is normalized.

IsTrimmed(s) == s # <<>> => s[1] # Space /\ s[Len(s)] # Space

LEMMA GreatestNumber ==
  ASSUME NEW n \in Nat, NEW S \in SUBSET (1 .. n), S # {}
  PROVE  \E k \in S : \A m \in S : m <= k
<1> DEFINE T == {n - k : k \in S}
<1>1. T \in SUBSET Nat /\ T # {}
  <2>1. \A k \in S : n - k \in Nat
    OBVIOUS
  <2> QED
    BY <2>1
<1> HIDE DEF T
<1>2. PICK t \in T : \A u \in T : t <= u
  BY <1>1, LeastNumber
<1> USE DEF T
<1>3. PICK k \in S : t = n - k
  OBVIOUS
<1>4. \A m \in S : m <= k
  <2> SUFFICES ASSUME NEW m \in S PROVE m <= k
    OBVIOUS
  <2>1. n - k <= n - m
    BY <1>2, <1>3
  <2> QED
    BY <2>1
<1> QED
  BY <1>4

LEMMA TrimTrims ==
  ASSUME NEW S, NEW s \in Seq(S)
  PROVE  /\ Trim(s) \in Seq(S) /\ IsTrimmed(Trim(s))
         /\ \A k \in DOMAIN Trim(s) : \E j \in DOMAIN s : Trim(s)[k] = s[j]
<1> DEFINE solid == {k \in DOMAIN s : s[k] # Space}
           a == CHOOSE k \in solid : \A m \in solid : k <= m
           b == CHOOSE k \in solid : \A m \in solid : m <= k
<1>1. Len(s) \in Nat /\ DOMAIN s = 1 .. Len(s)
  BY LenProperties
<1>2. CASE solid = {}
  <2>1. Trim(s) = <<>>
    BY <1>2 DEF Trim
  <2> QED
    BY <2>1, EmptySeq DEF IsTrimmed
<1>3. CASE solid # {}
  <2>1. solid \in SUBSET (1 .. Len(s)) /\ solid \in SUBSET Nat
    BY <1>1
  <2>2. a \in solid
    <3> HIDE DEF solid
    <3>1. \E k \in solid : \A m \in solid : k <= m
      BY <1>3, <2>1, LeastNumber
    <3> QED
      BY <3>1
  <2>3. b \in solid /\ \A m \in solid : m <= b
    <3> HIDE DEF solid
    <3>1. \E k \in solid : \A m \in solid : m <= k
      BY <1>1, <1>3, <2>1, GreatestNumber
    <3> QED
      BY <3>1
  <2>4. a \in 1 .. Len(s) /\ b \in 1 .. Len(s) /\ a <= b /\ s[a] # Space /\ s[b] # Space
    BY <1>1, <2>2, <2>3
  <2>5. Trim(s) = SubSeq(s, a, b)
    BY <1>3 DEF Trim
  <2> HIDE DEF a, b, solid
  <2>6. a - 1 \in Nat /\ b \in Nat /\ a - 1 <= b /\ b <= Len(s) /\ a - 1 + 1 = a
    BY <1>1, <2>4
  <2>7. PICK c \in Nat : c = a - 1
    BY <2>6
  <2>8. /\ SubSeq(s, c + 1, b) \in Seq(S)
        /\ Len(SubSeq(s, c + 1, b)) = b - c
        /\ \A k \in 1 .. b - c : SubSeq(s, c + 1, b)[k] = s[c + k]
    BY <2>6, <2>7, Piece
  <2>9. /\ Trim(s) \in Seq(S) /\ Len(Trim(s)) = b - c
        /\ \A k \in 1 .. b - c : Trim(s)[k] = s[c + k]
    BY <2>5, <2>6, <2>7, <2>8
  <2>10. DOMAIN Trim(s) = 1 .. b - c
    BY <2>9, LenProperties
  <2>11. Trim(s)[1] = s[a] /\ Trim(s)[Len(Trim(s))] = s[b]
    BY <2>4, <2>7, <2>9
  <2>12. \A k \in DOMAIN Trim(s) : c + k \in DOMAIN s /\ Trim(s)[k] = s[c + k]
    BY <1>1, <2>6, <2>7, <2>9, <2>10
  <2> QED
    BY <2>4, <2>9, <2>11, <2>12 DEF IsTrimmed
<1> QED
  BY <1>2, <1>3

LEMMA TrimmedIsKept ==
  ASSUME NEW S, NEW s \in Seq(S), IsTrimmed(s)
  PROVE  Trim(s) = s
<1> DEFINE solid == {k \in DOMAIN s : s[k] # Space}
<1>1. Len(s) \in Nat /\ DOMAIN s = 1 .. Len(s)
  BY LenProperties
<1>2. CASE s = <<>>
  <2>1. solid = {}
    BY <1>2
  <2> QED
    BY <1>2, <2>1 DEF Trim
<1>3. CASE s # <<>>
  <2>1. 1 \in solid /\ Len(s) \in solid
    BY <1>1, <1>3, EmptySeq DEF IsTrimmed
  <2>2. \A k \in solid : k \in Nat /\ 1 <= k /\ k <= Len(s)
    BY <1>1
  <2>3. /\ (CHOOSE k \in solid : \A m \in solid : k <= m) = 1
        /\ (CHOOSE k \in solid : \A m \in solid : m <= k) = Len(s)
    <3> HIDE DEF solid
    <3>1. \A k \in solid : (\A m \in solid : k <= m) => k = 1
      BY <2>1, <2>2
    <3>2. \A k \in solid : (\A m \in solid : m <= k) => k = Len(s)
      BY <1>1, <2>1, <2>2
    <3>3. (\A m \in solid : 1 <= m) /\ \A m \in solid : m <= Len(s)
      BY <2>2
    <3> QED
      BY <2>1, <3>1, <3>2, <3>3
  <2>4. Trim(s) = SubSeq(s, 1, Len(s))
    BY <2>1, <2>3 DEF Trim
  <2> QED
    BY <2>4, SubSeqFull
<1> QED
  BY <1>2, <1>3

AllPrintable(s) == \A k \in DOMAIN s : s[k] \notin {Control, Nul}

LEMMA PrintableIsPrintable ==
  ASSUME NEW S, NEW s \in Seq(S)
  PROVE  Printable(s) \in Seq(S) /\ AllPrintable(Printable(s))
<1> DEFINE P == {k \in DOMAIN s : s[k] \notin {Control, Nul}}
<1>1. Len(s) \in Nat /\ DOMAIN s = 1 .. Len(s) /\ \A k \in 1 .. Len(s) : s[k] \in S
  BY LenProperties, ElementOfSeq
<1>2. P \in SUBSET (1 .. Len(s)) /\ \A k \in P : s[k] \in S /\ s[k] \notin {Control, Nul}
  BY <1>1
<1>3. Printable(s) = [n \in 1 .. Cardinality(P) |-> s[Place(P, n)]]
  BY SelectedAt DEF Printable
<1> HIDE DEF P
<1>4. P \in SUBSET Nat /\ IsFiniteSet(P)
  <2>1. IsFiniteSet(1 .. Len(s))
    BY <1>1, FS_Interval
  <2>2. IsFiniteSet(P)
    BY <1>2, <2>1, FS_Subset
  <2> QED
    BY <1>2, <2>2
<1>5. Cardinality(P) \in Nat /\ \A n \in 1 .. Cardinality(P) : Place(P, n) \in P
  BY <1>4, Places
<1>6. Printable(s) \in [1 .. Cardinality(P) -> S]
  BY <1>2, <1>3, <1>5
<1>7. Printable(s) \in Seq(S)
  BY <1>5, <1>6
<1>8. \A n \in DOMAIN Printable(s) : Printable(s)[n] \notin {Control, Nul}
  BY <1>2, <1>3, <1>5
<1> QED
  BY <1>7, <1>8 DEF AllPrintable

LEMMA PrintableIsKept ==
  ASSUME NEW S, NEW s \in Seq(S), AllPrintable(s)
  PROVE  Printable(s) = s
<1>1. PICK c \in Nat : c = Len(s) /\ DOMAIN s = 1 .. c
  BY LenProperties
<1>2. {k \in DOMAIN s : s[k] \notin {Control, Nul}} = 1 .. c
  BY <1>1 DEF AllPrintable
<1>3. IsFiniteSet(1 .. c) /\ Cardinality(1 .. c) = c
  BY FS_Interval
<1>4. Printable(s) = [n \in 1 .. c |-> s[Place(1 .. c, n)]]
  BY <1>2, <1>3, SelectedAt DEF Printable
<1>5. \A n \in 1 .. c : Place(1 .. c, n) = n
  <2> SUFFICES ASSUME NEW n \in 1 .. c PROVE Place(1 .. c, n) = n
    OBVIOUS
  <2>1. {m \in 1 .. c : m <= n} = 1 .. n
    OBVIOUS
  <2>2. n \in Nat /\ Cardinality(1 .. n) = n
    BY FS_Interval
  <2>3. Rank(1 .. c, n) = n
    BY <2>1, <2>2 DEF Rank
  <2> HIDE DEF Rank
  <2>4. \A k \in 1 .. c : Place(1 .. c, Rank(1 .. c, k)) = k
    BY <1>3, Places
  <2> QED
    BY <2>3, <2>4
<1>6. Printable(s) = [n \in 1 .. c |-> s[n]]
  BY <1>4, <1>5
<1>7. s = [n \in 1 .. Len(s) |-> s[n]]
  BY <1>1, LenProperties
<1> QED
  BY <1>1, <1>6, <1>7

\* A text in the sense of the assumptions.
IsFiniteText(v) == IsText(v) => v.text \in Seq({v.text[k] : k \in DOMAIN v.text})

LEMMA Sanitized ==
  ASSUME NEW v, IsFiniteText(v)
  PROVE  SanitizeString(SanitizeString(v)) = SanitizeString(v)
<1>1. CASE ~IsText(v)
  BY <1>1 DEF SanitizeString
<1>2. CASE IsText(v)
  <2> DEFINE S == {v.text[k] : k \in DOMAIN v.text}
             p == Printable(v.text)
             t == Trim(p)
  <2>1. v.text \in Seq(S)
    BY <1>2 DEF IsFiniteText
  <2> HIDE DEF S
  <2>2. p \in Seq(S) /\ AllPrintable(p)
    BY <2>1, PrintableIsPrintable
  <2> HIDE DEF p
  <2>3. t \in Seq(S) /\ IsTrimmed(t) /\ \A k \in DOMAIN t : \E j \in DOMAIN p : t[k] = p[j]
    BY <2>2, TrimTrims
  <2> HIDE DEF t
  <2>4. AllPrintable(t)
    BY <2>2, <2>3 DEF AllPrintable
  <2>5. Printable(t) = t /\ Trim(t) = t
    BY <2>3, <2>4, PrintableIsKept, TrimmedIsKept
  <2>6. SanitizeString(v) = Text(t)
    BY <1>2 DEF SanitizeString, t, p
  <2>7. SanitizeString(Text(t)) = Text(t)
    BY <2>5 DEF SanitizeString, IsText, Text
  <2> QED
    BY <2>6, <2>7
<1> QED
  BY <1>1, <1>2

LEMMA CurrencyNormalized ==
  ASSUME NEW v, IsFiniteText(v)
  PROVE  NormalizeCurrency(NormalizeCurrency(v)) = NormalizeCurrency(v)
<1>1. CASE ~IsText(v)
  BY <1>1 DEF NormalizeCurrency
<1>2. CASE IsText(v)
  <2> DEFINE S == {v.text[k] : k \in DOMAIN v.text}
             up(w) == IF w \in DOMAIN UpperCase THEN UpperCase[w] ELSE w
             t == Trim(v.text)
             u == [k \in DOMAIN t |-> up(t[k])]
             R == {up(w) : w \in S}
  <2>1. v.text \in Seq(S)
    BY <1>2 DEF IsFiniteText
  <2>2. t \in Seq(S) /\ IsTrimmed(t)
    <3> HIDE DEF S
    <3> QED
      BY <2>1, TrimTrims
  <2>3. Len(t) \in Nat /\ DOMAIN t = 1 .. Len(t) /\ \A k \in 1 .. Len(t) : t[k] \in S
    <3> HIDE DEF S, t
    <3> QED
      BY <2>2, LenProperties, ElementOfSeq
  <2>4. \A w : /\ up(w) \notin DOMAIN UpperCase
               /\ w # Space => up(w) # Space
    BY RulesAssumption
  <2> HIDE DEF up, S, t
  <2>5. u \in [1 .. Len(t) -> R]
    BY <2>3
  <2>6. u \in Seq(R) /\ Len(u) = Len(t) /\ DOMAIN u = 1 .. Len(t)
    <3>1. u \in Seq(R) /\ DOMAIN u = 1 .. Len(t)
      BY <2>3, <2>5
    <3> HIDE DEF u, R
    <3> QED
      BY <2>3, <3>1, LenProperties
  <2>7. IsTrimmed(u)
    <3>1. CASE t = <<>>
      <4>1. Len(t) = 0
        BY <3>1, NothingInIt
      <4>2. Len(u) = 0
        BY <2>6, <4>1
      <4> HIDE DEF u, R
      <4>3. u = <<>>
        BY <2>6, <4>2, EmptySeq
      <4> QED
        BY <4>3 DEF IsTrimmed
    <3>2. CASE t # <<>>
      <4>1. Len(t) # 0
        BY <2>2, <3>2, EmptySeq
      <4>2. 1 \in DOMAIN t /\ Len(t) \in DOMAIN t
        BY <2>3, <4>1
      <4>3. u[1] # Space /\ u[Len(u)] # Space
        BY <2>2, <2>4, <2>6, <3>2, <4>2 DEF IsTrimmed
      <4> QED
        BY <4>3 DEF IsTrimmed
    <3> QED
      BY <3>1, <3>2
  <2>8. Trim(u) = u
    <3> HIDE DEF u, R
    <3> QED
      BY <2>6, <2>7, TrimmedIsKept
  <2>9. [k \in DOMAIN u |-> up(u[k])] = u
    <3>1. \A k \in DOMAIN u : u[k] \notin DOMAIN UpperCase
      BY <2>3, <2>4, <2>6
    <3>2. \A k \in DOMAIN u : up(u[k]) = u[k]
      BY <3>1 DEF up
    <3>3. u = [k \in DOMAIN u |-> u[k]]
      OBVIOUS
    <3> HIDE DEF u
    <3> QED
      BY <3>2, <3>3
  <2>10. \A x : NormalizeCurrency(Text(x)) = Text([k \in DOMAIN Trim(x) |-> up(Trim(x)[k])])
    BY DEF NormalizeCurrency, Text, IsText, up
  <2>11. NormalizeCurrency(v) = Text(u)
    BY <1>2 DEF NormalizeCurrency, t, up
  <2>12. NormalizeCurrency(Text(u)) = Text(u)
    <3> HIDE DEF u
    <3> QED
      BY <2>8, <2>9, <2>10
  <2> QED
    BY <2>11, <2>12
<1> QED
  BY <1>1, <1>2

\* A time that has left the years 0 to 9999 has no normal form.
LEMMA TimestampNormalized ==
  ASSUME NEW v, IsText(NormalizeTimestamp(v)),
         NormalizeTimestamp(v).text[1] \in DOMAIN InstantOf
  PROVE  NormalizeTimestamp(NormalizeTimestamp(v)) = NormalizeTimestamp(v)
<1>1. /\ IsText(v) /\ Len(v.text) = 1 /\ v.text[1] \in DOMAIN InstantOf
      /\ NormalizeTimestamp(v) = Text(<<InstantOf[v.text[1]]>>)
  BY DEF NormalizeTimestamp, IsText, Undefined
<1> DEFINE i == InstantOf[v.text[1]]
<1>2. i \in DOMAIN InstantOf /\ InstantOf[i] = i
  <2>1. NormalizeTimestamp(v).text = <<i>>
    BY <1>1 DEF Text
  <2>2. i \in DOMAIN InstantOf
    BY <2>1
  <2> QED
    BY <1>1, <2>2, RulesAssumption
<1> HIDE DEF i
<1>3. Text(<<i>>).text = <<i>> /\ Text(<<i>>).type = "string"
  BY DEF Text
<1>4. Len(<<i>>) = 1 /\ <<i>>[1] = i
  OBVIOUS
<1>5. NormalizeTimestamp(Text(<<i>>)) = Text(<<i>>)
  BY <1>2, <1>3, <1>4 DEF NormalizeTimestamp, IsText
<1> QED
  BY <1>1, <1>5 DEF i

IsSeqText(v) == IsText(v) => \E S : v.text \in Seq(S)

\* A normalized description is a text of at most MAX_DESCRIPTION_LENGTH.
LEMMA DescriptionIsCut ==
  ASSUME NEW v, IsSeqText(v), IsText(NormalizeDescription(v))
  PROVE  /\ IsSeqText(NormalizeDescription(v))
         /\ Len(NormalizeDescription(v).text) <= MaxDescriptionLength
<1>1. IsText(v)
  BY DEF NormalizeDescription, IsText, Undefined
<1>2. PICK S : v.text \in Seq(S)
  BY <1>1 DEF IsSeqText
<1> DEFINE s == SanitizeString(v).text
           m == IF Len(s) < MaxDescriptionLength THEN Len(s) ELSE MaxDescriptionLength
<1>3. s \in Seq(S)
  <2>1. s = Trim(Printable(v.text))
    BY <1>1 DEF SanitizeString, Text
  <2> QED
    BY <1>2, <2>1, PrintableIsPrintable, TrimTrims
<1>4. NormalizeDescription(v) = Text(SubSeq(s, 1, m))
  BY <1>1 DEF NormalizeDescription
<1> HIDE DEF s
<1>5. Len(s) \in Nat /\ MaxDescriptionLength \in Nat
  BY <1>3, LenProperties, RulesAssumption
<1>6. m \in Nat /\ m <= Len(s) /\ m <= MaxDescriptionLength
  BY <1>5
<1> HIDE DEF m
<1>7. SubSeq(s, 0 + 1, m) \in Seq(S) /\ Len(SubSeq(s, 0 + 1, m)) = m - 0
  BY <1>3, <1>6, Piece
<1>8. NormalizeDescription(v).text = SubSeq(s, 1, m)
  <2>1. \A x : Text(x).text = x
    BY DEF Text
  <2> QED
    BY <1>4, <2>1
<1> QED
  BY <1>6, <1>7, <1>8 DEF IsSeqText

\* Rounding the double and rounding the decimal differ by a cent at most, and
\* what is in whole cents is not rounded again.
LEMMA CentsAgree ==
  ASSUME NEW a, a.milli \in Int
  PROVE  /\ ColumnCents(a) \in Int
         /\ ColumnCents(a) = FixedCents(a) \/ ColumnCents(a) = FixedCents(a) + 1
         /\ FixedCents(Number(10 * ColumnCents(a))) = ColumnCents(a)
<1>1. ColumnCents(a) \in Int
  BY DEF ColumnCents
<1>2. ColumnCents(a) = FixedCents(a) \/ ColumnCents(a) = FixedCents(a) + 1
  BY DEF ColumnCents, FixedCents
<1>3. \A c \in Int : (10 * c + 5) \div 10 = c
  OBVIOUS
<1>4. \A c : FixedCents(Number(10 * c)) = (10 * c + 5) \div 10
  BY DEF FixedCents, Number
<1> QED
  BY <1>1, <1>2, <1>3, <1>4

\* The texts and the time of what is normalized are normal.
LEMMA NormalForm ==
  ASSUME NEW v, TextsAreFinite(v), Satisfies(NormalizeRecord(v)),
         NormalizeRecord(v).timestamp.text[1] \in DOMAIN InstantOf,
         NEW t, t = Stored(NormalizeRecord(v))
  PROVE  LET again == NormalizeRecord(t)
         IN /\ again.transactionId = t.transactionId /\ again.accountId = t.accountId
            /\ again.merchantId = t.merchantId /\ again.currency = t.currency
            /\ again.timestamp = t.timestamp /\ again.amount = t.amount
            /\ \/ again.description = Undefined
               \/ /\ IsText(again.description)
                  /\ Len(again.description.text) <= MaxDescriptionLength
<1> DEFINE n == NormalizeRecord(v)
           again == NormalizeRecord(t)
<1>1. /\ IsFiniteText(v.transactionId) /\ IsFiniteText(v.accountId) /\ IsFiniteText(v.merchantId)
      /\ IsFiniteText(v.currency) /\ IsFiniteText(v.description)
  BY DEF TextsAreFinite, Fields, IsFiniteText
<1>2. /\ t.transactionId = SanitizeString(v.transactionId)
      /\ t.accountId = SanitizeString(v.accountId)
      /\ t.merchantId = SanitizeString(v.merchantId)
      /\ t.currency = NormalizeCurrency(v.currency)
      /\ t.timestamp = NormalizeTimestamp(v.timestamp)
      /\ t.description = NormalizeDescription(v.description)
      /\ n.timestamp = t.timestamp /\ n.description = t.description
  BY DEF NormalizeRecord, Stored
<1>3. /\ IsText(t.timestamp) /\ t.timestamp.text[1] \in DOMAIN InstantOf
      /\ t.description = Undefined \/ IsText(t.description)
  BY <1>2 DEF Satisfies
<1>4. /\ again.transactionId = SanitizeString(t.transactionId)
      /\ again.accountId = SanitizeString(t.accountId)
      /\ again.merchantId = SanitizeString(t.merchantId)
      /\ again.amount = t.amount
      /\ again.currency = NormalizeCurrency(t.currency)
      /\ again.timestamp = NormalizeTimestamp(t.timestamp)
      /\ again.description = NormalizeDescription(t.description)
  BY DEF NormalizeRecord
<1> HIDE DEF n, again
<1>5. /\ again.transactionId = t.transactionId
      /\ again.accountId = t.accountId
      /\ again.merchantId = t.merchantId
  BY <1>1, <1>2, <1>4, Sanitized
<1>6. again.currency = t.currency
  BY <1>1, <1>2, <1>4, CurrencyNormalized
<1>7. again.timestamp = t.timestamp
  BY <1>2, <1>3, <1>4, TimestampNormalized
<1>8. \/ again.description = Undefined
      \/ IsText(again.description) /\ Len(again.description.text) <= MaxDescriptionLength
  <2>1. CASE t.description = Undefined
    BY <1>4, <2>1 DEF NormalizeDescription, IsText, Undefined, Null
  <2>2. CASE IsText(t.description)
    <3>1. IsSeqText(v.description)
      BY <1>1 DEF IsFiniteText, IsSeqText
    <3>2. IsSeqText(t.description)
      BY <1>2, <2>2, <3>1, DescriptionIsCut
    <3>3. IsText(again.description)
      BY <1>4, <2>2 DEF NormalizeDescription, IsText, Text
    <3> QED
      BY <1>4, <3>2, <3>3, DescriptionIsCut
  <2> QED
    BY <1>3, <2>1, <2>2
<1> QED
  BY <1>4, <1>5, <1>6, <1>7, <1>8 DEF again

LEMMA StoredAgain ==
  ASSUME NEW v, TextsAreFinite(v), Satisfies(NormalizeRecord(v)), v.amount.milli \in Int,
         NEW t, t = Stored(NormalizeRecord(v)),
         NEW f, f = Fingerprint(NormalizeRecord(v)),
         t.timestamp.text[1] \in DOMAIN InstantOf
  PROVE  LET again == NormalizeRecord(t)
         IN /\ again.transactionId = t.transactionId
            /\ Satisfies(again) <=> t.amount.milli > 0
            /\ [Fingerprint(again) EXCEPT !.amount = f.amount] = f
            /\ Fingerprint(again).amount \in {f.amount, f.amount + 1}
<1> DEFINE n == NormalizeRecord(v)
           again == NormalizeRecord(t)
<1>1. /\ t.transactionId = n.transactionId /\ t.accountId = n.accountId
      /\ t.merchantId = n.merchantId /\ t.currency = n.currency
      /\ t.timestamp = n.timestamp
      /\ t.amount = Number(10 * ColumnCents(n.amount)) /\ n.amount = v.amount
  BY DEF NormalizeRecord, Stored
<1>2. /\ again.transactionId = t.transactionId /\ again.accountId = t.accountId
      /\ again.merchantId = t.merchantId /\ again.currency = t.currency
      /\ again.timestamp = t.timestamp /\ again.amount = t.amount
      /\ \/ again.description = Undefined
         \/ IsText(again.description) /\ Len(again.description.text) <= MaxDescriptionLength
  BY <1>1, NormalForm
<1>3. /\ IsId(n.transactionId) /\ IsId(n.accountId) /\ IsId(n.merchantId)
      /\ IsText(n.currency) /\ n.currency.text \in SupportedCurrencies
      /\ IsText(n.timestamp)
  BY DEF Satisfies
<1>4. t.amount.type = "number" /\ t.amount.finite
  BY <1>1 DEF Number
<1>5. f = [transactionId |-> n.transactionId, accountId |-> n.accountId,
           merchantId |-> n.merchantId, amount |-> FixedCents(n.amount),
           currency |-> n.currency, timestamp |-> n.timestamp]
  BY DEF Fingerprint
<1>6. Fingerprint(again) =
        [transactionId |-> again.transactionId, accountId |-> again.accountId,
         merchantId |-> again.merchantId, amount |-> FixedCents(again.amount),
         currency |-> again.currency, timestamp |-> again.timestamp]
  BY DEF Fingerprint
<1> HIDE DEF n, again
<1>7. Satisfies(again) <=> t.amount.milli > 0
  BY <1>1, <1>2, <1>3, <1>4 DEF Satisfies
<1>8. FixedCents(again.amount) \in {FixedCents(n.amount), FixedCents(n.amount) + 1}
  BY <1>1, <1>2, CentsAgree
<1>9. [Fingerprint(again) EXCEPT !.amount = f.amount] = f
  BY <1>1, <1>2, <1>5, <1>6
<1>10. Fingerprint(again).amount \in {f.amount, f.amount + 1}
  BY <1>5, <1>6, <1>8
<1> QED
  BY <1>2, <1>7, <1>9, <1>10 DEF again

LEMMA StoredAreNormal == ScreenedInv /\ TextsAreClean => StoredIsCanonical
<1> SUFFICES ASSUME ScreenedInv, TextsAreClean, NEW k \in DOMAIN accepted,
                    accepted[k].transaction.timestamp.text[1] \in DOMAIN InstantOf
             PROVE  LET t == accepted[k].transaction
                        f == accepted[k].fingerprint
                        again == NormalizeRecord(t)
                    IN /\ again.transactionId = t.transactionId
                       /\ Satisfies(again) <=> t.amount.milli > 0
                       /\ [Fingerprint(again) EXCEPT !.amount = f.amount] = f
                       /\ Fingerprint(again).amount \in {f.amount, f.amount + 1}
  BY DEF StoredIsCanonical
<1>1. PICK m \in Good(valueOf, lines, committed) : accepted[k] = AcceptedRows(valueOf, lines)[m]
  BY ListedNumbers, ScreenedLists DEF ScreenedInv
<1>2. m \in DOMAIN lines
  BY ScreenedLists, RowsHaveTheirNumbers DEF ScreenedInv
<1> DEFINE v == ValueIn(valueOf, lines[m])
           t == accepted[k].transaction
           f == accepted[k].fingerprint
<1>3. t = Stored(NormalizeRecord(v)) /\ f = Fingerprint(NormalizeRecord(v))
  BY <1>1, <1>2 DEF AcceptedRows, AcceptedRow
<1>4. v.type = "object" /\ Satisfies(NormalizeRecord(v))
  BY <1>1 DEF Good, Keeps
<1> HIDE DEF v
<1>5. v # NotJson
  <2>1. NotJson.type = "not JSON"
    BY DEF NotJson
  <2> QED
    BY <1>4, <2>1
<1>6. PICK n \in DOMAIN file : file[n] \in DOMAIN valueOf /\ v = valueOf[file[n]]
  BY <1>2, <1>5, OneToken DEF ScreenedInv, v
<1>7. /\ TextsAreFinite(v)
      /\ v.amount.type = "number" /\ v.amount.finite => v.amount.milli \in Int
  BY <1>4, <1>6, IntakeAssumption DEF ScreenedInv
<1>8. v.amount.milli \in Int
  <2>1. NormalizeRecord(v).amount = v.amount
    BY DEF NormalizeRecord
  <2> QED
    BY <1>4, <1>7, <2>1 DEF Satisfies
<1> HIDE DEF t, f
<1> QED
  BY <1>3, <1>4, <1>7, <1>8, StoredAgain DEF t, f

\* What is stored of the years 0 to 9999 is in normal form: submitted again as it
\* is stored, it has the same key, is refused only for an amount of 0.00, and
\* has the same fingerprint up to one cent that the rounding of the column adds.
THEOREM StoredIsInNormalForm == IntakeSpec => []StoredIsCanonical
<1>1. IntakeInit => ScreenedInv /\ TextsAreClean
  BY ScreenedInit, CleanInit DEF IntakeInit
<1>2. ScreenedInv /\ TextsAreClean /\ [IntakeNext]_allVars => (ScreenedInv /\ TextsAreClean)'
  BY ScreenedStep, LoopStep, CleanStep DEF ScreenedInv
<1> QED
  BY <1>1, <1>2, StoredAreNormal, PTL DEF IntakeSpec

------------------------------------------------------------------------------
\* The outcome is that of the file.

\* The tokens of a line are the bytes of the file from where it begins to where
\* it ends, but for newlines and carriage returns.
LEMMA LineTokens ==
  ASSUME NEW f \in Files, NEW l, NEW a \in Nat, l.byteOffsetAfter \in 1 .. Len(f),
         IsLine(f, l, a), ~l.oversized
  PROVE  /\ \A n \in Tokens(l.raw) : /\ n \in 1 .. l.byteOffsetAfter - a
                                     /\ l.raw[n] = f[a + n] /\ f[a + n] \notin {NL, CR}
         /\ \A n \in 1 .. l.byteOffsetAfter - a :
              f[a + n] \notin {NL, CR} => n \in Tokens(l.raw)
         /\ \A m \in a + 1 .. l.byteOffsetAfter - 1 : f[m] # NL
<1> DEFINE e == l.byteOffsetAfter
           bytes == SubSeq(f, a + 1, e)
           body == IF bytes[Len(bytes)] = NL THEN SubSeq(bytes, 1, Len(bytes) - 1) ELSE bytes
           S == Bytes(f)
<1>1. f \in Seq(S) /\ Len(f) \in Nat /\ e \in Nat /\ e <= Len(f) /\ a < e
  BY FilesAreSequences DEF IsLine
<1>2. l.raw = StripTrailingCr(body) /\ Newlines(body) = {}
  BY DEF IsLine
<1>3. PICK d \in Nat : d = e - a /\ d > 0
  BY <1>1
<1> HIDE DEF e, S
<1>4. /\ bytes \in Seq(S) /\ Len(bytes) = d
      /\ \A n \in 1 .. d : bytes[n] = f[a + n]
  <2>1. a <= e
    BY <1>1
  <2> QED
    BY <1>1, <1>3, <2>1, Piece
<1> HIDE DEF bytes
<1>5. PICK b \in Nat : /\ body \in Seq(S) /\ Len(body) = b /\ b <= d
                       /\ \A n \in 1 .. b : body[n] = f[a + n]
                       /\ b = d \/ (b = d - 1 /\ f[a + d] = NL)
  <2>1. CASE bytes[Len(bytes)] = NL
    <3>1. PICK c \in Nat : c = d - 1
      BY <1>3
    <3>2. 0 \in Nat /\ 0 <= c /\ c <= Len(bytes)
      BY <1>3, <1>4, <3>1
    <3>3. /\ SubSeq(bytes, 0 + 1, c) \in Seq(S) /\ Len(SubSeq(bytes, 0 + 1, c)) = c - 0
          /\ \A n \in 1 .. c - 0 : SubSeq(bytes, 0 + 1, c)[n] = bytes[0 + n]
      BY <1>4, <3>2, Piece
    <3>4. body = SubSeq(bytes, 1, c)
      BY <1>4, <2>1, <3>1
    <3>5. /\ body \in Seq(S) /\ Len(body) = c
          /\ \A n \in 1 .. c : body[n] = bytes[n]
      BY <3>3, <3>4
    <3> HIDE DEF body
    <3>6. \A n \in 1 .. c : body[n] = f[a + n]
      BY <1>3, <1>4, <3>1, <3>5
    <3>7. f[a + d] = NL
      BY <1>3, <1>4, <2>1
    <3> QED
      BY <1>3, <3>1, <3>5, <3>6, <3>7
  <2>2. CASE bytes[Len(bytes)] # NL
    BY <1>4, <2>2
  <2> QED
    BY <2>1, <2>2
<1> HIDE DEF body
<1>6. DOMAIN body = 1 .. b
  BY <1>5, LenProperties
<1>7. \A n \in 1 .. b : f[a + n] # NL
  BY <1>2, <1>5, <1>6 DEF Newlines
<1>8. PICK r \in Nat : /\ DOMAIN l.raw = 1 .. r /\ r <= b
                       /\ \A n \in 1 .. r : l.raw[n] = f[a + n]
                       /\ r = b \/ (r = b - 1 /\ f[a + b] = CR)
  <2>1. CASE body # <<>> /\ body[Len(body)] = CR
    <3>1. b # 0
      BY <1>5, <2>1, EmptySeq
    <3>2. PICK c \in Nat : c = b - 1
      BY <3>1
    <3>3. 0 \in Nat /\ 0 <= c /\ c <= Len(body)
      BY <1>5, <3>2
    <3>4. /\ SubSeq(body, 0 + 1, c) \in Seq(S) /\ Len(SubSeq(body, 0 + 1, c)) = c - 0
          /\ \A n \in 1 .. c - 0 : SubSeq(body, 0 + 1, c)[n] = body[0 + n]
      BY <1>5, <3>3, Piece
    <3>5. l.raw = SubSeq(body, 1, c)
      BY <1>2, <1>5, <2>1, <3>2 DEF StripTrailingCr
    <3>6. /\ l.raw \in Seq(S) /\ Len(l.raw) = c
          /\ \A n \in 1 .. c : l.raw[n] = body[n]
      BY <3>4, <3>5
    <3>7. DOMAIN l.raw = 1 .. c
      BY <3>6, LenProperties
    <3>8. f[a + b] = CR
      BY <1>5, <2>1, <3>1
    <3>9. \A n \in 1 .. c : l.raw[n] = f[a + n]
      BY <1>5, <3>2, <3>6
    <3>10. c <= b
      BY <3>2
    <3> WITNESS c \in Nat
    <3> QED
      BY <3>2, <3>7, <3>8, <3>9, <3>10
  <2>2. CASE ~(body # <<>> /\ body[Len(body)] = CR)
    <3>1. l.raw = body
      BY <1>2, <2>2 DEF StripTrailingCr
    <3>2. DOMAIN l.raw = 1 .. b /\ \A n \in 1 .. b : l.raw[n] = f[a + n]
      BY <1>5, <1>6, <3>1
    <3>3. b <= b
      OBVIOUS
    <3> WITNESS b \in Nat
    <3> QED
      BY <3>2, <3>3
  <2> QED
    BY <2>1, <2>2
<1>9. ASSUME NEW n \in Tokens(l.raw)
      PROVE  n \in 1 .. d /\ l.raw[n] = f[a + n] /\ f[a + n] \notin {NL, CR}
  <2>1. n \in DOMAIN l.raw /\ l.raw[n] # CR
    BY DEF Tokens
  <2>2. n \in 1 .. r
    BY <1>8, <2>1
  <2>3. n \in 1 .. b /\ n \in 1 .. d
    BY <1>5, <1>8, <2>2
  <2>4. l.raw[n] = f[a + n]
    BY <1>8, <2>2
  <2>5. f[a + n] # NL
    BY <1>7, <2>3
  <2> QED
    BY <2>1, <2>3, <2>4, <2>5
<1>10. ASSUME NEW n \in 1 .. d, f[a + n] \notin {NL, CR} PROVE n \in Tokens(l.raw)
  <2>1. n \in 1 .. b
    BY <1>5, <1>10
  <2>2. n \in 1 .. r
    BY <1>8, <1>10, <2>1
  <2> QED
    BY <1>8, <1>10, <2>2 DEF Tokens
<1>11. ASSUME NEW m \in a + 1 .. e - 1 PROVE f[m] # NL
  <2>1. PICK n \in Nat : m = a + n /\ n >= 1 /\ n <= d - 1
    <3>1. m - a \in Nat /\ m = a + (m - a) /\ m - a >= 1 /\ m - a <= d - 1
      BY <1>1, <1>3
    <3> QED
      BY <3>1
  <2>2. n \in 1 .. b
    BY <1>3, <1>5, <2>1
  <2> QED
    BY <1>7, <2>1, <2>2
<1> QED
  BY <1>3, <1>9, <1>10, <1>11 DEF e

\* As many newlines are before a byte as lines.
LEMMA LinesBefore ==
  ASSUME ParseInv, LinesAreTheFiles, Short(file), NEW k \in DOMAIN lines,
         NEW n \in Start(lines, k) + 1 .. lines[k].byteOffsetAfter, file[n] # NL
  PROVE  Cardinality(Newlines(SubSeq(file, 1, n))) = k - 1
<1> DEFINE a == Start(lines, k)
           e == lines[k].byteOffsetAfter
<1>1. /\ file \in Files /\ Len(file) \in Nat /\ Len(lines) \in Nat /\ DOMAIN lines = 1 .. Len(lines)
      /\ lines \in Seq(Line(file)) /\ IsLine(file, lines[k], a)
  BY FilesAreSequences, RowsHaveTheirNumbers DEF ParseInv, TypeOK, AreLines
<1>2. \A j \in 1 .. Len(lines) : lines[j].byteOffsetAfter \in 1 .. Len(file)
  <2>1. \A j \in 1 .. Len(lines) : lines[j] \in Line(file)
    BY <1>1, ElementOfSeq
  <2> QED
    BY <2>1 DEF Line
<1>3. a \in Nat /\ a <= Len(file) /\ e \in 1 .. Len(file)
  BY <1>1, <1>2 DEF Start
<1>4. NewlinesUpTo(file, a) = k - 1
  <2>1. CASE k = 1
    BY <1>1, <2>1, NoNewlineAtFirst DEF Start
  <2>2. CASE k # 1
    <3>1. k - 1 \in DOMAIN lines /\ k - 1 # Len(lines) /\ a = lines[k - 1].byteOffsetAfter
      BY <1>1, <2>2 DEF Start
    <3> QED
      BY <3>1 DEF LinesAreTheFiles, NewlinesUpTo
  <2> QED
    BY <2>1, <2>2
<1>5. \A m \in a + 1 .. n : file[m] # NL
  <2>1. \A m \in a + 1 .. e - 1 : file[m] # NL
    BY <1>1, <1>3, LineTokens DEF LinesAreTheFiles
  <2>2. \A m \in a + 1 .. n : m \in a + 1 .. e - 1 \/ m = n
    BY <1>3
  <2> QED
    BY <2>1, <2>2
<1>6. n \in Nat /\ n <= Len(file)
  BY <1>3
<1>7. {m \in 1 .. n : file[m] = NL} = {m \in 1 .. a : file[m] = NL}
  <2>1. \A m \in 1 .. n : file[m] = NL => m \in 1 .. a
    BY <1>3, <1>5, <1>6
  <2>2. \A m \in 1 .. a : m \in 1 .. n
    BY <1>3, <1>6
  <2> QED
    BY <2>1, <2>2
<1>8. Newlines(SubSeq(file, 1, n)) = Newlines(SubSeq(file, 1, a))
  BY <1>1, <1>3, <1>6, <1>7, NewlinesOfPrefix
<1> QED
  BY <1>4, <1>8 DEF NewlinesUpTo

\* When the parse is done, every byte is in a line.
LEMMA BytesAreInLines ==
  ASSUME ParseInv, pc = "done", NEW n \in DOMAIN file
  PROVE  \E k \in DOMAIN lines : n \in Start(lines, k) + 1 .. lines[k].byteOffsetAfter
<1>1. /\ file \in Files /\ Len(file) \in Nat /\ DOMAIN file = 1 .. Len(file)
      /\ Len(lines) \in Nat /\ DOMAIN lines = 1 .. Len(lines) /\ lines \in Seq(Line(file))
      /\ Start(lines, Len(lines) + 1) = Len(file)
  BY FilesAreSequences, RowsHaveTheirNumbers DEF ParseInv, TypeOK, AreLines, BufferInv
<1>2. \A j \in 1 .. Len(lines) : lines[j].byteOffsetAfter \in 1 .. Len(file)
  <2>1. \A j \in 1 .. Len(lines) : lines[j] \in Line(file)
    BY <1>1, ElementOfSeq
  <2> QED
    BY <2>1 DEF Line
<1> DEFINE K == {j \in 1 .. Len(lines) : n <= lines[j].byteOffsetAfter}
<1>3. Len(lines) \in K
  <2>1. Len(lines) # 0
    BY <1>1 DEF Start
  <2>2. lines[Len(lines)].byteOffsetAfter = Len(file)
    BY <1>1, <2>1 DEF Start
  <2> QED
    BY <1>1, <2>1, <2>2
<1>4. K \in SUBSET Nat /\ K # {}
  BY <1>3
<1> HIDE DEF K
<1>5. PICK k \in K : \A j \in K : k <= j
  BY <1>4, LeastNumber
<1> USE DEF K
<1>6. Start(lines, k) \in Nat /\ Start(lines, k) < n
  <2>1. CASE k = 1
    BY <1>1, <2>1 DEF Start
  <2>2. CASE k # 1
    <3>1. k - 1 \in 1 .. Len(lines) /\ k - 1 \notin K
      BY <1>1, <1>5, <2>2
    <3>2. Start(lines, k) = lines[k - 1].byteOffsetAfter
      BY <2>2 DEF Start
    <3> QED
      BY <1>1, <1>2, <3>1, <3>2
  <2> QED
    BY <2>1, <2>2
<1>7. k \in DOMAIN lines /\ n \in Start(lines, k) + 1 .. lines[k].byteOffsetAfter
  BY <1>1, <1>2, <1>6
<1> QED
  BY <1>7

\* The bytes of a line of the file, and which line a byte belongs to.
LEMMA FileLineIs ==
  ASSUME ParseInv, LinesAreTheFiles, Short(file), pc = "done", NEW k \in Nat \ {0}
  PROVE  /\ k > Len(lines) => FileLine(k) = {}
         /\ k <= Len(lines) =>
              /\ \A n \in FileLine(k) : \E m \in Tokens(lines[k].raw) : n = Start(lines, k) + m
              /\ \A m \in Tokens(lines[k].raw) : /\ Start(lines, k) + m \in FileLine(k)
                                                 /\ lines[k].raw[m] = file[Start(lines, k) + m]
              /\ Start(lines, k) \in Nat /\ Tokens(lines[k].raw) \subseteq Nat
<1>1. /\ file \in Files /\ Len(file) \in Nat /\ DOMAIN file = 1 .. Len(file)
      /\ Len(lines) \in Nat /\ DOMAIN lines = 1 .. Len(lines) /\ lines \in Seq(Line(file))
      /\ \A j \in DOMAIN lines : IsLine(file, lines[j], Start(lines, j))
  BY FilesAreSequences, RowsHaveTheirNumbers DEF ParseInv, TypeOK, AreLines
<1>2. \A j \in 1 .. Len(lines) : lines[j].byteOffsetAfter \in 1 .. Len(file)
  <2>1. \A j \in 1 .. Len(lines) : lines[j] \in Line(file)
    BY <1>1, ElementOfSeq
  <2> QED
    BY <2>1 DEF Line
<1>3. ASSUME NEW n \in FileLine(k)
      PROVE  /\ k \in DOMAIN lines
             /\ n \in Start(lines, k) + 1 .. lines[k].byteOffsetAfter
             /\ file[n] \notin {NL, CR}
  <2>1. n \in DOMAIN file /\ file[n] \notin {NL, CR} /\ Cardinality(Newlines(SubSeq(file, 1, n))) = k - 1
    BY DEF FileLine
  <2>2. PICK j \in DOMAIN lines : n \in Start(lines, j) + 1 .. lines[j].byteOffsetAfter
    BY <2>1, BytesAreInLines
  <2>3. Cardinality(Newlines(SubSeq(file, 1, n))) = j - 1
    BY <2>1, <2>2, LinesBefore
  <2>4. j = k
    BY <1>1, <2>1, <2>3
  <2> QED
    BY <2>1, <2>2, <2>4
<1>4. CASE k > Len(lines)
  BY <1>1, <1>3, <1>4
<1>5. CASE k <= Len(lines)
  <2> DEFINE l == lines[k]
             a == Start(lines, k)
  <2>1. k \in DOMAIN lines /\ a \in Nat /\ l.byteOffsetAfter \in 1 .. Len(file) /\ ~l.oversized
    BY <1>1, <1>2, <1>5 DEF Start, LinesAreTheFiles
  <2>2. IsLine(file, l, a)
    BY <1>1, <2>1
  <2> HIDE DEF l, a
  <2>3. /\ \A m \in Tokens(l.raw) : /\ m \in 1 .. l.byteOffsetAfter - a
                                    /\ l.raw[m] = file[a + m] /\ file[a + m] \notin {NL, CR}
        /\ \A m \in 1 .. l.byteOffsetAfter - a :
             file[a + m] \notin {NL, CR} => m \in Tokens(l.raw)
    BY <1>1, <2>1, <2>2, LineTokens
  <2>4. ASSUME NEW n \in FileLine(k) PROVE \E m \in Tokens(l.raw) : n = a + m
    <3>1. n \in a + 1 .. l.byteOffsetAfter /\ file[n] \notin {NL, CR}
      BY <1>3 DEF l, a
    <3>2. n - a \in 1 .. l.byteOffsetAfter - a /\ n = a + (n - a)
      BY <2>1, <3>1
    <3> QED
      BY <2>3, <3>1, <3>2
  <2>5. ASSUME NEW m \in Tokens(l.raw)
        PROVE  a + m \in FileLine(k) /\ l.raw[m] = file[a + m]
    <3>1. /\ m \in 1 .. l.byteOffsetAfter - a
          /\ l.raw[m] = file[a + m] /\ file[a + m] \notin {NL, CR}
      BY <2>3
    <3>2. PICK n \in Nat : n = a + m /\ n \in a + 1 .. l.byteOffsetAfter /\ n \in 1 .. Len(file)
      BY <2>1, <3>1
    <3>3. file[n] # NL /\ file[n] \notin {NL, CR}
      BY <3>1, <3>2
    <3>4. Cardinality(Newlines(SubSeq(file, 1, n))) = k - 1
      BY <2>1, <3>2, <3>3, LinesBefore DEF l, a
    <3> QED
      BY <1>1, <3>1, <3>2, <3>3, <3>4 DEF FileLine
  <2>6. Tokens(l.raw) \subseteq Nat
    BY <2>3
  <2>7. ~(k > Len(lines))
    BY <1>1, <1>5
  <2> QED
    BY <2>1, <2>4, <2>5, <2>6, <2>7 DEF l, a
<1> QED
  BY <1>1, <1>4, <1>5

\* A set of numbers that is moved by a has one element when the other has.
LEMMA MovedSet ==
  ASSUME NEW a \in Nat, NEW Q \in SUBSET Nat, NEW P, IsFiniteSet(P), IsFiniteSet(Q),
         \A n \in P : \E m \in Q : n = a + m, \A m \in Q : a + m \in P
  PROVE  /\ Cardinality(P) = 1 <=> Cardinality(Q) = 1
         /\ Cardinality(Q) = 1 => /\ (CHOOSE n \in P : TRUE) = a + (CHOOSE m \in Q : TRUE)
                                  /\ (CHOOSE m \in Q : TRUE) \in Q
<1>1. /\ Cardinality(P) = 1 <=> \E x : P = {x}
      /\ Cardinality(Q) = 1 <=> \E x : Q = {x}
  BY FS_Singleton
<1>2. ASSUME NEW x, Q = {x} PROVE P = {a + x} /\ x \in Nat
  <2>1. x \in Nat
    BY <1>2
  <2> QED
    BY <1>2, <2>1
<1>3. ASSUME NEW y, P = {y} PROVE \E x : Q = {x}
  <2>1. PICK m \in Q : y = a + m
    BY <1>3
  <2>2. \A x \in Q : x = m
    <3> SUFFICES ASSUME NEW x \in Q PROVE x = m
      OBVIOUS
    <3>1. a + x = y /\ x \in Nat /\ m \in Nat
      BY <1>3
    <3> QED
      BY <2>1, <3>1
  <2>3. Q = {m}
    BY <2>2
  <2> QED
    BY <2>3
<1>4. ASSUME Cardinality(Q) = 1
      PROVE  /\ (CHOOSE n \in P : TRUE) = a + (CHOOSE m \in Q : TRUE)
             /\ (CHOOSE m \in Q : TRUE) \in Q
  <2>1. PICK x : Q = {x}
    BY <1>1, <1>4
  <2>2. P = {a + x}
    BY <1>2, <2>1
  <2>3. (CHOOSE m \in Q : TRUE) = x
    BY <2>1
  <2>4. (CHOOSE n \in P : TRUE) = a + x
    BY <2>2
  <2> QED
    BY <2>1, <2>3, <2>4
<1> QED
  BY <1>1, <1>2, <1>3, <1>4

FileValue(k) == IF Cardinality(FileLine(k)) = 1
                THEN valueOf[file[CHOOSE n \in FileLine(k) : TRUE]] ELSE NotJson

LEMMA FileValueIs ==
  ASSUME ParseInv, LinesAreTheFiles, Short(file), pc = "done", NEW k \in Nat \ {0}
  PROVE  /\ k > Len(lines) => FileLine(k) = {} /\ FileValue(k) = NotJson
         /\ k <= Len(lines) => /\ FileValue(k) = ValueIn(valueOf, lines[k])
                               /\ FileLine(k) # {} <=> ~IsBlank(lines[k])
<1>1. CASE k > Len(lines)
  <2>1. FileLine(k) = {}
    BY <1>1, FileLineIs
  <2>2. Cardinality(FileLine(k)) = 0
    BY <2>1, FS_EmptySet
  <2>3. Len(lines) \in Nat
    BY RowsHaveTheirNumbers
  <2> QED
    BY <1>1, <2>1, <2>2, <2>3 DEF FileValue
<1>2. CASE k <= Len(lines)
  <2> DEFINE F == FileLine(k)
             Q == Tokens(lines[k].raw)
             a == Start(lines, k)
  <2>1. /\ file \in Files /\ Len(file) \in Nat /\ DOMAIN file = 1 .. Len(file) /\ Len(lines) \in Nat
    BY FilesAreSequences, RowsHaveTheirNumbers DEF ParseInv, TypeOK
  <2>2. /\ \A n \in F : \E m \in Q : n = a + m
        /\ \A m \in Q : a + m \in F /\ lines[k].raw[m] = file[a + m]
        /\ a \in Nat /\ Q \subseteq Nat
    BY <1>2, FileLineIs
  <2>3. IsFiniteSet(F)
    <3>1. IsFiniteSet(DOMAIN file)
      BY <2>1, FS_Interval
    <3>2. F \in SUBSET (DOMAIN file)
      BY DEF FileLine
    <3> HIDE DEF F
    <3> QED
      BY <3>1, <3>2, FS_Subset
  <2>4. IsFiniteSet(Q)
    <3>1. PICK b \in Nat : b = Len(file)
      BY <2>1
    <3>2. \A m \in Q : m <= b
      <4> SUFFICES ASSUME NEW m \in Q PROVE m <= b
        OBVIOUS
      <4>1. a + m \in DOMAIN file /\ m \in Nat
        BY <2>2 DEF FileLine
      <4> HIDE DEF a
      <4> QED
        BY <2>1, <2>2, <3>1, <4>1
    <3> HIDE DEF Q
    <3> QED
      BY <2>2, <3>2, FS_BoundedSetOfNaturals
  <2> HIDE DEF a, Q, F
  <2>5. /\ Cardinality(F) = 1 <=> Cardinality(Q) = 1
        /\ Cardinality(Q) = 1 => /\ (CHOOSE n \in F : TRUE) = a + (CHOOSE m \in Q : TRUE)
                                 /\ (CHOOSE m \in Q : TRUE) \in Q
    BY <2>2, <2>3, <2>4, MovedSet
  <2>6. FileValue(k) = ValueIn(valueOf, lines[k])
    <3>1. CASE Cardinality(Q) = 1
      <4> DEFINE q == CHOOSE m \in Q : TRUE
                 n == CHOOSE x \in F : TRUE
      <4>1. q \in Q /\ n = a + q
        BY <2>5, <3>1
      <4>2. ValueIn(valueOf, lines[k]) = valueOf[lines[k].raw[q]]
        BY <3>1 DEF ValueIn, Q
      <4>3. FileValue(k) = valueOf[file[n]]
        BY <2>5, <3>1 DEF FileValue, F
      <4> HIDE DEF q, n
      <4>4. lines[k].raw[q] = file[n]
        BY <2>2, <4>1
      <4> QED
        BY <4>2, <4>3, <4>4
    <3>2. CASE Cardinality(Q) # 1
      <4>1. ValueIn(valueOf, lines[k]) = NotJson
        BY <3>2 DEF ValueIn, Q
      <4>2. FileValue(k) = NotJson
        BY <2>5, <3>2 DEF FileValue, F
      <4> QED
        BY <4>1, <4>2
    <3> QED
      BY <3>1, <3>2
  <2>7. F # {} <=> Q # {}
    BY <2>2
  <2>8. F # {} <=> ~IsBlank(lines[k])
    BY <2>7 DEF IsBlank, Q
  <2>9. ~(k > Len(lines))
    BY <1>2, <2>1
  <2> QED
    BY <2>6, <2>8, <2>9 DEF F
<1> QED
  <2>1. Len(lines) \in Nat
    BY RowsHaveTheirNumbers
  <2> QED
    BY <1>1, <1>2, <2>1

\* A blank line holds no record.
LEMMA BlankIsNoRecord ==
  ASSUME NEW v, NEW l, IsBlank(l)
  PROVE  ~Keeps(v, l)
<1>1. Cardinality(Tokens(l.raw)) = 0
  BY FS_EmptySet DEF IsBlank
<1>2. ValueIn(v, l) = NotJson
  BY <1>1 DEF ValueIn
<1>3. NotJson.type = "not JSON"
  BY DEF NotJson
<1> QED
  BY <1>2, <1>3 DEF Keeps

\* All that is listed.
LEMMA ListedElements ==
  ASSUME NEW s, NEW P, NEW row, Listed(s, P, row)
  PROVE  Elements(s) = {row[k] : k \in P}
<1>1. Len(s) \in Nat /\ DOMAIN s = 1 .. Len(s)
  BY LenProperties DEF Listed
<1>2. \A i \in DOMAIN s : s[i] \in {row[k] : k \in P}
  BY <1>1, ElementOfSeq DEF Listed
<1> QED
  BY <1>2 DEF Elements, Listed

LEMMA OutcomeOfTheFile ==
  ASSUME ScreenedInv, LinesAreTheFiles
  PROVE  OutcomeIsTheFiles
<1> SUFFICES ASSUME outcome = "completed", Short(file) PROVE OutcomeIsTheFiles
  BY DEF OutcomeIsTheFiles
<1> DEFINE record(k) == NormalizeRecord(FileValue(k))
           good == {k \in 1 .. Len(file) : FileValue(k).type = "object" /\ Satisfies(record(k))}
           bad == {m \in 1 .. Len(file) : FileLine(m) # {}} \ good
           reason(k) == IF FileValue(k) = NotJson THEN "INVALID_JSON"
                        ELSE IF FileValue(k).type = "object" THEN "VALIDATION_FAILED"
                        ELSE "INVALID_RECORD"
           goodRow(k) == [lineNumber |-> k, transaction |-> Stored(record(k)),
                          fingerprint |-> Fingerprint(record(k)),
                          riskLevel |-> RiskLevel(record(k))]
           badRow(k) == [lineNumber |-> k, reasonCode |-> reason(k)]
           G == Good(valueOf, lines, committed)
           B == Bad(valueOf, lines, committed)
           arow == AcceptedRows(valueOf, lines)
           rrow == RejectedRows(valueOf, lines)
<1>1. /\ ParseInv /\ pc = "done" /\ committed = Len(lines)
      /\ Listed(accepted, G, arow) /\ Listed(rejected, B, rrow)
  BY DEF ScreenedInv
<1>2. /\ file \in Files /\ Len(file) \in Nat
      /\ Len(lines) \in Nat /\ DOMAIN lines = 1 .. Len(lines) /\ AreLines(file, lines)
      /\ \A k \in DOMAIN lines : lines[k].lineNumber = k /\ ~lines[k].oversized
  BY <1>1, FilesAreSequences, RowsHaveTheirNumbers DEF ParseInv, TypeOK, AreLines, LinesAreTheFiles
<1>3. Len(lines) <= Len(file)
  <2>1. Start(lines, Len(lines) + 1) \in 0 .. Len(file) /\ Len(lines) <= Start(lines, Len(lines) + 1)
    BY <1>2, NumbersStayBelow
  <2> QED
    BY <1>2, <2>1
<1>4. ASSUME NEW k \in 1 .. Len(file), k > Len(lines) PROVE k \notin good /\ k \notin bad
  <2>1. FileLine(k) = {} /\ FileValue(k) = NotJson
    BY <1>1, <1>4, FileValueIs
  <2>2. NotJson.type = "not JSON"
    BY DEF NotJson
  <2>3. FileValue(k).type # "object"
    BY <2>1, <2>2
  <2> QED
    BY <2>1, <2>3
<1>5. ASSUME NEW k \in DOMAIN lines
      PROVE  /\ k \in 1 .. Len(file) /\ k \in 1 .. committed
             /\ k \in good <=> k \in G
             /\ k \in bad <=> k \in B
             /\ goodRow(k) = arow[k] /\ badRow(k) = rrow[k]
  <2>1. k \in 1 .. Len(file) /\ k \in 1 .. committed /\ k \in Nat \ {0} /\ k <= Len(lines)
    BY <1>1, <1>2, <1>3
  <2>2. FileValue(k) = ValueIn(valueOf, lines[k]) /\ (FileLine(k) # {} <=> ~IsBlank(lines[k]))
    BY <1>1, <2>1, FileValueIs
  <2>3. k \in good <=> Keeps(valueOf, lines[k])
    BY <2>1, <2>2 DEF Keeps
  <2>4. k \in G <=> Keeps(valueOf, lines[k])
    BY <2>1, BlankIsNoRecord DEF Good
  <2>5. k \in bad <=> k \in B
    <3> HIDE DEF good
    <3> QED
      BY <2>1, <2>2, <2>3 DEF Bad
  <2>6. goodRow(k) = arow[k]
    BY <1>2, <2>2 DEF AcceptedRows, AcceptedRow
  <2>7. badRow(k) = rrow[k]
    BY <1>2, <2>2 DEF RejectedRows, RejectedRow, ReasonIn
  <2> QED
    BY <2>1, <2>3, <2>4, <2>5, <2>6, <2>7
<1>6. /\ good \subseteq 1 .. Len(file) /\ bad \subseteq 1 .. Len(file)
      /\ G \subseteq DOMAIN lines /\ B \subseteq DOMAIN lines
  BY <1>1, <1>2 DEF Good, Bad
<1>7. \A k \in 1 .. Len(file) : k \in DOMAIN lines \/ k > Len(lines)
  BY <1>2
<1> HIDE DEF good, bad, goodRow, badRow, arow, rrow, G, B
<1>8. good = G /\ bad = B
  BY <1>4, <1>5, <1>6, <1>7
<1>9. Elements(accepted) = {arow[k] : k \in G} /\ Elements(rejected) = {rrow[k] : k \in B}
  BY <1>1, ListedElements
<1>10. /\ Elements(accepted) = {goodRow(k) : k \in good}
       /\ Elements(rejected) = {badRow(k) : k \in bad}
  BY <1>5, <1>6, <1>8, <1>9
<1> QED
  BY <1>10 DEF OutcomeIsTheFiles, FileValue, good, bad, goodRow, badRow

\* What becomes of a file of short lines is a function of the file: the chunks,
\* the batches and the restarts leave no trace in what is stored.
THEOREM OutcomeDependsOnTheFile == IntakeSpec => []OutcomeIsTheFiles
BY ScreenedIsInductive, LinesAreIntact, OutcomeOfTheFile, PTL
==============================================================================
