----------------------------- MODULE RecordRules -----------------------------
(* What becomes of one record of a file: normalizeRecord, transactionSchema,  *)
(* the fingerprint and the risk level, as functions of the parsed JSON value. *)
(*                                                                            *)
(* A JSON value has a type; a text is a sequence of Space, Nul, Control, the  *)
(* halves of a surrogate pair and words, and its length counts them.  A time  *)
(* is a word in one of the spellings of InstantOf.  Amounts are in            *)
(* thousandths, since two decimals of them are kept and the third rounds; the *)
(* double that holds one may lie below it.  Infinite is what 1e400 parses to. *)
EXTENDS Integers, Sequences, FiniteSets

CONSTANTS MaxIdLength,           \* MAX_ID_LENGTH
          MaxDescriptionLength,  \* MAX_DESCRIPTION_LENGTH
          MaxCents,              \* the largest Decimal(18, 2)
          SupportedCurrencies,   \* SUPPORTED_CURRENCIES
          UpperCase,             \* the words that are not in upper case, to theirs
          InstantOf,             \* the strict ISO-8601 spellings of instants, to
                                 \* what toISOString makes of them
          ScoreOf                \* the risk scores of merchants

Space == "space"
Control == "control"
Nul == "nul"
High == "high surrogate"
Low == "low surrogate"

ASSUME RulesAssumption ==
  /\ {MaxIdLength, MaxDescriptionLength, MaxCents} \subseteq Nat \ {0}
  /\ \A w \in DOMAIN UpperCase : UpperCase[w] \notin DOMAIN UpperCase \cup {Space}
  \* Its form is a strict one in the years 0 to 9999, which an offset may leave.
  /\ \A t \in DOMAIN InstantOf :
       InstantOf[t] \in DOMAIN InstantOf => InstantOf[InstantOf[t]] = InstantOf[t]
  /\ \A m \in DOMAIN ScoreOf : ScoreOf[m] \in 0 .. 100

Text(s) == [type |-> "string", text |-> s]
Number(n) == [type |-> "number", finite |-> TRUE, milli |-> n, below |-> FALSE]
NumberBelow(n) == [Number(n) EXCEPT !.below = TRUE]
Infinite == [type |-> "number", finite |-> FALSE]
Undefined == [type |-> "undefined"]
Null == [type |-> "null"]
List == [type |-> "array"]

IsText(v) == v.type = "string"

Fields == {"transactionId", "accountId", "merchantId", "amount", "currency", "timestamp",
           "description"}
TextsAreFinite(v) ==
  \A f \in Fields : IsText(v[f]) => v[f].text \in Seq({v[f].text[k] : k \in DOMAIN v[f].text})

\* What s holds at the places P, in the order of s.
SelectAt(s, P) ==
  [n \in 1 .. Cardinality(P) |-> s[CHOOSE k \in P : Cardinality({m \in P : m <= k}) = n]]

------------------------------------------------------------------------------
\* normalizeRecord.

Trim(s) ==
  LET solid == {k \in DOMAIN s : s[k] # Space}
  IN IF solid = {} THEN <<>>
     ELSE SubSeq(s, CHOOSE k \in solid : \A m \in solid : k <= m,
                    CHOOSE k \in solid : \A m \in solid : m <= k)

Printable(s) == SelectAt(s, {k \in DOMAIN s : s[k] \notin {Control, Nul}})

\* Mutant: the text is trimmed before its control characters are removed.
TrimFirst(v) == IF IsText(v) THEN Text(Printable(Trim(v.text))) ELSE v
SanitizeString(v) == IF IsText(v) THEN Text(Trim(Printable(v.text))) ELSE v

\* trim() takes control characters that are white space; others stay.
NormalizeCurrency(v) ==
  IF IsText(v)
  THEN Text([k \in DOMAIN Trim(v.text) |->
               LET w == Trim(v.text)[k] IN IF w \in DOMAIN UpperCase THEN UpperCase[w] ELSE w])
  ELSE v

\* Not trimmed: the pattern is anchored at both ends.
NormalizeTimestamp(v) ==
  IF IsText(v) /\ Len(v.text) = 1 /\ v.text[1] \in DOMAIN InstantOf
  THEN Text(<<InstantOf[v.text[1]]>>)
  ELSE Undefined

\* What has no method slice breaks normalizeRecord: only texts and arrays have
\* one, and null and a missing description are not asked for it.
\* Mutant: null is asked as well.
ThrowsOnNull(v) == v.description.type \in {"number", "boolean", "object", "null"}
Throws(v) == v.description.type \in {"number", "boolean", "object"}

NormalizeDescription(v) ==
  IF IsText(v)
  THEN LET s == SanitizeString(v).text
       IN Text(SubSeq(s, 1, IF Len(s) < MaxDescriptionLength THEN Len(s)
                            ELSE MaxDescriptionLength))
  ELSE IF v = Null THEN Undefined ELSE v

NormalizeRecord(v) ==
  [type |-> "object",
   transactionId |-> SanitizeString(v.transactionId),
   accountId |-> SanitizeString(v.accountId),
   merchantId |-> SanitizeString(v.merchantId),
   amount |-> v.amount,
   currency |-> NormalizeCurrency(v.currency),
   timestamp |-> NormalizeTimestamp(v.timestamp),
   description |-> NormalizeDescription(v.description)]

------------------------------------------------------------------------------
\* transactionSchema, and what follows for a record that satisfies it.

IsId(v) == IsText(v) /\ Len(v.text) \in 1 .. MaxIdLength

Satisfies(t) ==
  /\ IsId(t.transactionId) /\ IsId(t.accountId) /\ IsId(t.merchantId)
  /\ t.amount.type = "number" /\ t.amount.finite /\ t.amount.milli > 0
  /\ IsText(t.currency) /\ t.currency.text \in SupportedCurrencies
  /\ IsText(t.timestamp)
  /\ \/ t.description = Undefined
     \/ IsText(t.description) /\ Len(t.description.text) <= MaxDescriptionLength

\* toFixed(2) rounds the double, and the column the decimal it was written as:
\* 1.005 has the fingerprint of 1.00 and is stored as 1.01.
FixedCents(a) == IF a.below THEN (a.milli + 4) \div 10 ELSE (a.milli + 5) \div 10
ColumnCents(a) == (a.milli + 5) \div 10

\* What the columns hold, if they can.
Overflows(t) == ColumnCents(t.amount) > MaxCents
Stored(t) == [t EXCEPT !.amount = Number(10 * ColumnCents(t.amount))]

\* A cut text may end in half a pair, or may have come with one, and the year of
\* an instant may have no four digits: what the database's client makes of
\* these is not the code's to say (external).
HasHalfPair(s) == \E k \in DOMAIN s :
  \/ s[k] = High /\ ~(k + 1 \in DOMAIN s /\ s[k + 1] = Low)
  \/ s[k] = Low /\ ~(k - 1 \in DOMAIN s /\ s[k - 1] = High)
IsDubious(t) ==
  \/ \E f \in {"transactionId", "accountId", "merchantId", "description"} :
       IsText(t[f]) /\ HasHalfPair(t[f].text)
  \/ t.timestamp.text[1] \notin DOMAIN InstantOf

\* The description is left out.
Fingerprint(t) ==
  [transactionId |-> t.transactionId, accountId |-> t.accountId, merchantId |-> t.merchantId,
   amount |-> FixedCents(t.amount), currency |-> t.currency, timestamp |-> t.timestamp]

RiskLevelFor(score) == IF score < 40 THEN "low" ELSE IF score < 70 THEN "medium" ELSE "high"

\* calculateRiskScore hashes and weighs: all that matters here is that the score
\* is a function of the record.
RiskLevel(t) == RiskLevelFor(ScoreOf[t.merchantId.text])
==============================================================================
