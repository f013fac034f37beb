----------------------------- MODULE BatchIntake -----------------------------
(* The loop of ImportProcessor.process over the lines of a file: batches are  *)
(* collected from the parser, screened by validateAndScoreBatch, scored and   *)
(* committed with the last line as checkpoint, which the next invocation      *)
(* starts from when the worker dies.                                          *)
(*                                                                            *)
(* A byte other than NL and CR stands for a whole JSON text, which valueOf    *)
(* names the value of; a line with two of them is not JSON.  What is kept of  *)
(* a rejected record goes to a jsonb column, which refuses a NUL, and half of *)
(* a surrogate pair (external), be they in a text that is not JSON or deep in *)
(* a value: of a value, refused says whether.                                 *)
EXTENDS NdjsonLines, RecordRules

CONSTANTS Valuations,    \* what the bytes of a file may stand for
          RefusedTexts,  \* texts that are not JSON of which the column refuses
                         \* what capRawValue leaves
          BatchSize      \* BATCH_SIZE

ASSUME IntakeAssumption ==
  /\ BatchSize \in Nat \ {0}
  /\ \A v \in Valuations, f \in Files : \A n \in DOMAIN f :
       f[n] \notin {NL, CR} => f[n] \in DOMAIN v
  /\ \A v \in Valuations : \A b \in DOMAIN v : v[b].type = "object" =>
       /\ TextsAreFinite(v[b])
       /\ v[b].amount.type = "number" /\ v[b].amount.finite => v[b].amount.milli \in Int

VARIABLES valueOf,    \* the value of each byte
          committed,  \* the lines of committed batches
          accepted,   \* the transactions of committed batches, in order
          rejected,   \* the rejections of committed batches, in order
          processed,  \* processedCount
          outcome     \* "running", "completed" or "failed"

intakeVars == <<valueOf, committed, accepted, rejected, processed, outcome>>
allVars == <<vars, intakeVars>>

NotJson == [type |-> "not JSON"]

ReasonCodes == {"INVALID_JSON", "LINE_TOO_LONG", "INVALID_RECORD", "VALIDATION_FAILED"}

IntakeTypeOK ==
  /\ TypeOK
  /\ valueOf \in Valuations
  /\ committed \in 0 .. Len(lines)
  /\ processed \in 0 .. Len(file)
  /\ outcome \in {"running", "completed", "failed"}
  /\ \A k \in DOMAIN accepted : accepted[k].riskLevel \in {"low", "medium", "high"}
  /\ \A k \in DOMAIN rejected : rejected[k].reasonCode \in ReasonCodes

IntakeInit == /\ Init
              /\ valueOf \in Valuations
              /\ committed = 0
              /\ accepted = <<>> /\ rejected = <<>> /\ processed = 0
              /\ outcome = "running"

------------------------------------------------------------------------------
\* validateAndScoreBatch.

Batch == SubSeq(lines, committed + 1, Len(lines))

\* JSON.parse: white space around a value does not matter.
Tokens(raw) == {n \in DOMAIN raw : raw[n] # CR}
Parsed(raw) == IF Cardinality(Tokens(raw)) = 1
               THEN valueOf[raw[CHOOSE n \in Tokens(raw) : TRUE]] ELSE NotJson

\* Mutant: only an empty text is blank.
IsEmpty(line) == line.raw = <<>>
IsBlank(line) == Tokens(line.raw) = {}

IsObject(line) == Parsed(line.raw).type = "object"
Record(line) == NormalizeRecord(Parsed(line.raw))
IsValid(line) == ~IsBlank(line) /\ IsObject(line) /\ Satisfies(Record(line))
IsRejected(line) == ~IsBlank(line) /\ ~IsValid(line)

\* An oversized line is not refused as such: it may be the start of a record
\* that is whole.
ReasonCode(line) ==
  IF Parsed(line.raw) = NotJson
  THEN IF line.oversized THEN "LINE_TOO_LONG" ELSE "INVALID_JSON"
  ELSE IF IsObject(line) THEN "VALIDATION_FAILED" ELSE "INVALID_RECORD"

\* Nothing catches what normalizeRecord throws.
BatchThrows == \E k \in DOMAIN Batch :
  ~IsBlank(Batch[k]) /\ IsObject(Batch[k]) /\ Throws(Parsed(Batch[k].raw))

Accepts == {k \in DOMAIN Batch : IsValid(Batch[k])}
Rejects == {k \in DOMAIN Batch : IsRejected(Batch[k])}

\* A rejected record is stored as it came, whatever it was rejected for, and the
\* amount of an accepted one is only checked to be finite.
IsRefused(line) == IF Parsed(line.raw) = NotJson THEN line.raw \in RefusedTexts
                   ELSE Parsed(line.raw).refused
Unstorable == \/ \E k \in Rejects : IsRefused(Batch[k])
              \/ \E k \in Accepts : Overflows(Record(Batch[k]))
Dubious == \E k \in Accepts : IsDubious(Record(Batch[k]))

\* Where the record of a valid line will be among the accepted.
\* Mutant: where the line is.
LineIndex(k) == k
AcceptedIndex(k) == Cardinality({m \in Accepts : m <= k})

\* What is scored, and in which order the scores come back.
ToScore ==
  LET places == SelectAt([k \in DOMAIN Batch |-> k], Accepts)
  IN [i \in DOMAIN places |-> [acceptedIndex |-> AcceptedIndex(places[i]),
                               record |-> Record(Batch[places[i]])]]

\* The level of the n-th accepted record: "low", until a score is written to it.
LevelOf(n) ==
  LET scored == {i \in DOMAIN ToScore : ToScore[i].acceptedIndex = n}
  IN IF scored = {} THEN "low"
     ELSE RiskLevel(ToScore[CHOOSE i \in scored : \A j \in scored : j <= i].record)

AcceptedIn(valid) ==
  [n \in DOMAIN valid |-> [lineNumber |-> valid[n].lineNumber,
                           transaction |-> Stored(Record(valid[n])),
                           fingerprint |-> Fingerprint(Record(valid[n])),
                           riskLevel |-> LevelOf(n)]]
RejectedIn(invalid) ==
  [k \in DOMAIN invalid |-> [lineNumber |-> invalid[k].lineNumber,
                             reasonCode |-> ReasonCode(invalid[k])]]

------------------------------------------------------------------------------
\* The loop.

\* The parser runs until it yields a line, and on once that is in the batch.
Full == Len(Batch) = BatchSize

Parse == /\ outcome = "running"
         /\ ~Full
         /\ ReadChunk \/ YieldLine \/ YieldOversized \/ AwaitMore \/ EndOfStream
         /\ UNCHANGED intakeVars

\* What a committed batch adds.  The line it ends with is the checkpoint.
Commit == LET valid == SelectAt(Batch, Accepts)
              invalid == SelectAt(Batch, Rejects)
          IN /\ accepted' = accepted \o AcceptedIn(valid)
             /\ rejected' = rejected \o RejectedIn(invalid)
             /\ processed' = processed + Len(valid) + Len(invalid)
             /\ committed' = Len(lines)
             /\ UNCHANGED outcome

Fail == /\ outcome' = "failed"
        /\ UNCHANGED <<accepted, rejected, processed, committed>>

\* A full batch, or what is left behind the last line.
Flush == /\ outcome = "running"
         /\ Full \/ (pc = "done" /\ Batch # <<>>)
         /\ \/ ~BatchThrows /\ ~Unstorable /\ Commit
            \/ (BatchThrows \/ Unstorable \/ Dubious) /\ Fail
         /\ UNCHANGED <<vars, valueOf>>

Complete == /\ outcome = "running"
            /\ pc = "done" /\ Batch = <<>>
            /\ outcome' = "completed"
            /\ UNCHANGED <<vars, valueOf, committed, accepted, rejected, processed>>

\* The worker dies: another takes over behind the last committed batch.  The
\* store refuses a ranged read that starts at the end of the file.
Restart == /\ outcome = "running"
           /\ resumes < MaxResumes /\ resumes' = resumes + 1
           /\ ResumeAt(committed)
           /\ byteOffset' > 0 => byteOffset' < Len(file)
           /\ read' = byteOffset' /\ buffer' = <<>> /\ pc' = "await"
           /\ UNCHANGED <<file, intakeVars>>

IntakeNext == Parse \/ Flush \/ Complete \/ Restart

IntakeSpec == IntakeInit /\ [][IntakeNext]_allVars

------------------------------------------------------------------------------
\* Properties.

LineNumbers(s) == [k \in DOMAIN s |-> s[k].lineNumber]
Ascending(s) == \A k, m \in DOMAIN s : k < m => s[k] < s[m]
Elements(s) == {s[k] : k \in DOMAIN s}

\* Every line of the committed batches that is not blank is screened once: it is
\* accepted or rejected, under its own number, and counted; nothing else is,
\* whatever the chunks, the batches and the restarts.
ScreenedOnce ==
  LET a == LineNumbers(accepted)
      r == LineNumbers(rejected)
  IN /\ Ascending(a) /\ Ascending(r)
     /\ Elements(a) \cap Elements(r) = {}
     /\ Elements(a) \cup Elements(r) =
          {lines[k].lineNumber : k \in {m \in 1 .. committed : Tokens(lines[m].raw) # {}}}
     /\ processed = Len(accepted) + Len(rejected)

\* The k-th line of the file, the bytes up to its newline or the end.
FileLine(k) ==
  {n \in DOMAIN file : /\ file[n] \notin {NL, CR}
                       /\ Cardinality(Newlines(SubSeq(file, 1, n))) = k - 1}

\* What is made of a file whose lines are short enough depends on the file
\* alone, and not on how it arrived: the transactions are the records of the
\* lines that hold one which satisfies the schema, each with its own fingerprint
\* and score; every other line that is not blank is rejected for what it holds.
OutcomeIsTheFiles ==
  outcome = "completed" /\ Short(file) =>
    LET value(k) == IF Cardinality(FileLine(k)) = 1
                    THEN valueOf[file[CHOOSE n \in FileLine(k) : TRUE]] ELSE NotJson
        record(k) == NormalizeRecord(value(k))
        good == {k \in 1 .. Len(file) : value(k).type = "object" /\ Satisfies(record(k))}
        reason(k) == IF value(k) = NotJson THEN "INVALID_JSON"
                     ELSE IF value(k).type = "object" THEN "VALIDATION_FAILED"
                     ELSE "INVALID_RECORD"
    IN /\ Elements(accepted) =
            {[lineNumber |-> k, transaction |-> Stored(record(k)),
              fingerprint |-> Fingerprint(record(k)), riskLevel |-> RiskLevel(record(k))] :
               k \in good}
       /\ Elements(rejected) =
            {[lineNumber |-> k, reasonCode |-> reason(k)] :
               k \in {m \in 1 .. Len(file) : FileLine(m) # {}} \ good}

\* A stored transaction of the years 0 to 9999 that is submitted again as it is
\* stored gets the same key, and is refused only when its amount was stored as
\* 0.00.  Its fingerprint is the one on record but for the amount, where it may
\* be a cent above: "required for a deterministic fingerprint" (normalize.ts:29)
\* are the texts and the time, and the column rounds where toFixed does not.
StoredIsCanonical ==
  \A k \in DOMAIN accepted :
    LET t == accepted[k].transaction
        f == accepted[k].fingerprint
        again == NormalizeRecord(t)
    IN t.timestamp.text[1] \in DOMAIN InstantOf =>
         /\ again.transactionId = t.transactionId
         /\ Satisfies(again) <=> t.amount.milli > 0
         /\ [Fingerprint(again) EXCEPT !.amount = f.amount] = f
         /\ Fingerprint(again).amount \in {f.amount, f.amount + 1}

\* A line that breaks a rule is rejected and "never halts the import"
\* (ARCHITECTURE.md:122), but for kinds that no rejection reports and that fail
\* the import: a record whose description is a number, a boolean or an object;
\* a record that breaks a rule, or a value that is no record, of which the
\* column refuses what is kept; likewise a text that is not JSON; and a record
\* that breaks no rule, with an amount that the column cannot hold, half a pair
\* in a text, or a time outside the years 0 to 9999.  Nothing else is fatal.
FatalRecordsAreKnown ==
  outcome = "failed" =>
    \/ \E n \in DOMAIN file :
         LET v == valueOf[file[n]]
             t == NormalizeRecord(v)
             valid == v.type = "object" /\ Satisfies(t)
         IN /\ file[n] \in DOMAIN valueOf /\ v # NotJson
            /\ \/ v.type = "object" /\ v.description.type \in {"number", "boolean", "object"}
               \/ ~valid /\ v.refused
               \/ valid /\ (Overflows(t) \/ IsDubious(t))
    \/ \E a, b \in DOMAIN file : SubSeq(file, a, b) \in RefusedTexts
==============================================================================
