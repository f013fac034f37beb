------------------------ MODULE ImportCreationProofs -------------------------
(* The safety of POST /v1/imports, for every set of requests and keys, every  *)
(* interleaving and any number of failing calls and deaths of the process.    *)
(* The inductive invariant ties what a request has done to where it is (Done) *)
(* and keeps keys unique and answers true (Honest).                           *)
EXTENDS ImportCreation, ImportStoreProofs

\* Where a request is tells which of the four effects have happened.
DoneBy(r) ==
  /\ pc[r] \in {"unsent", "lookup", "body", "lookupAgain"} =>
       ~Exists(r) /\ object[r] = "none"
  /\ pc[r] \in {"store", "attach", "enqueue"} => Exists(r)
  /\ pc[r] \in {"attach", "enqueue"} => object[r] # "none"
  /\ pc[r] = "enqueue" => r \in uploaded
  /\ pc[r] # "done" => jobs[r] = 0
  /\ object[r] # "none" \/ r \in uploaded => Exists(r)
  /\ jobs[r] # 0 => jobs[r] = 1 /\ r \in uploaded /\ object[r] # "none"

\* What the client of r is told is so.
HonestTo(r) ==
  /\ answer[r] \in Imports => Exists(answer[r]) /\ KeyOf[answer[r]] = KeyOf[r]
  /\ answer[r] = r => jobs[r] = 1

UniqueKeys == \A i, j \in Imports : Exists(i) /\ Exists(j) /\ KeyOf[i] = KeyOf[j] => i = j

CreationInv == /\ StoreInv
               /\ TypeOK
               /\ \A r \in Imports : DoneBy(r) /\ HonestTo(r)
               /\ UniqueKeys

------------------------------------------------------------------------------
\* A request leaves the writes of the store to the store's own proofs.
LEMMA CreationWritesTheStore == [Next]_vars => [StoreNext]_storeVars
BY DEF Next, Send, Handle, FindExisting, RefuseBody, Create, FindAgain, Store, Attach,
       EnqueueImport, StreamEvent, LimitReached, Malformed, ProcessEnds, InsertIfAbsent, Fails,
       vars, StoreNext, WriteRow

LEMMA CreationInitInv == Init => CreationInv
<1> SUFFICES ASSUME Init PROVE CreationInv
  OBVIOUS
<1>1. StoreInv
  BY InitInv DEF Init
<1>2. TypeOK
  BY <1>1, CreationAssumption DEF Init, TypeOK, Step, StoreInv
<1>3. UniqueKeys /\ \A r \in Imports : DoneBy(r)
  BY DEF Init, StoreInit, DoneBy, UniqueKeys, Exists, NewRow
<1>4. \A r \in Imports : HonestTo(r)
  BY CreationAssumption DEF Init, HonestTo, NoAnswer
<1> QED
  BY <1>1, <1>2, <1>3, <1>4 DEF CreationInv

\* A step of request r leaves the others where they are, creates no import but
\* its own, and that only for a key that nobody holds.
StepOf(r) ==
  /\ \A i \in Imports \ {r} :
       /\ pc'[i] = pc[i] /\ answer'[i] = answer[i]
       /\ object'[i] = object[i] /\ jobs'[i] = jobs[i]
       /\ Exists(i)' <=> Exists(i)
       /\ i \in uploaded' <=> i \in uploaded
  /\ Exists(r) => Exists(r)'
  /\ Exists(r)' /\ ~Exists(r) => Holders(r) = {}

\* Then the rest of the invariant need only be shown of r.
LEMMA StepInv ==
  ASSUME CreationInv, StoreInv', TypeOK', NEW r \in Imports, StepOf(r),
         DoneBy(r)', HonestTo(r)'
  PROVE  CreationInv'
<1>1. \A i \in Imports : DoneBy(i)'
  <2> SUFFICES ASSUME NEW i \in Imports, i # r PROVE DoneBy(i)'
    OBVIOUS
  <2> QED
    BY DEF CreationInv, StepOf, DoneBy
<1>2. \A i \in Imports : HonestTo(i)'
  <2> SUFFICES ASSUME NEW i \in Imports, i # r PROVE HonestTo(i)'
    OBVIOUS
  <2>1. HonestTo(i) /\ answer'[i] = answer[i] /\ jobs'[i] = jobs[i]
    BY DEF CreationInv, StepOf
  <2>2. answer[i] \in Imports => Exists(answer[i])'
    <3> SUFFICES ASSUME answer[i] \in Imports PROVE row'[answer'[i]].status # "none"
      BY DEF Exists
    <3>1. row[answer[i]].status # "none" /\ answer'[i] = answer[i]
      BY <2>1 DEF HonestTo, Exists
    <3> QED
      BY <3>1 DEF StepOf, Exists
  <2> QED
    BY <2>1, <2>2 DEF HonestTo
<1>3. UniqueKeys'
  <2> SUFFICES ASSUME NEW i \in Imports, NEW j \in Imports, Exists(i)', Exists(j)',
                      KeyOf[i] = KeyOf[j], i # j
               PROVE  FALSE
    BY DEF UniqueKeys
  <2>1. CASE Exists(i) /\ Exists(j)
    BY <2>1 DEF CreationInv, UniqueKeys
  <2>2. CASE i = r /\ ~Exists(r)
    BY <2>2 DEF StepOf, Holders
  <2>3. CASE j = r /\ ~Exists(r)
    BY <2>3 DEF StepOf, Holders
  <2> QED
    BY <2>1, <2>2, <2>3 DEF StepOf
<1> QED
  BY <1>1, <1>2, <1>3 DEF CreationInv

------------------------------------------------------------------------------
\* What the parts of a step do.

\* The answer of a request under way stays, or becomes an error.
LEMMA AnswerKept ==
  ASSUME CreationInv, NEW r \in Imports, pc[r] # "done",
         Exists(r) => Exists(r)', \A i \in Imports \ {r} : Exists(i)' <=> Exists(i),
         UNCHANGED answer \/ Respond(r, Error)
  PROVE  /\ answer' \in [Imports -> Imports \cup {NoAnswer, Error}]
         /\ \A i \in Imports \ {r} : answer'[i] = answer[i]
         /\ HonestTo(r)'
<1>1. /\ answer \in [Imports -> Imports \cup {NoAnswer, Error}]
      /\ HonestTo(r) /\ DoneBy(r)
  BY DEF CreationInv, TypeOK
<1>2. answer'[r] = answer[r] \/ answer'[r] = Error
  BY <1>1 DEF Respond
<1>3. answer[r] # r /\ Error \notin Imports
  BY <1>1, CreationAssumption DEF HonestTo, DoneBy, Error
<1>4. answer'[r] \in Imports =>
        row'[answer'[r]].status # "none" /\ KeyOf[answer'[r]] = KeyOf[r]
  BY <1>1, <1>2, <1>3 DEF HonestTo, Exists
<1> QED
  BY <1>1, <1>2, <1>3, <1>4 DEF HonestTo, Exists, Respond

\* It is told of an import that has its key.
LEMMA AnswerAccepted ==
  ASSUME CreationInv, NEW r \in Imports, pc[r] # "done", NEW i \in Imports,
         UNCHANGED row, Exists(i), KeyOf[i] = KeyOf[r], i = r => jobs'[r] = 1,
         Accept(r, i)
  PROVE  /\ answer' \in [Imports -> Imports \cup {NoAnswer, Error}]
         /\ \A j \in Imports \ {r} : answer'[j] = answer[j]
         /\ HonestTo(r)'
<1>1. /\ answer \in [Imports -> Imports \cup {NoAnswer, Error}]
      /\ HonestTo(r) /\ DoneBy(r)
  BY DEF CreationInv, TypeOK
<1>2. answer'[r] = answer[r] \/ answer'[r] = i
  BY <1>1 DEF Accept, Respond
<1>3. answer[r] # r
  BY <1>1 DEF HonestTo, DoneBy
<1>4. answer'[r] \in Imports =>
        row'[answer'[r]].status # "none" /\ KeyOf[answer'[r]] = KeyOf[r]
  BY <1>1, <1>2 DEF HonestTo, Exists
<1> QED
  BY <1>1, <1>2, <1>3, <1>4 DEF HonestTo, Exists, Accept, Respond

\* The insert of the row.
LEMMA RowCreated ==
  ASSUME CreationInv, NEW r \in Imports, CreatePendingImport(r), Holders(r) = {}
  PROVE  /\ Exists(r)' /\ \A i \in Imports \ {r} : Exists(i)' <=> Exists(i)
         /\ uploaded' = uploaded
BY DEF CreationInv, StoreInv, StoreTypeOK, CreatePendingImport, Exists, NewRow

\* A call that fails may have taken effect.
LEMMA FaultTyped ==
  ASSUME CreationInv, Fault \/ NoFault PROVE faults' \in 0 .. MaxFaults
BY CreationAssumption DEF CreationInv, TypeOK, Fault, NoFault

------------------------------------------------------------------------------
\* The steps of the handler, and the event that races them.

LEMMA SendInv ==
  ASSUME CreationInv, StoreInv', NEW r \in Imports, Send(r) PROVE CreationInv'
<1>1. /\ pc[r] = "unsent" /\ pc' = [pc EXCEPT ![r] = "lookup"]
      /\ UNCHANGED <<storeVars, answer, object, cut, jobs>> /\ NoFault
  BY DEF Send, At, Goto
<1>2. TypeOK'
  BY <1>1, FaultTyped DEF CreationInv, TypeOK, Step, StoreInv
<1>3. StepOf(r)
  BY <1>1 DEF StepOf, storeVars, Exists, CreationInv, TypeOK
<1>4. DoneBy(r)'
  BY <1>1 DEF CreationInv, TypeOK, DoneBy, storeVars, Exists
<1>5. HonestTo(r)'
  BY <1>1, AnswerKept DEF storeVars, Exists
<1> QED
  BY <1>2, <1>3, <1>4, <1>5, StepInv

LEMMA FindExistingInv ==
  ASSUME CreationInv, StoreInv', NEW r \in Imports, FindExisting(r) PROVE CreationInv'
<1>1. /\ pc[r] = "lookup"
      /\ UNCHANGED <<storeVars, object, cut, jobs>> /\ NoFault
  BY DEF FindExisting, At
<1>2. ~Exists(r) /\ r \notin uploaded /\ object[r] = "none" /\ jobs[r] = 0
  BY <1>1 DEF CreationInv, DoneBy
<1>3. \/ pc' = [pc EXCEPT ![r] = "body"] /\ UNCHANGED answer
      \/ /\ pc' = [pc EXCEPT ![r] = "done"]
         /\ \E i \in Holders(r) : Accept(r, i)
  BY DEF FindExisting, Goto
<1>4. /\ answer' \in [Imports -> Imports \cup {NoAnswer, Error}]
      /\ \A i \in Imports \ {r} : answer'[i] = answer[i]
      /\ HonestTo(r)'
  <2>1. CASE UNCHANGED answer
    BY <1>1, <2>1, AnswerKept DEF storeVars, Exists
  <2>2. ASSUME NEW i \in Holders(r), Accept(r, i)
        PROVE  /\ answer' \in [Imports -> Imports \cup {NoAnswer, Error}]
               /\ \A j \in Imports \ {r} : answer'[j] = answer[j]
               /\ HonestTo(r)'
    <3>1. i \in Imports /\ Exists(i) /\ KeyOf[i] = KeyOf[r] /\ i # r
      BY <1>2 DEF Holders
    <3> QED
      BY <1>1, <2>2, <3>1, AnswerAccepted DEF storeVars
  <2> QED
    BY <1>3, <2>1, <2>2
<1>5. TypeOK'
  BY <1>1, <1>3, <1>4, FaultTyped DEF CreationInv, TypeOK, Step, StoreInv
<1>6. StepOf(r) /\ DoneBy(r)'
  BY <1>1, <1>2, <1>3, <1>4 DEF StepOf, DoneBy, storeVars, Exists, CreationInv, TypeOK
<1> QED
  BY <1>4, <1>5, <1>6, StepInv

LEMMA RefuseBodyInv ==
  ASSUME CreationInv, StoreInv', NEW r \in Imports, RefuseBody(r) PROVE CreationInv'
<1>1. /\ pc[r] = "body" /\ pc' = [pc EXCEPT ![r] = "done"] /\ Respond(r, Error)
      /\ UNCHANGED <<storeVars, object, cut, jobs>> /\ NoFault
  BY DEF RefuseBody, At, Goto
<1>2. /\ answer' \in [Imports -> Imports \cup {NoAnswer, Error}]
      /\ \A i \in Imports \ {r} : answer'[i] = answer[i]
      /\ HonestTo(r)'
  BY <1>1, AnswerKept DEF storeVars, Exists
<1>3. TypeOK'
  BY <1>1, <1>2, FaultTyped DEF CreationInv, TypeOK, Step, StoreInv
<1>4. StepOf(r) /\ DoneBy(r)'
  BY <1>1, <1>2 DEF StepOf, DoneBy, storeVars, Exists, CreationInv, TypeOK
<1> QED
  BY <1>2, <1>3, <1>4, StepInv

LEMMA CreateInv ==
  ASSUME CreationInv, StoreInv', NEW r \in Imports, Create(r) PROVE CreationInv'
<1>1. pc[r] = "body" /\ UNCHANGED <<object, cut, jobs>> /\ (Fault \/ NoFault)
  BY DEF Create, Fails, At
<1>2. ~Exists(r) /\ r \notin uploaded /\ object[r] = "none" /\ jobs[r] = 0
  BY <1>1 DEF CreationInv, DoneBy
<1>3. /\ \/ pc' = [pc EXCEPT ![r] = "store"] /\ CreatePendingImport(r)
         \/ pc' = [pc EXCEPT ![r] = "lookupAgain"] /\ UNCHANGED storeVars
         \/ pc' = [pc EXCEPT ![r] = "done"]
      /\ UNCHANGED storeVars \/ (CreatePendingImport(r) /\ Holders(r) = {})
      /\ UNCHANGED answer \/ Respond(r, Error)
  BY DEF Create, InsertIfAbsent, Fails, Goto
<1>4. /\ CreatePendingImport(r) => Exists(r)'
      /\ \A i \in Imports \ {r} : Exists(i)' <=> Exists(i)
      /\ uploaded' = uploaded
      /\ Exists(r)' => Holders(r) = {}
      /\ UNCHANGED storeVars => ~Exists(r)'
  <2>1. CASE CreatePendingImport(r) /\ Holders(r) = {}
    <3>1. Exists(r)' /\ ~Exists(r)
      BY <1>2, <2>1, RowCreated
    <3>2. ~UNCHANGED storeVars
      BY <3>1 DEF storeVars, Exists
    <3> QED
      BY <2>1, <3>1, <3>2, RowCreated
  <2>2. CASE UNCHANGED storeVars
    <3>1. /\ uploaded' = uploaded
          /\ \A i \in Imports : Exists(i)' <=> Exists(i)
      BY <2>2 DEF storeVars, Exists
    <3>2. ~CreatePendingImport(r)
      <4> SUFFICES ASSUME CreatePendingImport(r) PROVE FALSE
        OBVIOUS
      <4>1. row'[r].status = "pending" /\ row' = row
        BY <2>2 DEF CreatePendingImport, NewRow, storeVars, CreationInv, StoreInv, StoreTypeOK
      <4> QED
        BY <1>2, <4>1 DEF Exists
    <3> QED
      BY <1>2, <3>1, <3>2
  <2> QED
    BY <1>3, <2>1, <2>2
<1>5. /\ answer' \in [Imports -> Imports \cup {NoAnswer, Error}]
      /\ \A i \in Imports \ {r} : answer'[i] = answer[i]
      /\ HonestTo(r)'
  BY <1>1, <1>2, <1>3, <1>4, AnswerKept
<1>6. TypeOK'
  <2>1. pc' \in [Imports -> Step]
    BY <1>3 DEF CreationInv, TypeOK, Step
  <2> QED
    BY <1>1, <1>5, <2>1, FaultTyped DEF CreationInv, TypeOK, StoreInv
<1>7. StepOf(r)
  <2>1. \A i \in Imports \ {r} : pc'[i] = pc[i]
    BY <1>3 DEF CreationInv, TypeOK
  <2> QED
    BY <1>1, <1>2, <1>4, <1>5, <2>1 DEF StepOf
<1>8. DoneBy(r)'
  <2>1. /\ pc'[r] \in {"store", "lookupAgain", "done"}
        /\ pc'[r] = "store" => Exists(r)'
        /\ pc'[r] = "lookupAgain" => ~Exists(r)'
    BY <1>3, <1>4 DEF CreationInv, TypeOK
  <2> QED
    BY <1>1, <1>2, <1>4, <2>1 DEF DoneBy
<1> QED
  BY <1>5, <1>6, <1>7, <1>8, StepInv

LEMMA FindAgainInv ==
  ASSUME CreationInv, StoreInv', NEW r \in Imports, FindAgain(r) PROVE CreationInv'
<1>1. /\ pc[r] = "lookupAgain" /\ pc' = [pc EXCEPT ![r] = "done"]
      /\ UNCHANGED <<storeVars, object, cut, jobs>> /\ (Fault \/ NoFault)
  BY DEF FindAgain, AnswerWithWinner, Fails, At, Goto
<1>2. ~Exists(r) /\ r \notin uploaded /\ object[r] = "none" /\ jobs[r] = 0
  BY <1>1 DEF CreationInv, DoneBy
<1>3. Respond(r, Error) \/ \E i \in Holders(r) : Accept(r, i)
  BY DEF FindAgain, AnswerWithWinner, Fails
<1>4. /\ answer' \in [Imports -> Imports \cup {NoAnswer, Error}]
      /\ \A i \in Imports \ {r} : answer'[i] = answer[i]
      /\ HonestTo(r)'
  <2>1. CASE Respond(r, Error)
    BY <1>1, <2>1, AnswerKept DEF storeVars, Exists
  <2>2. ASSUME NEW i \in Holders(r), Accept(r, i)
        PROVE  /\ answer' \in [Imports -> Imports \cup {NoAnswer, Error}]
               /\ \A j \in Imports \ {r} : answer'[j] = answer[j]
               /\ HonestTo(r)'
    <3>1. i \in Imports /\ Exists(i) /\ KeyOf[i] = KeyOf[r] /\ i # r
      BY <1>2 DEF Holders
    <3> QED
      BY <1>1, <2>2, <3>1, AnswerAccepted DEF storeVars
  <2> QED
    BY <1>3, <2>1, <2>2
<1>5. TypeOK'
  BY <1>1, <1>4, FaultTyped DEF CreationInv, TypeOK, Step, StoreInv
<1>6. StepOf(r) /\ DoneBy(r)'
  BY <1>1, <1>2, <1>4 DEF StepOf, DoneBy, storeVars, Exists, CreationInv, TypeOK
<1> QED
  BY <1>4, <1>5, <1>6, StepInv

LEMMA StreamEventInv ==
  ASSUME CreationInv, StoreInv', NEW r \in Imports, StreamEvent(r) PROVE CreationInv'
<1>1. /\ pc[r] \in Step \ {"unsent", "lookup", "done"} /\ UNCHANGED pc /\ Respond(r, Error)
      /\ cut' = cut \cup {r} \/ UNCHANGED cut
      /\ UNCHANGED <<storeVars, object, jobs>> /\ NoFault
  BY DEF StreamEvent, LimitReached, Malformed, At, Step
<1>2. /\ answer' \in [Imports -> Imports \cup {NoAnswer, Error}]
      /\ \A i \in Imports \ {r} : answer'[i] = answer[i]
      /\ HonestTo(r)'
  BY <1>1, AnswerKept DEF storeVars, Exists
<1>3. TypeOK'
  BY <1>1, <1>2, FaultTyped DEF CreationInv, TypeOK, StoreInv
<1>4. StepOf(r) /\ DoneBy(r)'
  BY <1>1, <1>2 DEF StepOf, DoneBy, storeVars, Exists, CreationInv
<1> QED
  BY <1>2, <1>3, <1>4, StepInv

LEMMA StoreStepInv ==
  ASSUME CreationInv, StoreInv', NEW r \in Imports, Store(r) PROVE CreationInv'
<1>1. /\ pc[r] = "store" /\ UNCHANGED <<storeVars, cut, jobs>> /\ (Fault \/ NoFault)
      /\ UNCHANGED answer \/ Respond(r, Error)
      /\ \/ /\ pc' = [pc EXCEPT ![r] = "attach"]
            /\ object' = [object EXCEPT ![r] = IF r \in cut THEN "truncated" ELSE "whole"]
         \/ /\ pc' = [pc EXCEPT ![r] = "done"]
            /\ \/ object' = [object EXCEPT ![r] = IF r \in cut THEN "truncated" ELSE "whole"]
               \/ UNCHANGED object
  BY DEF Store, Uploaded, Fails, At, Goto
<1>2. Exists(r) /\ jobs[r] = 0
  BY <1>1 DEF CreationInv, DoneBy
<1>3. /\ answer' \in [Imports -> Imports \cup {NoAnswer, Error}]
      /\ \A i \in Imports \ {r} : answer'[i] = answer[i]
      /\ HonestTo(r)'
  BY <1>1, AnswerKept DEF storeVars, Exists
<1>4. /\ pc' \in [Imports -> Step] /\ object' \in [Imports -> {"none", "whole", "truncated"}]
      /\ \A i \in Imports \ {r} : pc'[i] = pc[i] /\ object'[i] = object[i]
      /\ pc'[r] = "done" \/ (pc'[r] = "attach" /\ object'[r] # "none")
  BY <1>1 DEF CreationInv, TypeOK, Step
<1>5. TypeOK'
  BY <1>1, <1>3, <1>4, FaultTyped DEF CreationInv, TypeOK, StoreInv
<1>6. StepOf(r) /\ DoneBy(r)'
  BY <1>1, <1>2, <1>3, <1>4 DEF StepOf, DoneBy, storeVars, Exists
<1> QED
  BY <1>3, <1>5, <1>6, StepInv

LEMMA AttachInv ==
  ASSUME CreationInv, StoreInv', NEW r \in Imports, Attach(r) PROVE CreationInv'
<1>1. /\ pc[r] = "attach" /\ UNCHANGED <<object, cut, jobs>> /\ (Fault \/ NoFault)
      /\ UNCHANGED answer \/ Respond(r, Error)
      /\ AttachUploadedFile(r) \/ UNCHANGED storeVars
      /\ \/ pc' = [pc EXCEPT ![r] = "enqueue"] /\ AttachUploadedFile(r)
         \/ pc' = [pc EXCEPT ![r] = "done"]
  BY DEF Attach, GoOnToEnqueue, Fails, At, Goto
<1>2. Exists(r) /\ jobs[r] = 0 /\ object[r] # "none"
  BY <1>1 DEF CreationInv, DoneBy
<1>3. /\ UNCHANGED row
      /\ uploaded' = uploaded \/ uploaded' = uploaded \cup {r}
      /\ AttachUploadedFile(r) => r \in uploaded'
  BY <1>1 DEF AttachUploadedFile, storeVars
<1>4. /\ answer' \in [Imports -> Imports \cup {NoAnswer, Error}]
      /\ \A i \in Imports \ {r} : answer'[i] = answer[i]
      /\ HonestTo(r)'
  BY <1>1, <1>3, AnswerKept DEF Exists
<1>5. /\ pc' \in [Imports -> Step]
      /\ \A i \in Imports \ {r} : pc'[i] = pc[i]
      /\ pc'[r] = "done" \/ (pc'[r] = "enqueue" /\ r \in uploaded')
  BY <1>1, <1>3 DEF CreationInv, TypeOK, Step
<1>6. TypeOK'
  BY <1>1, <1>4, <1>5, FaultTyped DEF CreationInv, TypeOK, StoreInv
<1>7. StepOf(r) /\ DoneBy(r)'
  BY <1>1, <1>2, <1>3, <1>4, <1>5 DEF StepOf, DoneBy, Exists
<1> QED
  BY <1>4, <1>6, <1>7, StepInv

LEMMA EnqueueImportInv ==
  ASSUME CreationInv, StoreInv', NEW r \in Imports, EnqueueImport(r) PROVE CreationInv'
<1>1. /\ pc[r] = "enqueue" /\ pc' = [pc EXCEPT ![r] = "done"]
      /\ UNCHANGED <<storeVars, object, cut>> /\ (Fault \/ NoFault)
      /\ \/ jobs' = [jobs EXCEPT ![r] = jobs[r] + 1] /\ Accept(r, r)
         \/ /\ jobs' = [jobs EXCEPT ![r] = jobs[r] + 1] \/ UNCHANGED jobs
            /\ Respond(r, Error)
  BY DEF EnqueueImport, Fails, At, Goto
<1>2. Exists(r) /\ jobs[r] = 0 /\ object[r] # "none" /\ r \in uploaded
  BY <1>1 DEF CreationInv, DoneBy
<1>3. /\ jobs' \in [Imports -> Nat]
      /\ \A i \in Imports \ {r} : jobs'[i] = jobs[i]
      /\ jobs'[r] \in {0, 1}
      /\ Accept(r, r) => jobs'[r] = 1 \/ Respond(r, Error)
  BY <1>1, <1>2 DEF CreationInv, TypeOK
<1>4. /\ answer' \in [Imports -> Imports \cup {NoAnswer, Error}]
      /\ \A i \in Imports \ {r} : answer'[i] = answer[i]
      /\ HonestTo(r)'
  <2>1. CASE Respond(r, Error)
    BY <1>1, <2>1, AnswerKept DEF storeVars, Exists
  <2>2. CASE Accept(r, r) /\ jobs'[r] = 1
    BY <1>1, <1>2, <2>2, AnswerAccepted DEF storeVars
  <2> QED
    BY <1>1, <1>3, <2>1, <2>2
<1>5. TypeOK'
  BY <1>1, <1>3, <1>4, FaultTyped DEF CreationInv, TypeOK, Step, StoreInv
<1>6. StepOf(r) /\ DoneBy(r)'
  BY <1>1, <1>2, <1>3, <1>4 DEF StepOf, DoneBy, storeVars, Exists, CreationInv, TypeOK
<1> QED
  BY <1>4, <1>5, <1>6, StepInv

\* The end of the process: where a request was, and which jobs got through,
\* changes nothing that another one is told.
LEMMA ProcessEndsInv ==
  ASSUME CreationInv, StoreInv', ProcessEnds PROVE CreationInv'
<1>1. /\ UNCHANGED <<storeVars, answer, object, cut, faults>>
      /\ pc' = [r \in Imports |-> IF r \in InFlight THEN "done" ELSE pc[r]]
  BY DEF ProcessEnds
<1>2. PICK added \in SUBSET {r \in Imports : At(r, "enqueue")} :
        jobs' = [r \in Imports |-> IF r \in added THEN jobs[r] + 1 ELSE jobs[r]]
  BY DEF ProcessEnds
<1>3. UNCHANGED <<row, uploaded>> /\ \A r \in Imports : Exists(r)' <=> Exists(r)
  BY <1>1 DEF storeVars, Exists
<1>4. TypeOK'
  <2>1. pc' \in [Imports -> Step] /\ jobs' \in [Imports -> Nat]
    BY <1>1, <1>2 DEF CreationInv, TypeOK, Step
  <2> QED
    BY <1>1, <2>1 DEF CreationInv, TypeOK, StoreInv
<1>5. ASSUME NEW r \in Imports PROVE DoneBy(r)' /\ HonestTo(r)'
  <2>1. DoneBy(r) /\ HonestTo(r) /\ jobs[r] \in Nat
    BY DEF CreationInv, TypeOK
  <2>2. \/ jobs'[r] = jobs[r]
        \/ pc[r] = "enqueue" /\ jobs'[r] = jobs[r] + 1
    BY <1>2 DEF At
  <2>3. pc'[r] \in {"unsent", "done"} /\ (pc'[r] = "unsent" => pc[r] = "unsent")
    BY <1>1 DEF InFlight, CreationInv, TypeOK
  <2>4. DoneBy(r)'
    BY <1>1, <1>3, <2>1, <2>2, <2>3 DEF DoneBy
  <2>5. HonestTo(r)'
    <3>1. answer' = answer /\ row' = row
      BY <1>1, <1>3
    <3>3. answer[r] \in Imports => row'[answer'[r]].status # "none"
      BY <2>1, <3>1 DEF HonestTo, Exists
    <3>4. answer[r] = r => jobs'[r] = 1
      BY <2>1, <2>2 DEF HonestTo, DoneBy
    <3> QED
      BY <2>1, <3>1, <3>3, <3>4 DEF HonestTo, Exists
  <2> QED
    BY <2>4, <2>5
<1>6. UniqueKeys'
  BY <1>3 DEF CreationInv, UniqueKeys
<1> QED
  BY <1>4, <1>5, <1>6 DEF CreationInv

------------------------------------------------------------------------------
\* The induction step.

LEMMA CreationNextInv == CreationInv /\ [Next]_vars => CreationInv'
<1> SUFFICES ASSUME CreationInv, [Next]_vars PROVE CreationInv'
  OBVIOUS
<1>1. StoreInv'
  BY CreationWritesTheStore, NextInv DEF CreationInv
<1>2. CASE UNCHANGED vars
  <2>1. /\ UNCHANGED <<row, uploaded, stored, rejections, pc, answer, object, cut, jobs, faults>>
    BY <1>2 DEF vars, requestVars, storeVars
  <2>2. \A r \in Imports : DoneBy(r)' /\ HonestTo(r)'
    BY <2>1 DEF CreationInv, DoneBy, HonestTo, Exists
  <2>3. UniqueKeys'
    BY <2>1 DEF CreationInv, UniqueKeys, Exists
  <2>4. TypeOK'
    BY <1>1, <2>1 DEF CreationInv, TypeOK, StoreInv
  <2> QED
    BY <1>1, <2>2, <2>3, <2>4 DEF CreationInv
<1>3. ASSUME NEW r \in Imports, Handle(r) PROVE CreationInv'
  BY <1>1, <1>3, FindExistingInv, RefuseBodyInv, CreateInv, FindAgainInv, StoreStepInv,
     AttachInv, EnqueueImportInv DEF Handle
<1> QED
  BY <1>1, <1>2, <1>3, SendInv, StreamEventInv, ProcessEndsInv DEF Next

------------------------------------------------------------------------------
\* The files.

\* A step of one request moves nothing of another.
LEMMA OthersAlone ==
  ASSUME CreationInv, NEW r \in Imports, NEW s \in Imports, s # r,
         Send(s) \/ Handle(s) \/ StreamEvent(s)
  PROVE  /\ pc'[r] = pc[r] /\ answer'[r] = answer[r] /\ jobs'[r] = jobs[r]
         /\ Exists(r)' <=> Exists(r)
         /\ object'[r] = object[r] /\ (r \in cut' <=> r \in cut)
         /\ r \in uploaded' <=> r \in uploaded
<1>1. /\ pc \in [Imports -> Step] /\ jobs \in [Imports -> Nat] /\ row \in [Imports -> Row]
      /\ answer \in [Imports -> Imports \cup {NoAnswer, Error}]
      /\ object \in [Imports -> {"none", "whole", "truncated"}]
  BY DEF CreationInv, TypeOK, StoreTypeOK
<1>2. pc'[r] = pc[r]
  BY <1>1 DEF Send, Handle, StreamEvent, LimitReached, Malformed, FindExisting, RefuseBody, Create, InsertIfAbsent,
     FindAgain, AnswerWithWinner, Store, Uploaded, Attach, GoOnToEnqueue, EnqueueImport, Fails, Goto
<1>3. answer'[r] = answer[r]
  BY <1>1 DEF Send, Handle, StreamEvent, LimitReached, Malformed, FindExisting, RefuseBody, Create, FindAgain,
     AnswerWithWinner, Store, Attach, GoOnToEnqueue, EnqueueImport, Fails, Accept, Respond
<1>4. jobs'[r] = jobs[r]
  BY <1>1 DEF Send, Handle, StreamEvent, LimitReached, Malformed, FindExisting, RefuseBody, Create, FindAgain, Store,
     Attach, EnqueueImport, Fails
<1>5. UNCHANGED row \/ CreatePendingImport(s)
  BY DEF Send, Handle, StreamEvent, LimitReached, Malformed, FindExisting, RefuseBody, Create, InsertIfAbsent, FindAgain,
     Store, Attach, AttachUploadedFile, EnqueueImport, Fails, storeVars
<1>6. row'[r] = row[r]
  BY <1>1, <1>5 DEF CreatePendingImport
<1>7. object'[r] = object[r] /\ (r \in cut' <=> r \in cut)
  BY <1>1 DEF Send, Handle, StreamEvent, LimitReached, Malformed, FindExisting, RefuseBody, Create,
     FindAgain, Store, Attach, EnqueueImport, Fails
<1>8. r \in uploaded' <=> r \in uploaded
  BY DEF Send, Handle, StreamEvent, LimitReached, Malformed, FindExisting, RefuseBody, Create,
     InsertIfAbsent, CreatePendingImport, FindAgain, Store, Attach, AttachUploadedFile,
     EnqueueImport, Fails, storeVars
<1> QED
  BY <1>2, <1>3, <1>4, <1>6, <1>7, <1>8 DEF Exists

\* What is known of the file of r and of its answer.
FileOf(r) ==
  /\ pc[r] # "done" => answer[r] \in {NoAnswer, Error}
  /\ r \in cut \/ object[r] = "truncated" => answer[r] = Error
  /\ r \in uploaded => object[r] # "none"
  /\ answer[r] = r => object[r] = "whole"

LEMMA FileStep ==
  ASSUME CreationInv, CreationInv', NEW r \in Imports, FileOf(r),
         Send(r) \/ Handle(r) \/ StreamEvent(r)
  PROVE  FileOf(r)'
<1>1. /\ pc \in [Imports -> Step] /\ answer \in [Imports -> Imports \cup {NoAnswer, Error}]
      /\ object \in [Imports -> {"none", "whole", "truncated"}] /\ DoneBy(r)
      /\ NoAnswer \notin Imports /\ Error \notin Imports /\ NoAnswer # Error
  BY CreationAssumption DEF CreationInv, TypeOK, NoAnswer, Error
<1>2. pc[r] # "done" /\ answer[r] \in {NoAnswer, Error}
  BY DEF Send, Handle, StreamEvent, LimitReached, Malformed, FindExisting, RefuseBody, Create,
     FindAgain, Store, Attach, EnqueueImport, At, FileOf
<1>3. CASE Respond(r, Error) /\ (r \in uploaded' => object'[r] # "none")
  <2>1. answer'[r] = Error
    BY <1>1, <1>2, <1>3 DEF Respond
  <2> QED
    BY <1>1, <1>3, <2>1 DEF FileOf
<1>4. CASE /\ UNCHANGED <<answer, cut>>
           /\ object'[r] = object[r] \/ (object'[r] = "truncated" /\ r \in cut) \/ object'[r] = "whole"
           /\ r \in uploaded' => object'[r] # "none"
  BY <1>1, <1>2, <1>4 DEF FileOf
<1>5. ASSUME NEW i \in Imports, Accept(r, i), UNCHANGED <<object, cut, uploaded>>, pc'[r] = "done",
             i = r => object[r] # "none"
      PROVE  FileOf(r)'
  <2>1. answer'[r] = IF answer[r] = NoAnswer THEN i ELSE answer[r]
    BY <1>1, <1>5 DEF Accept, Respond
  <2>2. answer[r] = NoAnswer => r \notin cut /\ object[r] # "truncated"
    BY <1>1 DEF FileOf
  <2> QED
    BY <1>1, <1>2, <1>5, <2>1, <2>2 DEF FileOf
<1>6. CASE Send(r) \/ RefuseBody(r) \/ StreamEvent(r)
  <2>1. /\ UNCHANGED <<object, uploaded>>
        /\ Respond(r, Error) \/ UNCHANGED <<answer, cut>>
    BY <1>6 DEF Send, RefuseBody, StreamEvent, LimitReached, Malformed, storeVars
  <2> QED
    BY <1>3, <1>4, <2>1 DEF FileOf
<1>7. CASE FindExisting(r) \/ FindAgain(r)
  <2>1. /\ UNCHANGED <<object, cut, uploaded>> /\ ~Exists(r)
        /\ pc'[r] = "done" \/ UNCHANGED answer
    BY <1>1, <1>7 DEF FindExisting, FindAgain, AnswerWithWinner, Fails, Goto, At, DoneBy, storeVars
  <2>2. \/ Respond(r, Error) \/ UNCHANGED answer
        \/ \E i \in Imports : Exists(i) /\ Accept(r, i) /\ pc'[r] = "done"
    BY <1>1, <1>7 DEF FindExisting, FindAgain, AnswerWithWinner, Fails, Holders, Goto
  <2> QED
    BY <1>3, <1>4, <1>5, <2>1, <2>2 DEF FileOf
<1>8. CASE Create(r)
  <2>1. UNCHANGED <<object, cut, uploaded>> /\ (Respond(r, Error) \/ UNCHANGED answer)
    BY <1>8 DEF Create, InsertIfAbsent, CreatePendingImport, Fails, storeVars
  <2> QED
    BY <1>3, <1>4, <2>1 DEF FileOf
<1>9. CASE Store(r)
  <2>1. /\ UNCHANGED <<cut, uploaded>> /\ (Respond(r, Error) \/ UNCHANGED answer)
        /\ \/ UNCHANGED object
           \/ object' = [object EXCEPT ![r] = IF r \in cut THEN "truncated" ELSE "whole"]
    BY <1>9 DEF Store, Uploaded, Fails, storeVars
  <2>2. \/ object'[r] = object[r]
        \/ (object'[r] = "truncated" /\ r \in cut) \/ object'[r] = "whole"
    BY <1>1, <2>1
  <2>3. r \in uploaded' => object'[r] # "none"
    BY <2>1, <2>2 DEF FileOf
  <2> QED
    BY <1>3, <1>4, <2>1, <2>2, <2>3
<1>10. CASE Attach(r)
  <2>1. UNCHANGED <<object, cut>> /\ (Respond(r, Error) \/ UNCHANGED answer) /\ object[r] # "none"
    BY <1>1, <1>10 DEF Attach, GoOnToEnqueue, Fails, At, DoneBy
  <2> QED
    BY <1>3, <1>4, <2>1
<1>11. CASE EnqueueImport(r)
  <2>1. /\ UNCHANGED <<object, cut, uploaded>> /\ pc'[r] = "done" /\ object[r] # "none"
        /\ Respond(r, Error) \/ Accept(r, r)
    BY <1>1, <1>11 DEF EnqueueImport, Fails, Goto, At, DoneBy, storeVars
  <2> QED
    BY <1>3, <1>5, <2>1
<1> QED
  BY <1>6, <1>7, <1>8, <1>9, <1>10, <1>11 DEF Handle

LEMMA FilesStep ==
  ASSUME CreationInv, CreationInv', [Next]_vars, NEW r \in Imports, FileOf(r)
  PROVE  FileOf(r)'
<1>1. CASE UNCHANGED vars
  BY <1>1 DEF FileOf, vars, storeVars, requestVars
<1>2. CASE ProcessEnds
  <2>1. UNCHANGED <<answer, object, cut, uploaded>> /\ (pc'[r] = "done" \/ pc'[r] = pc[r])
    BY <1>2 DEF ProcessEnds, storeVars
  <2> QED
    BY <2>1 DEF FileOf
<1>3. ASSUME NEW s \in Imports, s # r, Send(s) \/ Handle(s) \/ StreamEvent(s) PROVE FileOf(r)'
  BY <1>3, OthersAlone DEF FileOf
<1> QED
  BY <1>1, <1>2, <1>3, FileStep DEF Next

------------------------------------------------------------------------------
\* What the requests can rely on.

LEMMA CreationIsInductive == Spec => []CreationInv
BY CreationInitInv, CreationNextInv, PTL DEF Spec

\* Every variable of the API process keeps its type.
THEOREM CreationTyped == Spec => []TypeOK
<1>1. CreationInv => TypeOK
  BY DEF CreationInv
<1> QED
  BY CreationIsInductive, <1>1, PTL

LEMMA CreationInvImplies == CreationInv => OneImportPerKey /\ JobsHaveTheirFile
<1> SUFFICES ASSUME CreationInv PROVE OneImportPerKey /\ JobsHaveTheirFile
  OBVIOUS
<1>1. ASSUME NEW r \in Imports, NEW s \in Imports, answer[r] \in Imports,
             answer[s] \in Imports, KeyOf[r] = KeyOf[s]
      PROVE  answer[r] = answer[s]
  BY <1>1 DEF CreationInv, HonestTo, UniqueKeys
<1>2. OneImportPerKey
  BY <1>1 DEF CreationInv, UniqueKeys, OneImportPerKey
<1>3. JobsHaveTheirFile
  BY DEF CreationInv, DoneBy, TypeOK, JobsHaveTheirFile
<1> QED
  BY <1>2, <1>3

\* ADR-003: a repeated key creates no second import, and the clients that use
\* one key are told one id, whatever the order of their lookups and inserts.
THEOREM KeysAreUnique == Spec => []OneImportPerKey
BY CreationIsInductive, CreationInvImplies, PTL

\* A worker never takes the job of an import whose row, uploaded_file row or
\* object is not there yet, and no import has two jobs.
THEOREM JobsComeLast == Spec => []JobsHaveTheirFile
BY CreationIsInductive, CreationInvImplies, PTL

\* No object is without its import, and no uploaded_file row without its object;
\* whose file was cut off has been refused, and whose import was acknowledged has
\* it stored whole, whenever the limit event, the errors and the outcome come.
THEOREM FilesHaveTheirImport == Spec => []FilesAreAccountedFor
<1>1. Init => \A r \in Imports : FileOf(r)
  BY CreationAssumption DEF Init, StoreInit, FileOf, NoAnswer
<1>2. CreationInv /\ CreationInv' /\ (\A r \in Imports : FileOf(r)) /\ [Next]_vars
        => (\A r \in Imports : FileOf(r))'
  BY FilesStep
<1>3. CreationInv /\ (\A r \in Imports : FileOf(r)) => FilesAreAccountedFor
  BY DEF CreationInv, DoneBy, FileOf, FilesAreAccountedFor
<1> QED
  BY CreationIsInductive, <1>1, <1>2, <1>3, PTL DEF Spec

\* The client that created an import hears of it after its job is in the queue.
THEOREM OwnJobIsThere == Spec => []OwnImportIsQueued
<1>1. CreationInv => OwnImportIsQueued
  BY DEF CreationInv, HonestTo, OwnImportIsQueued
<1> QED
  BY CreationIsInductive, <1>1, PTL

LEMMA AnswerStep ==
  ASSUME TypeOK, [Next]_vars
  PROVE  \A r \in Imports : answer[r] # NoAnswer => answer'[r] = answer[r]
<1>1. UNCHANGED answer \/ \E r \in Imports, a \in Imports \cup {Error} : Respond(r, a)
  BY DEF Next, Send, Handle, FindExisting, RefuseBody, Create, InsertIfAbsent, FindAgain,
     AnswerWithWinner, Store, Attach, GoOnToEnqueue, EnqueueImport, StreamEvent, LimitReached,
     Malformed, ProcessEnds, Fails, Accept, Holders, vars, requestVars
<1>2. ASSUME NEW r \in Imports, NEW a, Respond(r, a), NEW i \in Imports, answer[i] # NoAnswer
      PROVE  answer'[i] = answer[i]
  BY <1>2 DEF Respond, TypeOK
<1> QED
  BY <1>1, <1>2

\* Of the limit event, the errors and the outcome, the first to answer stands.
THEOREM FirstAnswerStands == Spec => AnsweredOnce
<1>1. ASSUME TypeOK, [Next]_vars
      PROVE  [\A r \in Imports : answer[r] # NoAnswer => answer'[r] = answer[r]]_vars
  BY <1>1, AnswerStep
<1> QED
  BY <1>1, CreationTyped, PTL DEF Spec, AnsweredOnce

------------------------------------------------------------------------------
\* The promise.

\* It creates an import only for a key that nobody holds, adds a job only for
\* an import that has none, and answers with an error or a holder of its key.
LEMMA OwnEffects ==
  ASSUME CreationInv, NEW r \in Imports, Send(r) \/ Handle(r) \/ StreamEvent(r)
  PROVE  /\ Exists(r) => Exists(r)'
         /\ Exists(r)' /\ ~Exists(r) => Holders(r) = {}
         /\ jobs'[r] = jobs[r] \/ (jobs[r] = 0 /\ jobs'[r] = 1 /\ Exists(r))
         /\ \/ UNCHANGED answer \/ Respond(r, Error)
            \/ \E i \in Imports : /\ Accept(r, i) /\ Exists(i) /\ KeyOf[i] = KeyOf[r]
                                  /\ i = r => jobs'[r] > 0
<1>1. /\ pc \in [Imports -> Step] /\ jobs \in [Imports -> Nat] /\ row \in [Imports -> Row]
      /\ DoneBy(r)
  BY DEF CreationInv, TypeOK, StoreTypeOK
<1>2. UNCHANGED row \/ (CreatePendingImport(r) /\ Holders(r) = {})
  BY DEF Send, Handle, StreamEvent, LimitReached, Malformed, FindExisting, RefuseBody, Create, InsertIfAbsent, FindAgain,
     Store, Attach, AttachUploadedFile, EnqueueImport, Fails, storeVars
<1>3. /\ Exists(r) => Exists(r)'
      /\ Exists(r)' /\ ~Exists(r) => Holders(r) = {}
  BY <1>2 DEF Exists, CreatePendingImport
<1>4. jobs' = jobs \/ (EnqueueImport(r) /\ jobs' = [jobs EXCEPT ![r] = jobs[r] + 1])
  BY DEF Send, Handle, StreamEvent, LimitReached, Malformed, FindExisting, RefuseBody, Create, FindAgain, Store, Attach,
     EnqueueImport, Fails
<1>5. jobs'[r] = jobs[r] \/ (jobs[r] = 0 /\ jobs'[r] = 1 /\ Exists(r))
  BY <1>1, <1>4 DEF EnqueueImport, At, DoneBy
<1>6. CASE FindExisting(r)
  <2>1. ~Exists(r)
    BY <1>1, <1>6 DEF FindExisting, At, DoneBy
  <2> QED
    BY <1>3, <1>5, <1>6, <2>1 DEF FindExisting, Holders
<1>7. CASE FindAgain(r)
  <2>1. ~Exists(r)
    BY <1>1, <1>7 DEF FindAgain, At, DoneBy
  <2> QED
    BY <1>3, <1>5, <1>7, <2>1 DEF FindAgain, AnswerWithWinner, Fails, Holders
<1>8. CASE EnqueueImport(r)
  <2>1. Exists(r) /\ jobs[r] = 0
    BY <1>1, <1>8 DEF EnqueueImport, At, DoneBy
  <2>2. Accept(r, r) => jobs'[r] > 0 \/ Respond(r, Error)
    BY <1>1, <1>8, <2>1 DEF EnqueueImport, Fails
  <2> QED
    BY <1>3, <1>5, <1>8, <2>1, <2>2 DEF EnqueueImport, Fails
<1>9. CASE Send(r) \/ RefuseBody(r) \/ Create(r) \/ Store(r) \/ Attach(r) \/ StreamEvent(r)
  BY <1>3, <1>5, <1>9 DEF Send, RefuseBody, Create, Store, Attach, GoOnToEnqueue, StreamEvent,
     LimitReached, Malformed, Fails
<1> QED
  BY <1>6, <1>7, <1>8, <1>9 DEF Handle

CreatedImports == {i \in Imports : Exists(i)}
QueuedImports == {i \in Imports : jobs[i] > 0}

\* So it serves that request as promised.
LEMMA Serves ==
  ASSUME CreationInv, NEW r \in Imports, Send(r) \/ Handle(r) \/ StreamEvent(r)
  PROVE  Promise!Serve(r)
<1>1. /\ jobs \in [Imports -> Nat]
      /\ answer \in [Imports -> Imports \cup {NoAnswer, Error}]
      /\ NoAnswer \notin Imports /\ Error \notin Imports /\ NoAnswer # Error
  BY CreationAssumption DEF CreationInv, TypeOK, NoAnswer, Error
<1>2. \A i \in Imports \ {r} : jobs'[i] = jobs[i] /\ (Exists(i)' <=> Exists(i))
  BY OthersAlone
<1>3. Promise!Create(r) \/ UNCHANGED CreatedImports
  <2>1. CASE Exists(r)' <=> Exists(r)
    BY <1>2, <2>1 DEF CreatedImports
  <2>2. CASE Exists(r)' /\ ~Exists(r)
    <3>1. CreatedImports' = CreatedImports \cup {r}
      BY <1>2, <2>2 DEF CreatedImports
    <3>2. \A s \in CreatedImports : KeyOf[s] # KeyOf[r]
      BY <2>2, OwnEffects DEF CreatedImports, Holders
    <3> QED
      BY <3>1, <3>2 DEF Promise!Create, CreatedImports
  <2> QED
    BY <2>1, <2>2, OwnEffects
<1>4. Promise!Queue(r) \/ UNCHANGED QueuedImports
  <2>1. CASE jobs'[r] = jobs[r]
    BY <1>2, <2>1 DEF QueuedImports
  <2>2. CASE jobs[r] = 0 /\ jobs'[r] = 1 /\ Exists(r)
    BY <1>2, <2>2 DEF QueuedImports, Promise!Queue
  <2> QED
    BY <2>1, <2>2, OwnEffects
<1>5. Promise!Answer(r) \/ UNCHANGED answer
  <2>1. CASE answer[r] # NoAnswer
    BY <1>1, <2>1, OwnEffects DEF Respond, Accept
  <2>2. CASE answer[r] = NoAnswer /\ Respond(r, Error)
    <3>1. answer' = [answer EXCEPT ![r] = "error"]
      BY <1>1, <2>2 DEF Respond, Error
    <3> QED
      BY <1>1, <2>2, <3>1 DEF Promise!Answer, Error, NoAnswer
  <2>3. ASSUME answer[r] = NoAnswer, NEW i \in Imports, Accept(r, i), Exists(i),
               KeyOf[i] = KeyOf[r], i = r => jobs'[r] > 0
        PROVE  Promise!Answer(r)
    <3>1. answer' = [answer EXCEPT ![r] = i]
      BY <1>1, <2>3 DEF Accept, Respond
    <3>2. i = r => r \in {k \in Imports : jobs'[k] > 0}
      BY <2>3
    <3> QED
      BY <2>3, <3>1, <3>2 DEF Promise!Answer, NoAnswer
  <2> QED
    BY <2>1, <2>2, <2>3, OwnEffects
<1> QED
  BY <1>3, <1>4, <1>5 DEF Promise!Serve, CreatedImports, QueuedImports

LEMMA Abandons == ASSUME CreationInv, ProcessEnds PROVE Promise!Abandon
<1>1. UNCHANGED <<row, answer>>
  BY DEF ProcessEnds, storeVars
<1>2. PICK added \in SUBSET {r \in Imports : At(r, "enqueue")} :
        jobs' = [r \in Imports |-> IF r \in added THEN jobs[r] + 1 ELSE jobs[r]]
  BY DEF ProcessEnds
<1>3. ASSUME NEW r \in Imports
      PROVE  (jobs[r] > 0 => jobs'[r] > 0) /\ (jobs'[r] > 0 => Exists(r))
  <2>1. DoneBy(r) /\ jobs[r] \in Nat
    BY DEF CreationInv, TypeOK
  <2>2. r \in added => pc[r] = "enqueue"
    BY DEF At
  <2> QED
    BY <1>2, <2>1, <2>2 DEF DoneBy
<1>4. UNCHANGED CreatedImports
  BY <1>1 DEF CreatedImports, Exists
<1> QED
  BY <1>1, <1>3, <1>4 DEF Promise!Abandon, CreatedImports

LEMMA PromiseStep ==
  ASSUME CreationInv, [Next]_vars
  PROVE  Promise!Next \/ UNCHANGED <<CreatedImports, QueuedImports, answer>>
<1>1. CASE UNCHANGED vars
  BY <1>1 DEF vars, storeVars, requestVars, CreatedImports, QueuedImports, Exists
<1>2. CASE Next
  BY <1>2, Serves, Abandons DEF Next, Promise!Next
<1> QED
  BY <1>1, <1>2

LEMMA PromiseInit == Init => Promise!Init
BY DEF Init, StoreInit, Exists, NewRow, NoAnswer, Promise!Init

\* For any requests, keys, failures and ends of the process: the first request
\* of a key creates its import, for good, and each client is told once, of that
\* import or of an error.
THEOREM HandlerKeepsItsPromise == Spec => ImplementsPromise
<1>1. CreationInv /\ [Next]_vars
        => [Promise!Next]_<<CreatedImports, QueuedImports, answer>>
  BY PromiseStep
<1> QED
  BY CreationIsInductive, PromiseInit, <1>1, PTL
  DEF Spec, ImplementsPromise, Promise!Spec, CreatedImports, QueuedImports
==============================================================================
