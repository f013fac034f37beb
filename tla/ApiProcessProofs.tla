-------------------------- MODULE ApiProcessProofs ---------------------------
(* The API process as a whole: what uploads and registrations can rely on     *)
(* holds across its shutdowns, forced or not, its deaths and its restarts,    *)
(* for every number of clients, requests, failures and websockets.            *)
EXTENDS ApiProcess, ImportCreationProofs

\* What a client of the auth routes has been told is so; and no account is
\* its own while its insert is still to come.
Truthful(c) ==
  LET owner == account[EmailOf[c]]
  IN /\ client[c].registered = "ok" => owner = c
     /\ client[c].registered = "conflict" => owner # Auth!NoAccount
     /\ client[c].registered = "error" => faults > 0 \/ owner \notin {Auth!NoAccount, c}
     /\ client[c].pc = "createUser" => owner # c

AuthInv == /\ Auth!TypeOK
           /\ faults \in Nat
           /\ \A c \in Clients : Truthful(c)

\* A request under way has been told of no import, and one that ended with an
\* import and no job was refused, or died with the process.
Accounted(r) ==
  /\ pc[r] # "done" => answer[r] \in {NoAnswer, Error}
  /\ Exists(r) /\ pc[r] = "done" /\ jobs[r] = 0 => answer[r] = Error \/ crashes + forced > 0

\* The HTTP server stays closed to new connections, and once it is closed there
\* are none: no request is left, and none can come.  The timer ends a shutdown
\* at most once.
ProcessInv ==
  /\ phase \in ShutdownPhases => ~listening /\ forced < shutdowns
  /\ phase = "disconnect" => ConnectionsEnded
  /\ {crashes, forced} \subseteq Nat

ApiInv == /\ CreationInv
          /\ AuthInv
          /\ ApiTypeOK
          /\ \A r \in Imports : Accounted(r)
          /\ ProcessInv

------------------------------------------------------------------------------
\* Uploads: all that a registration shares with them is the count of faults.

LEMMA OnlyFaults ==
  ASSUME CreationInv, UNCHANGED <<storeVars, requestVars>>, faults' \in 0 .. MaxFaults
  PROVE  CreationInv'
<1>1. UNCHANGED <<row, uploaded, stored, rejections, pc, answer, object, cut, jobs>>
  BY DEF storeVars, requestVars
<1>2. StoreInv'
  BY NextInv DEF CreationInv, storeVars
<1>3. TypeOK'
  BY <1>1, <1>2 DEF CreationInv, TypeOK, StoreInv
<1>4. UniqueKeys' /\ \A r \in Imports : DoneBy(r)' /\ HonestTo(r)'
  BY <1>1 DEF CreationInv, UniqueKeys, DoneBy, HonestTo, Exists
<1> QED
  BY <1>2, <1>3, <1>4 DEF CreationInv

LEMMA AuthFaults ==
  ASSUME NEW c \in Clients, Auth!Request(c) \/ Auth!Handle(c), faults \in 0 .. MaxFaults
  PROVE  faults' \in 0 .. MaxFaults /\ (faults' = faults \/ faults' = faults + 1)
BY CreationAssumption DEF Auth!Request, Auth!Register, Auth!Login, Auth!Handle,
   Auth!FindByEmail, Auth!CreateUser, Auth!CheckPassword, Auth!Fault, Auth!NoFault

LEMMA ApiStepCreation == CreationInv /\ [ApiNext]_apiVars => CreationInv'
<1> SUFFICES ASSUME CreationInv, [ApiNext]_apiVars PROVE CreationInv'
  OBVIOUS
<1>1. CASE [Next]_vars
  BY <1>1, CreationNextInv
<1>2. ASSUME NEW c \in Clients, Account(c) PROVE CreationInv'
  <2>1. faults \in 0 .. MaxFaults
    BY DEF CreationInv, TypeOK
  <2> QED
    BY <1>2, <2>1, AuthFaults, OnlyFaults DEF Account
<1> QED
  BY <1>1, <1>2 DEF ApiNext, Connection, Upload, Probe, AnswerProbe, Probed, Socket, Boot,
     Shutdown, HttpServerClosed, Exit, ForceExit, Crash, Gone, Next, apiVars

------------------------------------------------------------------------------
\* Registrations.

\* Nobody takes over an account that is there.
LEMMA AccountsKept ==
  ASSUME Auth!TypeOK, NEW c \in Clients, Auth!Request(c) \/ Auth!Handle(c)
  PROVE  /\ \/ UNCHANGED account
            \/ /\ account[EmailOf[c]] = Auth!NoAccount
               /\ account' = [account EXCEPT ![EmailOf[c]] = c]
               /\ client[c].pc = "createUser"
         /\ \A d \in Clients \ {c} : client'[d] = client[d]
BY DEF Auth!TypeOK, Auth!Request, Auth!Register, Auth!Login, Auth!Handle, Auth!FindByEmail,
   Auth!CreateUser, Auth!CheckPassword, Auth!Registered, Auth!LoggedIn, Auth!Insert,
   Auth!AccountOf, Auth!At

LEMMA AuthStepTyped ==
  ASSUME Auth!TypeOK, NEW c \in Clients, Auth!Request(c) \/ Auth!Handle(c)
  PROVE  Auth!TypeOK'
<1>1. EmailOf[c] \in Auth!Emails
  BY DEF Auth!Emails
<1>2. account' \in [Auth!Emails -> Clients \cup {Auth!NoAccount}]
  BY <1>1, AccountsKept DEF Auth!TypeOK
<1>3. client[c] \in Auth!Client
  BY DEF Auth!TypeOK
<1>4. client' \in [Clients -> Auth!Client]
  BY <1>3 DEF Auth!TypeOK, Auth!Client, Auth!Request, Auth!Register, Auth!Login, Auth!Handle,
     Auth!FindByEmail, Auth!CreateUser, Auth!CheckPassword, Auth!Registered, Auth!LoggedIn
<1> QED
  BY <1>2, <1>4 DEF Auth!TypeOK

\* The client whose request it is.
LEMMA AuthStepTruthful ==
  ASSUME AuthInv, NEW c \in Clients, Auth!Request(c) \/ Auth!Handle(c)
  PROVE  Truthful(c)'
<1>1. /\ client[c] \in Auth!Client /\ EmailOf[c] \in Auth!Emails
      /\ Truthful(c) /\ faults \in Nat /\ Auth!NoAccount \notin Clients
      /\ account \in [Auth!Emails -> Clients \cup {Auth!NoAccount}]
      /\ client \in [Clients -> Auth!Client]
  BY ApiAssumption DEF AuthInv, Auth!TypeOK, Auth!Emails
<1>2. CASE Auth!Request(c)
  BY <1>1, <1>2 DEF Truthful, Auth!Request, Auth!Register, Auth!Login, Auth!Client, Auth!At
<1>3. CASE Auth!FindByEmail(c)
  BY <1>1, <1>3 DEF Truthful, Auth!FindByEmail, Auth!Registered, Auth!Client, Auth!At,
     Auth!AccountOf, Auth!Fault, Auth!NoFault
<1>4. CASE Auth!CreateUser(c)
  BY <1>1, <1>4 DEF Truthful, Auth!CreateUser, Auth!Registered, Auth!Client, Auth!At,
     Auth!AccountOf, Auth!Insert, Auth!Fault, Auth!NoFault
<1>5. CASE Auth!CheckPassword(c)
  BY <1>1, <1>5 DEF Truthful, Auth!CheckPassword, Auth!LoggedIn, Auth!Client, Auth!At,
     Auth!Fault, Auth!NoFault
<1> QED
  BY <1>2, <1>3, <1>4, <1>5 DEF Auth!Handle

LEMMA AuthStepInv ==
  ASSUME AuthInv, NEW c \in Clients, Auth!Request(c) \/ Auth!Handle(c), faults' \in Nat,
         faults' >= faults
  PROVE  AuthInv'
<1>1. ASSUME NEW d \in Clients, d # c PROVE Truthful(d)'
  <2>1. Truthful(d) /\ client'[d] = client[d] /\ EmailOf[d] \in Auth!Emails
    BY <1>1, AccountsKept DEF AuthInv, Auth!Emails
  <2>2. \/ account'[EmailOf[d]] = account[EmailOf[d]]
        \/ account[EmailOf[d]] = Auth!NoAccount /\ account'[EmailOf[d]] = c
    BY <2>1, AccountsKept DEF AuthInv, Auth!TypeOK
  <2> QED
    BY <1>1, <2>1, <2>2, ApiAssumption DEF Truthful, AuthInv
<1> QED
  BY <1>1, AuthStepTyped, AuthStepTruthful DEF AuthInv

\* The end of the process: inserts that were under way may have got through.
LEMMA DroppedInv ==
  ASSUME AuthInv, Auth!Dropped, UNCHANGED faults PROVE AuthInv'
<1>1. /\ client \in [Clients -> Auth!Client] /\ faults \in Nat
      /\ account \in [Auth!Emails -> Clients \cup {Auth!NoAccount}]
  BY DEF AuthInv, Auth!TypeOK
<1>2. client' = [c \in Clients |-> [client[c] EXCEPT !.pc = "idle"]]
  BY DEF Auth!Dropped
<1>3. account' \in [Auth!Emails -> Clients \cup {Auth!NoAccount}]
  BY DEF Auth!Dropped
<1>4. client' \in [Clients -> Auth!Client]
  BY <1>1, <1>2 DEF Auth!Client
<1>5. ASSUME NEW c \in Clients PROVE Truthful(c)'
  <2>1. /\ Truthful(c) /\ EmailOf[c] \in Auth!Emails
        /\ client'[c].pc = "idle" /\ client'[c].registered = client[c].registered
    BY <1>1, <1>2 DEF AuthInv, Auth!Emails, Auth!Client
  <2>2. \/ account'[EmailOf[c]] = account[EmailOf[c]]
        \/ /\ account[EmailOf[c]] = Auth!NoAccount
           /\ account'[EmailOf[c]] \in Clients
           /\ client[c].registered # "ok"
    BY <2>1, ApiAssumption DEF Auth!Dropped, Truthful
  <2>3. CASE account'[EmailOf[c]] = account[EmailOf[c]]
    BY <2>1, <2>3 DEF Truthful
  <2>4. CASE account[EmailOf[c]] = Auth!NoAccount /\ account'[EmailOf[c]] \in Clients
             /\ client[c].registered # "ok"
    BY <2>1, <2>4, ApiAssumption DEF Truthful
  <2> QED
    BY <2>2, <2>3, <2>4
<1> QED
  BY <1>1, <1>3, <1>4, <1>5 DEF AuthInv, Auth!TypeOK

LEMMA ApiStepAuth == ApiInv /\ [ApiNext]_apiVars => AuthInv'
<1> SUFFICES ASSUME ApiInv, [ApiNext]_apiVars PROVE AuthInv'
  OBVIOUS
<1>1. AuthInv /\ faults \in 0 .. MaxFaults /\ MaxFaults \in Nat
  BY CreationAssumption DEF ApiInv, CreationInv, TypeOK
<1>2. ASSUME UNCHANGED authVars, faults' \in Nat, faults' >= faults PROVE AuthInv'
  <2>1. UNCHANGED <<account, client>>
    BY <1>2 DEF authVars
  <2>2. \A c \in Clients : Truthful(c)'
    BY <1>1, <1>2, <2>1 DEF AuthInv, Truthful
  <2> QED
    BY <1>1, <1>2, <2>1, <2>2 DEF AuthInv, Auth!TypeOK
<1>3. ASSUME NEW r \in Imports, Upload(r) PROVE AuthInv'
  <2>1. faults' = faults \/ faults' = faults + 1
    BY <1>3 DEF Upload, Send, Handle, FindExisting, RefuseBody, Create, FindAgain, Store, Attach,
       EnqueueImport, StreamEvent, LimitReached, Malformed, Fails, Fault, NoFault
  <2> QED
    BY <1>1, <1>2, <1>3, <2>1 DEF Upload
<1>4. ASSUME NEW c \in Clients, Account(c) PROVE AuthInv'
  <2>1. Auth!Request(c) \/ Auth!Handle(c)
    BY <1>4 DEF Account
  <2>2. faults' \in Nat /\ faults' >= faults
    BY <1>1, <2>1, AuthFaults
  <2> QED
    BY <1>1, <2>1, <2>2, AuthStepInv
<1>5. CASE Gone
  BY <1>1, <1>5, DroppedInv DEF Gone, ProcessEnds
<1> QED
  BY <1>1, <1>2, <1>3, <1>4, <1>5 DEF ApiNext, Connection, Probe, AnswerProbe, Probed, Socket,
     Boot, Shutdown, HttpServerClosed, Exit, ForceExit, Crash, apiVars, vars

------------------------------------------------------------------------------
\* The process.

LEMMA ApiStepTyped ==
  ASSUME ApiInv, [ApiNext]_apiVars, TypeOK', Auth!TypeOK'
  PROVE  ApiTypeOK' /\ {crashes, forced}' \subseteq Nat
<1>1. /\ ApiTypeOK /\ MaxCrashes \in Nat /\ MaxShutdowns \in Nat
      /\ shutdowns \in 0 .. MaxShutdowns /\ crashes \in 0 .. MaxCrashes
      /\ forced \in Nat /\ forced <= shutdowns
      /\ phase \in ShutdownPhases => forced < shutdowns
  BY ApiAssumption DEF ApiInv, ApiTypeOK, ProcessInv
<1>2. CASE UNCHANGED processVars
  BY <1>1, <1>2 DEF ApiTypeOK, processVars
<1> DEFINE Peers == Imports \cup Clients \cup {Balancer}
<1>3. ASSUME NEW x \in Peers, UNCHANGED <<phase, listening, readiness, sockets, crashes,
             shutdowns, forced>>, Clear(x) \/ MayKeep(x) \/ Connect(x) \/ UNCHANGED unused,
             probe' \in {"none", "checking", "ready", "unavailable", "shuttingDown"}
      PROVE  ApiTypeOK' /\ {crashes, forced}' \subseteq Nat
  <2>1. unused' \in SUBSET Peers
    BY <1>1, <1>3 DEF ApiTypeOK, Clear, MayKeep, Connect
  <2> QED
    BY <1>1, <1>3, <2>1 DEF ApiTypeOK
<1>4. ASSUME NEW s \in Sockets, Socket(s) PROVE ApiTypeOK' /\ {crashes, forced}' \subseteq Nat
  BY <1>1, <1>4 DEF ApiTypeOK, Socket, ConnectSocket, DisconnectSocket
<1>5. CASE Boot \/ Shutdown \/ HttpServerClosed
  <2>1. /\ phase' \in {"down", "serving"} \cup ShutdownPhases
        /\ listening' \in BOOLEAN /\ readiness' \in {"up", "shuttingDown"}
        /\ UNCHANGED <<sockets, probe, crashes, forced>> /\ unused' \in SUBSET unused
    BY <1>1, <1>5 DEF Boot, Shutdown, HttpServerClosed, ShutdownPhases, ApiTypeOK
  <2>2. shutdowns' \in 0 .. MaxShutdowns /\ forced <= shutdowns'
    BY <1>1, <1>5 DEF Boot, Shutdown, HttpServerClosed
  <2> QED
    BY <1>1, <2>1, <2>2 DEF ApiTypeOK
<1>6. CASE Gone /\ (Exit \/ ForceExit \/ Crash)
  <2>1. /\ crashes' \in 0 .. MaxCrashes /\ shutdowns' = shutdowns
        /\ forced' \in Nat /\ forced' <= shutdowns
    BY <1>1, <1>6 DEF Exit, ForceExit, Crash, Armed
  <2>2. /\ phase' = "down" /\ listening' = FALSE /\ unused' = {} /\ sockets' = {}
        /\ probe' \in {"none", "checking", "ready", "unavailable", "shuttingDown"}
        /\ readiness' \in {"up", "shuttingDown"}
    BY <1>1, <1>6 DEF Gone, ApiTypeOK
  <2>3. sockets' \in SUBSET Sockets /\ unused' \in SUBSET Peers /\ crashes' \in Nat /\ shutdowns' \in 0 .. MaxShutdowns
    BY <1>1, <2>1, <2>2
  <2>4. phase' \in {"down", "serving"} \cup ShutdownPhases /\ listening' \in BOOLEAN
    BY <2>2
  <2> QED
    BY <2>1, <2>2, <2>3, <2>4 DEF ApiTypeOK
<1>7. ASSUME NEW x \in Peers, Connection(x)
      PROVE  ApiTypeOK' /\ {crashes, forced}' \subseteq Nat
  BY <1>1, <1>3, <1>7 DEF Connection, ApiTypeOK
<1>8. ASSUME NEW r \in Imports, Upload(r)
      PROVE  ApiTypeOK' /\ {crashes, forced}' \subseteq Nat
  BY <1>1, <1>3, <1>8 DEF Upload, ApiTypeOK
<1>9. ASSUME NEW c \in Clients, Account(c)
      PROVE  ApiTypeOK' /\ {crashes, forced}' \subseteq Nat
  BY <1>1, <1>3, <1>9 DEF Account, ApiTypeOK
<1>10. CASE Probe \/ AnswerProbe
  BY <1>1, <1>3, <1>10 DEF Probe, AnswerProbe, Probed, ApiTypeOK
<1> QED
  BY <1>2, <1>4, <1>5, <1>6, <1>7, <1>8, <1>9, <1>10 DEF ApiNext, Exit, ForceExit, Crash, apiVars

\* A step of a request keeps its answer, once it has one, or ends it.
LEMMA AnswersStay ==
  ASSUME CreationInv, [Next]_vars, NEW r \in Imports, answer[r] # NoAnswer
  PROVE  answer'[r] = answer[r]
BY AnswerStep DEF CreationInv

\* Once the HTTP server is closed, all that goes on is what requests that have
\* been answered still do.
LEMMA StaysEnded ==
  ASSUME ApiInv, phase = "disconnect", NEW r \in Imports, Upload(r)
  PROVE  ConnectionsEnded'
<1>1. ConnectionsEnded /\ ~listening /\ TypeOK /\ CreationInv
  BY DEF ApiInv, ProcessInv, CreationInv, ShutdownPhases
<1>2. UNCHANGED <<unused, client, probe, sockets>> /\ (Handle(r) \/ StreamEvent(r))
  BY <1>1 DEF Upload, ConnectionsEnded, authVars
<1>3. pc[r] \notin {"unsent", "done"}
  BY <1>2 DEF Handle, StreamEvent, LimitReached, Malformed, FindExisting, RefuseBody, Create,
     FindAgain, Store, Attach, EnqueueImport, At
<1>4. \A i \in Imports \ {r} : pc'[i] = pc[i]
  BY <1>1, <1>2 DEF Handle, StreamEvent, LimitReached, Malformed, FindExisting, RefuseBody,
     Create, InsertIfAbsent, FindAgain, AnswerWithWinner, Store, Uploaded, Attach,
     GoOnToEnqueue, EnqueueImport, Fails, Goto, TypeOK
<1>5. InFlight' \subseteq InFlight
  BY <1>3, <1>4 DEF InFlight
<1>6. [Next]_vars
  BY <1>2 DEF Next
<1>7. \A i \in InFlight' : answer'[i] # NoAnswer
  BY <1>1, <1>5, <1>6, AnswersStay DEF ConnectionsEnded, InFlight
<1>8. Auth!InFlight' = {}
  BY <1>1, <1>2 DEF ConnectionsEnded, Auth!InFlight, Auth!At
<1> QED
  BY <1>1, <1>2, <1>7, <1>8 DEF ConnectionsEnded

LEMMA ApiStepProcess == ApiInv /\ [ApiNext]_apiVars => ProcessInv'
<1> SUFFICES ASSUME ApiInv, [ApiNext]_apiVars PROVE ProcessInv'
  OBVIOUS
<1>1. /\ ApiTypeOK /\ ProcessInv /\ TypeOK /\ {crashes, forced}' \subseteq Nat
      /\ shutdowns \in Nat
  BY ApiStepTyped, ApiStepCreation, ApiStepAuth, ApiAssumption
  DEF ApiInv, CreationInv, AuthInv, ApiTypeOK
<1>2. phase = "disconnect" => ConnectionsEnded /\ ~listening
  BY <1>1 DEF ProcessInv, ShutdownPhases
<1>3. ASSUME UNCHANGED <<phase, listening, crashes, shutdowns, forced>>,
             phase = "disconnect" => ConnectionsEnded'
      PROVE  ProcessInv'
  BY <1>1, <1>3 DEF ProcessInv
<1>4. ASSUME UNCHANGED <<phase, listening, crashes, shutdowns, forced>>,
             UNCHANGED <<pc, answer, client>>,
             phase = "disconnect" => UNCHANGED <<unused, probe>> /\ sockets' \subseteq sockets
      PROVE  ProcessInv'
  <2>1. phase = "disconnect" => ConnectionsEnded'
    BY <1>2, <1>4 DEF ConnectionsEnded, InFlight, Auth!InFlight, Auth!At
  <2> QED
    BY <1>3, <1>4, <2>1
<1>5. ASSUME NEW r \in Imports, Upload(r) PROVE ProcessInv'
  BY <1>3, <1>5, StaysEnded DEF Upload
<1>6. ASSUME NEW c \in Clients, Account(c) PROVE ProcessInv'
  <2>1. phase # "disconnect"
    <3>1. c \in unused \/ Auth!Handle(c)
      BY <1>6 DEF Account
    <3>2. Auth!Handle(c) => c \in Auth!InFlight
      BY DEF Auth!Handle, Auth!FindByEmail, Auth!CreateUser, Auth!CheckPassword, Auth!InFlight,
         Auth!At
    <3> QED
      BY <1>2, <3>1, <3>2 DEF ConnectionsEnded
  <2> QED
    BY <1>3, <1>6, <2>1 DEF Account
<1>7. ASSUME NEW x \in Imports \cup Clients \cup {Balancer}, Connection(x) PROVE ProcessInv'
  BY <1>2, <1>4, <1>7 DEF Connection, Connect, ConnectionsEnded, vars, requestVars, authVars
<1>8. CASE Probe \/ AnswerProbe
  BY <1>2, <1>4, <1>8 DEF Probe, AnswerProbe, Probed, ConnectionsEnded, vars, requestVars,
     authVars
<1>9. ASSUME NEW s \in Sockets, Socket(s) PROVE ProcessInv'
  BY <1>2, <1>4, <1>9 DEF Socket, ConnectSocket, DisconnectSocket, vars, requestVars, authVars
<1>10. CASE Boot \/ Shutdown
  BY <1>1, <1>10 DEF ProcessInv, Boot, Shutdown, ShutdownPhases, ApiTypeOK
<1>11. CASE HttpServerClosed
  <2>1. ConnectionsEnded'
    BY <1>11 DEF HttpServerClosed, ConnectionsEnded, vars, requestVars, authVars, InFlight,
       Auth!InFlight, Auth!At
  <2> QED
    BY <1>1, <1>11, <2>1 DEF ProcessInv, HttpServerClosed, ShutdownPhases
<1>12. CASE Gone
  BY <1>1, <1>12 DEF ProcessInv, Gone, ShutdownPhases
<1>13. CASE UNCHANGED apiVars
  BY <1>4, <1>13 DEF apiVars, vars, requestVars, authVars, processVars
<1> QED
  BY <1>5, <1>6, <1>7, <1>8, <1>9, <1>10, <1>11, <1>12, <1>13
  DEF ApiNext, Exit, ForceExit, Crash

------------------------------------------------------------------------------
\* What becomes of a request.

\* Its own step answers it with an error, leaves it under way, or ends it with
\* its job in the queue or without an import.
LEMMA OwnStep ==
  ASSUME CreationInv, CreationInv', NEW r \in Imports, Handle(r)
  PROVE  \/ Respond(r, Error)
         \/ UNCHANGED answer /\ pc'[r] # "done"
         \/ pc'[r] = "done" /\ (jobs'[r] # 0 \/ ~Exists(r)')
<1>1. pc \in [Imports -> Step] /\ jobs \in [Imports -> Nat] /\ DoneBy(r)
  BY DEF CreationInv, TypeOK
<1>2. CASE FindExisting(r)
  BY <1>1, <1>2 DEF FindExisting, Goto, At, DoneBy, storeVars, Exists
<1>3. CASE RefuseBody(r)
  BY <1>3 DEF RefuseBody
<1>4. CASE Create(r)
  BY <1>1, <1>4 DEF Create, InsertIfAbsent, Fails, Goto
<1>5. CASE FindAgain(r)
  BY <1>1, <1>5 DEF FindAgain, AnswerWithWinner, Fails, Goto, At, DoneBy, storeVars, Exists
<1>6. CASE Store(r)
  BY <1>1, <1>6 DEF Store, Uploaded, Fails, Goto
<1>7. CASE Attach(r)
  BY <1>1, <1>7 DEF Attach, GoOnToEnqueue, Fails, Goto
<1>8. CASE EnqueueImport(r)
  BY <1>1, <1>8 DEF EnqueueImport, Fails, Goto
<1> QED
  BY <1>2, <1>3, <1>4, <1>5, <1>6, <1>7, <1>8 DEF Handle

LEMMA RequestsAccounted ==
  ASSUME CreationInv, CreationInv', NEW s \in Imports, Send(s) \/ Handle(s) \/ StreamEvent(s),
         UNCHANGED <<crashes, forced>>, NEW r \in Imports, Accounted(r)
  PROVE  Accounted(r)'
<1>1. /\ pc \in [Imports -> Step] /\ answer \in [Imports -> Imports \cup {NoAnswer, Error}]
      /\ UNCHANGED <<crashes, forced>>
  BY DEF CreationInv, TypeOK
<1>2. CASE s # r
  BY <1>1, <1>2, OthersAlone DEF Accounted, Exists
<1>3. CASE Send(r)
  BY <1>1, <1>3 DEF Accounted, Send, Goto, At
<1>4. CASE StreamEvent(r)
  BY <1>1, <1>4 DEF Accounted, StreamEvent, LimitReached, Malformed, Respond, At, storeVars,
     Exists
<1>5. CASE Handle(r)
  <2>1. pc[r] # "done"
    BY <1>5 DEF Handle, FindExisting, RefuseBody, Create, FindAgain, Store, Attach,
       EnqueueImport, At
  <2>2. answer[r] \in {NoAnswer, Error}
    BY <2>1 DEF Accounted
  <2>3. CASE Respond(r, Error)
    <3>1. answer'[r] = Error
      BY <1>1, <2>2, <2>3 DEF Respond
    <3> QED
      BY <3>1 DEF Accounted
  <2>4. CASE UNCHANGED answer /\ pc'[r] # "done"
    BY <2>2, <2>4 DEF Accounted
  <2>5. CASE pc'[r] = "done" /\ (jobs'[r] # 0 \/ ~Exists(r)')
    BY <2>5 DEF Accounted
  <2> QED
    BY <1>5, <2>3, <2>4, <2>5, OwnStep
<1> QED
  BY <1>2, <1>3, <1>4, <1>5

\* The end of the process: an orderly one has answered every request, and a
\* death, or a forced end, is counted.
LEMMA GoneAccounted ==
  ASSUME ApiInv, Gone, NEW r \in Imports,
         (Exit /\ UNCHANGED <<crashes, forced>>) \/ crashes' + forced' > 0
  PROVE  Accounted(r)'
<1>1. /\ UNCHANGED <<row, answer>> /\ TypeOK /\ Accounted(r) /\ DoneBy(r)
      /\ pc' = [i \in Imports |-> IF i \in InFlight THEN "done" ELSE pc[i]]
  BY DEF Gone, ProcessEnds, storeVars, ApiInv, CreationInv
<1>2. PICK added \in SUBSET {i \in Imports : At(i, "enqueue")} :
        jobs' = [i \in Imports |-> IF i \in added THEN jobs[i] + 1 ELSE jobs[i]]
  BY DEF Gone, ProcessEnds
<1>3. jobs'[r] = 0 => jobs[r] = 0
  BY <1>1, <1>2 DEF TypeOK
<1>4. pc'[r] # "done" => pc[r] # "done"
  BY <1>1 DEF InFlight, TypeOK
<1>5. CASE crashes' + forced' > 0
  BY <1>1, <1>4, <1>5 DEF Accounted
<1>6. CASE Exit /\ UNCHANGED <<crashes, forced>>
  <2>1. r \in InFlight => answer[r] = Error
    <3> SUFFICES ASSUME r \in InFlight PROVE answer[r] = Error
      OBVIOUS
    <3>1. pc[r] # "done" /\ answer[r] # NoAnswer
      BY <1>6 DEF InFlight, Exit, ApiInv, ProcessInv, ConnectionsEnded
    <3> QED
      BY <1>1, <3>1 DEF Accounted
  <2>2. r \notin InFlight => pc'[r] = pc[r]
    BY <1>1
  <2> QED
    BY <1>1, <1>3, <1>4, <1>6, <2>1, <2>2 DEF Accounted, Exists
<1> QED
  BY <1>5, <1>6

LEMMA ApiStepAccounted == ApiInv /\ [ApiNext]_apiVars => \A r \in Imports : Accounted(r)'
<1> SUFFICES ASSUME ApiInv, [ApiNext]_apiVars, NEW r \in Imports PROVE Accounted(r)'
  OBVIOUS
<1>1. /\ CreationInv /\ CreationInv' /\ Accounted(r)
      /\ crashes \in Nat /\ forced \in Nat
  BY ApiStepCreation DEF ApiInv, ProcessInv
<1>2. ASSUME NEW s \in Imports, Upload(s) PROVE Accounted(r)'
  BY <1>1, <1>2, RequestsAccounted DEF Upload
<1>3. CASE UNCHANGED <<row, pc, answer, jobs, crashes, forced>>
  BY <1>1, <1>3 DEF Accounted, Exists
<1>4. CASE Exit
  BY <1>4, GoneAccounted DEF Exit
<1>5. CASE ForceExit \/ Crash
  <2>1. crashes' + forced' > 0
    BY <1>1, <1>5 DEF ForceExit, Crash
  <2> QED
    BY <1>5, <2>1, GoneAccounted DEF ForceExit, Crash
<1> QED
  BY <1>2, <1>3, <1>4, <1>5 DEF ApiNext, Connection, Account, Probe, AnswerProbe, Probed,
     Socket, Boot, Shutdown, HttpServerClosed, apiVars, vars, storeVars, requestVars, processVars

------------------------------------------------------------------------------
\* What the clients can rely on.

LEMMA ApiInitInv == ApiInit => ApiInv
<1> SUFFICES ASSUME ApiInit PROVE ApiInv
  OBVIOUS
<1>1. CreationInv /\ TypeOK
  BY CreationInitInv DEF ApiInit, CreationInv
<1>2. AuthInv
  <2>1. Auth!TypeOK
    BY DEF ApiInit, Auth!Init, Auth!TypeOK, Auth!Client
  <2>2. \A c \in Clients : Truthful(c)
    <3> SUFFICES ASSUME NEW c \in Clients PROVE Truthful(c)
      OBVIOUS
    <3>1. account[EmailOf[c]] = Auth!NoAccount
      BY DEF ApiInit, Auth!Init, Auth!Emails
    <3>2. client[c].pc = "idle" /\ client[c].registered = "none"
      BY DEF ApiInit, Auth!Init
    <3> QED
      BY <3>1, <3>2 DEF Truthful
  <2> QED
    BY <2>1, <2>2 DEF AuthInv, ApiInit, Init
<1>3. ApiTypeOK
  <2>1. /\ 0 \in 0 .. MaxCrashes /\ 0 \in 0 .. MaxShutdowns
        /\ sockets \in SUBSET Sockets
        /\ unused \in SUBSET (Imports \cup Clients \cup {Balancer})
    BY ApiAssumption DEF ApiInit
  <2>2. forced <= shutdowns
    BY DEF ApiInit
  <2> QED
    BY <1>1, <1>2, <2>1, <2>2 DEF AuthInv, ApiInit, ApiTypeOK
<1>4. \A r \in Imports : Accounted(r)
  BY DEF ApiInit, Init, StoreInit, NewRow, Accounted, Exists
<1>5. ProcessInv
  BY DEF ApiInit, ProcessInv, ShutdownPhases
<1> QED
  BY <1>1, <1>2, <1>3, <1>4, <1>5 DEF ApiInv

LEMMA ApiNextInv == ApiInv /\ [ApiNext]_apiVars => ApiInv'
<1> SUFFICES ASSUME ApiInv, [ApiNext]_apiVars PROVE ApiInv'
  OBVIOUS
<1>1. CreationInv' /\ TypeOK' /\ AuthInv' /\ Auth!TypeOK'
  BY ApiStepCreation, ApiStepAuth DEF ApiInv, CreationInv, AuthInv
<1> QED
  BY <1>1, ApiStepTyped, ApiStepAccounted, ApiStepProcess DEF ApiInv

LEMMA ApiIsInductive == ApiSpec => []ApiInv
BY ApiInitInv, ApiNextInv, PTL DEF ApiSpec

\* Every variable of the process keeps its type, whatever ends it and how often.
THEOREM ApiTyped == ApiSpec => []ApiTypeOK
<1>1. ApiInv => ApiTypeOK
  BY DEF ApiInv
<1> QED
  BY ApiIsInductive, <1>1, PTL

\* What holds of uploads alone holds beside registrations, and across deaths,
\* shutdowns and restarts: keys stay unique, and jobs have their file.
THEOREM UploadsSurvive == ApiSpec => [](OneImportPerKey /\ JobsHaveTheirFile)
<1>1. ApiInv => OneImportPerKey /\ JobsHaveTheirFile
  BY CreationInvImplies DEF ApiInv
<1> QED
  BY ApiIsInductive, <1>1, PTL

\* No registration takes over the account that another client was told it has.
THEOREM AccountsStay == ApiSpec => []RegisteredIsMine
<1>1. ApiInv => RegisteredIsMine
  BY DEF ApiInv, AuthInv, Truthful, RegisteredIsMine, Auth!RegisteredIsMine, Auth!AccountOf
<1> QED
  BY ApiIsInductive, <1>1, PTL

\* 409 only for an address that is taken; another error only for a failed call
\* or for an address that was taken between the two calls of register.
THEOREM RefusalsAreTrue == ApiSpec => []RefusalsHaveACause
<1>1. ApiInv => RefusalsHaveACause
  BY DEF ApiInv, AuthInv, Truthful, RefusalsHaveACause, Auth!RefusalsHaveACause, Auth!AccountOf
<1> QED
  BY ApiIsInductive, <1>1, PTL

\* An import without a job was refused to its client, unless the process was
\* killed: no shutdown that runs to its end loses one silently.
THEOREM LossesAreTold == ApiSpec => []NoSilentLoss
<1>1. ApiInv => NoSilentLoss
  BY DEF ApiInv, Accounted, NoSilentLoss, At, KilledSomething
<1> QED
  BY ApiIsInductive, <1>1, PTL
==============================================================================
