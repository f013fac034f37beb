----------------------------- MODULE ApiProcess ------------------------------
(* The API process: server.ts around the uploads of ImportCreation and the    *)
(* requests of Registration.  It boots, serves, and is told to stop; then it  *)
(* runs its shutdown steps, or is forced out of them, and is started again.   *)
(* It may also die at any time.                                               *)
(*                                                                            *)
(* A client connects, and sends a request over its connection some time       *)
(* later, if at all.  The last four shutdown steps let go of what no waiting  *)
(* request needs, and each is skipped if it fails: they are one phase.        *)
EXTENDS ImportCreation

CONSTANTS Clients, EmailOf,  \* of Registration
          Sockets,           \* clients that hold a websocket open
          MaxCrashes,        \* bound: deaths of the process
          MaxShutdowns       \* bound: SIGTERMs

VARIABLES account, client,   \* of Registration
          phase,             \* what the process is about
          listening,         \* whether it accepts connections
          readiness,         \* ReadinessState: whether it is shutting down
          unused,            \* who has a connection open that carries no request
          sockets,           \* the websockets that are open
          probe,             \* GET /health/ready: what it is at, or was told
          crashes,           \* deaths so far
          shutdowns,         \* SIGTERMs so far
          forced             \* shutdowns that the timer ended

Auth == INSTANCE Registration

ASSUME ApiAssumption == /\ {MaxCrashes, MaxShutdowns} \subseteq Nat
                        /\ Auth!NoAccount \notin Clients
                        /\ Imports \cap Clients = {}

authVars == <<account, client>>
processVars == <<phase, listening, readiness, unused, sockets, probe, crashes, shutdowns,
                 forced>>
apiVars == <<vars, authVars, processVars>>

ShutdownPhases == {"closeHttpServer", "disconnect"}

\* The load balancer, which asks for the readiness.
Balancer == "balancer"

ApiTypeOK == /\ TypeOK
             /\ Auth!TypeOK
             /\ phase \in {"down", "serving"} \cup ShutdownPhases
             /\ listening \in BOOLEAN
             /\ readiness \in {"up", "shuttingDown"}
             /\ unused \in SUBSET (Imports \cup Clients \cup {Balancer})
             /\ sockets \in SUBSET Sockets
             /\ probe \in {"none", "checking", "ready", "unavailable", "shuttingDown"}
             /\ crashes \in 0 .. MaxCrashes
             /\ forced <= shutdowns /\ shutdowns \in 0 .. MaxShutdowns

ApiInit == /\ Init
           /\ Auth!Init
           /\ phase = "down" /\ listening = FALSE
           /\ readiness = "up"
           /\ unused = {} /\ sockets = {}
           /\ probe = "none"
           /\ crashes = 0 /\ shutdowns = 0 /\ forced = 0

------------------------------------------------------------------------------
\* Connections.

Clear(x) == unused' = unused \ {x}

\* A connection that has carried a request may be kept for another.
MayKeep(x) == unused' \in {unused, unused \cup {x}}

Connect(x) == /\ listening
              /\ unused' = unused \cup {x}

\* Whoever has a request to send may connect, and go away again.
Idle == {r \in Imports : At(r, "unsent")} \cup {c \in Clients : Auth!At(c, "idle")}
          \cup (IF probe = "checking" THEN {} ELSE {Balancer})

Connection(x) == /\ x \in Idle
                 /\ Connect(x) \/ (x \in unused /\ Clear(x))
                 /\ UNCHANGED <<vars, authVars, phase, listening, readiness, sockets, probe,
                                crashes, shutdowns, forced>>

------------------------------------------------------------------------------
\* What the process serves.

\* An upload is not followed by another request over its connection.
Upload(r) == /\ \/ r \in unused /\ Send(r) /\ Clear(r)
                \/ Handle(r) /\ UNCHANGED unused
                \/ StreamEvent(r) /\ UNCHANGED unused
             /\ UNCHANGED <<authVars, phase, listening, readiness, sockets, probe, crashes,
                            shutdowns, forced>>

Account(c) == /\ \/ c \in unused /\ Auth!Request(c) /\ Clear(c)
                 \/ /\ Auth!Handle(c)
                    /\ IF Auth!At(c, "idle")' THEN MayKeep(c) ELSE UNCHANGED unused
              /\ UNCHANGED <<storeVars, requestVars, phase, listening, readiness, sockets,
                             probe, crashes, shutdowns, forced>>

Probed(state) ==
  /\ probe' = state
  /\ UNCHANGED <<vars, authVars, phase, listening, readiness, sockets, crashes,
                 shutdowns, forced>>

\* The flag decides before Postgres, the one hard dependency, is asked.
Probe == /\ Balancer \in unused
         /\ \/ readiness = "up" /\ Probed("checking") /\ Clear(Balancer)
            \/ /\ readiness = "shuttingDown" /\ Probed("shuttingDown")
               /\ UNCHANGED unused \/ Clear(Balancer)

AnswerProbe == /\ probe = "checking"
               /\ \E told \in {"ready", "unavailable"} : Probed(told)
               /\ MayKeep(Balancer)

\* Websockets come and go as their clients like.
ConnectSocket(s) == listening /\ sockets' = sockets \cup {s}
DisconnectSocket(s) == s \in sockets /\ sockets' = sockets \ {s}

Socket(s) == /\ ConnectSocket(s) \/ DisconnectSocket(s)
             /\ UNCHANGED <<vars, authVars, phase, listening, readiness, unused, probe,
                            crashes, shutdowns, forced>>

------------------------------------------------------------------------------
\* The life of the process.

\* bootstrap: without Postgres it exits and is started again; the other
\* connections may fail.
Boot == /\ phase = "down"
        /\ phase' = "serving" /\ listening' = TRUE /\ readiness' = "up"
        /\ UNCHANGED <<vars, authVars, unused, sockets, probe, crashes, shutdowns, forced>>

\* What the end of the process takes with it: everything in memory.
Gone == /\ ProcessEnds
        /\ Auth!Dropped
        /\ phase' = "down" /\ listening' = FALSE /\ unused' = {} /\ sockets' = {}
        /\ probe' = IF probe = "checking" THEN "none" ELSE probe
        /\ UNCHANGED readiness

\* It dies: also when a body ends inside its file part, for the file stream
\* then emits an error that nothing listens to, and when the fast-path lookup
\* of an upload fails, for nothing handles that rejection.
Crash == /\ phase # "down"
         /\ crashes < MaxCrashes /\ crashes' = crashes + 1
         /\ Gone
         /\ UNCHANGED <<shutdowns, forced>>

\* mark-not-ready returns a promise that is resolved: close-http-server runs
\* before the process looks at its connections again.  Of those without a
\* request, Node closes the ones that have carried one.
Shutdown == /\ phase = "serving"
            /\ shutdowns < MaxShutdowns /\ shutdowns' = shutdowns + 1
            /\ phase' = "closeHttpServer"
            /\ readiness' = "shuttingDown" /\ listening' = FALSE
            /\ unused' \in SUBSET unused
            /\ UNCHANGED <<vars, authVars, sockets, probe, crashes, forced>>

\* The HTTP server is closed once its last connection is: one without a
\* request, that of a request that waits for its answer, or a websocket.
\* Mutant: connections are cut.
CutConnections == TRUE
ConnectionsEnded == /\ \A r \in InFlight : answer[r] # NoAnswer
                    /\ Auth!InFlight = {}
                    /\ probe # "checking"
                    /\ unused = {} /\ sockets = {}

HttpServerClosed == /\ phase = "closeHttpServer"
                    /\ ConnectionsEnded
                    /\ phase' = "disconnect"
                    /\ UNCHANGED <<vars, authVars, listening, readiness, unused, sockets,
                                   probe, crashes, shutdowns, forced>>

\* The last step has ended: exit(0).
Exit == /\ phase = "disconnect"
        /\ Gone
        /\ UNCHANGED <<crashes, shutdowns, forced>>

\* The timer runs from the first step on.  Mutant: from the second.
ArmedLate == phase = "disconnect"
Armed == phase \in ShutdownPhases

\* The grace period is over: exit(1).
ForceExit == /\ Armed
             /\ forced' = forced + 1
             /\ Gone
             /\ UNCHANGED <<crashes, shutdowns>>

ApiNext == \/ \E x \in Imports \cup Clients \cup {Balancer} : Connection(x)
           \/ \E r \in Imports : Upload(r)
           \/ \E c \in Clients : Account(c)
           \/ Probe \/ AnswerProbe
           \/ \E s \in Sockets : Socket(s)
           \/ Boot \/ Shutdown \/ HttpServerClosed \/ Exit \/ ForceExit \/ Crash

ApiSpec == ApiInit /\ [][ApiNext]_apiVars

\* Node runs what is ready, its timer among it, and the clients stay until their
\* upload has ended.  Nothing makes a websocket go away.
ApiFairness == /\ \A r \in Imports : WF_apiVars(Handle(r) /\ Upload(r))
               /\ \A c \in Clients : WF_apiVars(Auth!Handle(c) /\ Account(c))
               /\ WF_apiVars(AnswerProbe)
               /\ WF_apiVars(ForceExit)

ApiFairSpec == ApiSpec /\ ApiFairness

------------------------------------------------------------------------------
\* Properties.

RegisteredIsMine == Auth!RegisteredIsMine
RefusalsHaveACause == Auth!RefusalsHaveACause

KilledSomething == crashes + forced > 0

\* "waits for in-flight requests to finish rather than cutting them off"
\* (server.ts:66): every client that stays is answered, also across a shutdown
\* that is not forced; the loser of a race for a key, and of one for an
\* address, included.
EveryClientIsAnswered ==
  /\ \A r \in Imports : At(r, "lookup") ~> answer[r] # NoAnswer \/ KilledSomething
  /\ \A c \in Clients : client[c].pc = "findByEmail"
       ~> client[c].registered # "none" \/ KilledSomething

\* An import that exists without a job was refused to the client that created
\* it, unless the process died with the request: a shutdown that is not forced
\* loses no import silently.
NoSilentLoss ==
  \A r \in Imports : Exists(r) /\ At(r, "done") /\ jobs[r] = 0
    => answer[r] = Error \/ KilledSomething

\* "guarantees the process doesn't hang forever" (gracefulShutdown.ts:12): a
\* shutdown ends, also when a websocket stays open, which holds up the step
\* that closes the HTTP server, and with it the one behind it that would
\* disconnect the socket.
ShutdownEnds == phase \in ShutdownPhases ~> phase = "down"
==============================================================================
