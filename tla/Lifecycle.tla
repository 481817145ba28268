----------------------------- MODULE Lifecycle -----------------------------
(***************************************************************************)
(* serve of src/cmd/swosh/cmd_serve.go, from the start of the process to   *)
(* its exit code: migrations, connection, two servers and the expiry job   *)
(* in an errgroup, and a shutdown that lets requests end.  A signal, an    *)
(* error of a server or a crash can come at any moment, and the process is *)
(* started again whenever it is down (restart: always in compose.yaml).    *)
(***************************************************************************)
EXTENDS Migrations

CONSTANTS
    Servers,        \* the public one and the actuator
    MaxRequests     \* by instance and server, a bound on the requests in progress

ASSUME LifecycleAssumption == MaxRequests \in [Instances -> [Servers -> Nat]]

VARIABLES procs     \* by instance, its process

vars == <<schemaVars, procs>>

(* main is where serve is, asked whether a signal came, cancelled the       *)
(* context of the errgroup, failed whether serve is to return an error.     *)
(* errc holds the servers whose Serve has given up, for runServer to find.  *)
(* code is what the process last exited with, 1 for all that is not 0.      *)
Proc ==
    [main : {"off", "migrate", "prepare", "serve", "close"},
     asked : BOOLEAN, cancelled : BOOLEAN, failed : BOOLEAN,
     server : [Servers -> {"listen", "serving", "shutting", "returned"}],
     requests : [Servers -> Nat], errc : SUBSET Servers,
     job : {"waiting", "sweeping", "returned"},
     code : {0, 1}]

Off(code) ==
    [main |-> "off", asked |-> FALSE, cancelled |-> FALSE, failed |-> FALSE,
     server |-> [s \in Servers |-> "listen"], requests |-> [s \in Servers |-> 0],
     errc |-> {}, job |-> "waiting", code |-> code]

Init == MigrationsInit /\ procs = [i \in Instances |-> Off(0)]

Becomes(i, proc) == procs' = [procs EXCEPT ![i] = proc]

-----------------------------------------------------------------------------
\* The main goroutine.

Start(i) ==
    /\ procs[i].main = "off"
    /\ Becomes(i, [Off(0) EXCEPT !.main = "migrate"])
    /\ migrators' = [migrators EXCEPT ![i] = "open"]
    /\ UNCHANGED <<schema, accidents>>

(* The process ends, and the requests that are left with it. *)
Exits(i, code) ==
    /\ Becomes(i, Off(code))
    /\ migrators' = [migrators EXCEPT ![i] = "none"]

(* Wrong: an error of Migrate is logged, and serve goes on. *)
LogsMigrateError(i) ==
    /\ procs[i].main = "migrate" /\ migrators[i] \in {"done", "failed"}
    /\ Becomes(i, [procs[i] EXCEPT !.main = "prepare"])
    /\ UNCHANGED schemaVars

Migrated(i) ==
    /\ procs[i].main = "migrate" /\ migrators[i] = "done"
    /\ Becomes(i, [procs[i] EXCEPT !.main = "prepare"])
    /\ UNCHANGED schemaVars

MigrationFailed(i) ==
    /\ procs[i].main = "migrate" /\ migrators[i] = "failed"
    /\ Exits(i, 1)
    /\ UNCHANGED <<schema, accidents>>

(* Connect pings the database, Provision looks for the admin, and the       *)
(* goroutines of the errgroup start.                                        *)
Prepared(i) ==
    /\ procs[i].main = "prepare"
    /\ ~procs[i].cancelled
    /\ Becomes(i, [procs[i] EXCEPT !.main = "serve"])
    /\ UNCHANGED schemaVars

(* The database is away, or the context was cancelled. *)
PrepareFails(i) ==
    /\ procs[i].main = "prepare"
    /\ IF procs[i].cancelled THEN NoAccident ELSE Accident
    /\ Exits(i, 1)
    /\ UNCHANGED schema

(* g.Wait: all three have returned. *)
Waited(i) ==
    /\ procs[i].main = "serve"
    /\ procs[i].job = "returned"
    /\ \A s \in Servers : procs[i].server[s] = "returned"
    /\ Becomes(i, [procs[i] EXCEPT !.main = "close"])
    /\ UNCHANGED schemaVars

(* The pool closes, and the process is done. *)
Closed(i) ==
    /\ procs[i].main = "close"
    /\ Exits(i, IF procs[i].failed THEN 1 ELSE 0)
    /\ UNCHANGED <<schema, accidents>>

(* Wrong: a signal ends the process, as it does without NotifyContext. *)
SignalKills(i) ==
    /\ procs[i].main # "off"
    /\ Exits(i, 1)
    /\ schema' = Unlocked(i) /\ NoAccident

(* NotifyContext: a signal only cancels the context. *)
Signal(i) ==
    /\ procs[i].main # "off"
    /\ Becomes(i, [procs[i] EXCEPT !.asked = TRUE, !.cancelled = TRUE])
    /\ UNCHANGED schemaVars

(* The process is killed, or its machine stops. *)
Crash(i) ==
    /\ procs[i].main # "off"
    /\ Exits(i, 1)
    /\ schema' = Unlocked(i) /\ Accident

-----------------------------------------------------------------------------
\* The servers and the job.

Serves(i) == procs[i].main = "serve"

ServerMoves(i, s, from, to) ==
    /\ Serves(i) /\ procs[i].server[s] = from
    /\ Becomes(i, [procs[i] EXCEPT !.server[s] = to])
    /\ UNCHANGED schemaVars

(* A server's goroutine returns an error; the first cancels the context. *)
ServerReturnsError(i, s) ==
    Becomes(i, [procs[i] EXCEPT
        !.server[s] = "returned", !.failed = TRUE, !.cancelled = TRUE])

(* Listen looks no name up, so it does not heed the context.                *)
Listens(i, s) == ServerMoves(i, s, "listen", "serving")

(* The port is taken. *)
ListenFails(i, s) ==
    /\ Serves(i) /\ procs[i].server[s] = "listen"
    /\ ServerReturnsError(i, s)
    /\ Accident /\ UNCHANGED <<schema, migrators>>

(* Serve gives up on the listener; its requests go on. *)
ServeFails(i, s) ==
    /\ Serves(i) /\ procs[i].server[s] = "serving" /\ s \notin procs[i].errc
    /\ Becomes(i, [procs[i] EXCEPT !.errc = @ \cup {s}])
    /\ Accident /\ UNCHANGED <<schema, migrators>>

(* runServer finds its error. *)
ServeReturns(i, s) ==
    /\ Serves(i) /\ procs[i].server[s] = "serving" /\ s \in procs[i].errc
    /\ ServerReturnsError(i, s)
    /\ UNCHANGED schemaVars

(* runServer sees that the context is done, though Serve may have given up  *)
(* as well: select takes either.  Shutdown closes the listener.             *)
ShutDown(i, s) == procs[i].cancelled /\ ServerMoves(i, s, "serving", "shutting")

(* Wrong: what Serve returned is not looked at. *)
IgnoresErrc(i, s) ==
    procs[i].requests[s] = 0 /\ ServerMoves(i, s, "shutting", "returned")

(* Shutdown ends when no request is left, and what Serve returned counts.   *)
ShutDownDone(i, s) ==
    /\ procs[i].requests[s] = 0
    /\ \/ s \notin procs[i].errc /\ ServerMoves(i, s, "shutting", "returned")
       \/ /\ Serves(i) /\ procs[i].server[s] = "shutting" /\ s \in procs[i].errc
          /\ ServerReturnsError(i, s)
          /\ UNCHANGED schemaVars

(* shutdownTimeout passes before that. *)
ShutDownTimeout(i, s) ==
    /\ Serves(i) /\ procs[i].server[s] = "shutting" /\ procs[i].requests[s] > 0
    /\ ServerReturnsError(i, s)
    /\ UNCHANGED schemaVars

(* A request comes in. *)
Accept(i, s) ==
    /\ Serves(i) /\ procs[i].server[s] = "serving" /\ s \notin procs[i].errc
    /\ procs[i].requests[s] < MaxRequests[i][s]
    /\ Becomes(i, [procs[i] EXCEPT !.requests[s] = @ + 1])
    /\ UNCHANGED schemaVars

(* A request ends, perhaps after its server was given up. *)
EndRequest(i, s) ==
    /\ procs[i].requests[s] > 0
    /\ Becomes(i, [procs[i] EXCEPT !.requests[s] = @ - 1])
    /\ UNCHANGED schemaVars

JobMoves(i, from, to) ==
    /\ Serves(i) /\ procs[i].job = from
    /\ Becomes(i, [procs[i] EXCEPT !.job = to])
    /\ UNCHANGED schemaVars

(* Run: the timer fires, and a sweep ends.  If the context is done too, the *)
(* select takes either.                                                     *)
JobSweeps(i) == JobMoves(i, "waiting", "sweeping")

JobSwept(i) == JobMoves(i, "sweeping", "waiting")

(* Wrong: Run has the context of the process, not that of the errgroup.     *)
HeedsSignals(i) == procs[i].asked /\ JobMoves(i, "waiting", "returned")

JobStops(i) == procs[i].cancelled /\ JobMoves(i, "waiting", "returned")

-----------------------------------------------------------------------------
\* The specification.

MigrateOf(i) == MigrateStep(i) /\ UNCHANGED procs

Fixed == FixByHand /\ UNCHANGED procs

MainStep(i) ==
    Migrated(i) \/ MigrationFailed(i) \/ Prepared(i) \/ PrepareFails(i) \/ Waited(i) \/ Closed(i)

ServerStep(i, s) ==
    \/ Listens(i, s) \/ ListenFails(i, s) \/ ServeReturns(i, s)
    \/ ShutDown(i, s) \/ ShutDownDone(i, s) \/ ShutDownTimeout(i, s)

InstanceStep(i) ==
    \/ Start(i) \/ MigrateOf(i) \/ MainStep(i) \/ Signal(i) \/ Crash(i)
    \/ JobSweeps(i) \/ JobSwept(i) \/ JobStops(i)
    \/ \E s \in Servers : ServerStep(i, s) \/ ServeFails(i, s) \/ Accept(i, s) \/ EndRequest(i, s)

Next == Fixed \/ \E i \in Instances : InstanceStep(i)

(* Goroutines and golang-migrate go on, the database gives the lock to      *)
(* those who wait for it in turn, and a select with two ways out takes each *)
(* of them in the end.                                                      *)
Fairness == \A i \in Instances :
    /\ WF_vars(MainStep(i))
    /\ SF_vars(MigrateOpen(i) /\ UNCHANGED procs)
    /\ WF_vars(MigrateWorks(i) /\ UNCHANGED procs)
    /\ \A s \in Servers : WF_vars(ServerStep(i, s))
    /\ WF_vars(JobSwept(i)) /\ SF_vars(JobStops(i))

Spec == Init /\ [][Next]_vars

FairSpec == Spec /\ Fairness

-----------------------------------------------------------------------------
\* Properties.

(* A process and its Migrate go together: none is past it that failed.      *)
Placed == \A i \in Instances :
    /\ procs[i].main = "off" => migrators[i] = "none"
    /\ procs[i].main \in {"prepare", "serve", "close"} => migrators[i] = "done"

(* Schema, migrations and processes keep their shape, and the main          *)
(* goroutine its place: an error of Migrate is never passed over.           *)
TypeOK ==
    /\ schema \in Schema
    /\ migrators \in [Instances -> MigrateSteps]
    /\ accidents \in 0 .. MaxAccidents
    /\ procs \in [Instances -> Proc]
    /\ Placed

(* No instance goes on to serve before all scripts of its build ran, in     *)
(* whichever order instances start, fail and are started again.             *)
ServesOnItsSchema == \A i \in Instances :
    procs[i].main \in {"prepare", "serve", "close"} => 1 .. Build[i] \subseteq schema.scripts

Busy(i) == \E s \in Servers : procs[i].requests[s] > 0

(* Exit code 0 says that serve was told to stop, cut off no request, and    *)
(* that neither Serve gave up, whichever of a signal, an error and a        *)
(* timeout came first, and in whichever place of runServer it was met.      *)
CodeZeroIsClean == [][\A i \in Instances :
    procs[i].main # "off" /\ procs'[i].main = "off" /\ procs'[i].code = 0 =>
        procs[i].asked /\ procs[i].errc = {} /\ ~Busy(i)]_vars

(* Once the context is cancelled, by a signal or by an error of one server, *)
(* or Serve has given up in one, the job and both servers stop and the      *)
(* process ends.                                                            *)
StopsTogether == \A i \in Instances :
    procs[i].cancelled \/ procs[i].errc # {} ~> procs[i].main = "off"

(* Migrate ends, whatever the other instances do. *)
MigrationsEnd == \A i \in Instances :
    procs[i].main = "migrate" ~> procs[i].main # "migrate"
=============================================================================
