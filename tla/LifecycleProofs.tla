-------------------------- MODULE LifecycleProofs --------------------------
(***************************************************************************)
(* For any number of instances of any builds, found schemas, failures and  *)
(* requests: a schema is what its version says, no instance serves on less *)
(* than its build needs, and exit code 0 means what it should.             *)
(***************************************************************************)
EXTENDS Lifecycle, TLAPS

Holding == {"next", "run", "ran"}

(* Who has the lock, and what a step of Migrate has found and done by then. *)
MigInv ==
    /\ VersionIsTrue
    /\ schema.dirty => schema.version >= 1
    /\ \A i \in Instances :
        /\ migrators[i] \in Holding <=> schema.lock = i
        /\ migrators[i] \in Holding => schema.version <= Build[i]
        /\ migrators[i] = "next" => ~schema.dirty
        /\ migrators[i] = "run" => schema.dirty /\ schema.scripts = 1 .. schema.version - 1
        /\ migrators[i] = "ran" => schema.dirty /\ schema.scripts = 1 .. schema.version
        /\ migrators[i] \in {"to", "done"} => 1 .. Build[i] \subseteq schema.scripts

(* What the goroutines of the errgroup leave behind. *)
Orderly(proc) ==
    /\ proc.cancelled => proc.asked \/ proc.failed
    /\ proc.job = "returned" => proc.cancelled
    /\ proc.main = "close" =>
        /\ proc.job = "returned"
        /\ \A s \in Servers : proc.server[s] = "returned"
    /\ \A s \in Servers :
        /\ proc.main = "off" \/ (proc.server[s] = "returned" /\ ~proc.failed) =>
            proc.requests[s] = 0
        /\ proc.server[s] = "returned" /\ s \in proc.errc => proc.failed

Stopping == \A i \in Instances : Orderly(procs[i])

MigTypeOK ==
    /\ schema \in Schema
    /\ migrators \in [Instances -> MigrateSteps]
    /\ accidents \in 0 .. MaxAccidents

ProcTypeOK == procs \in [Instances -> Proc]

IInv ==
    /\ MigTypeOK /\ ProcTypeOK
    /\ MigInv /\ DirtyByAccident /\ Placed /\ Stopping

-----------------------------------------------------------------------------
\* The migrations.

LEMMA InitMigrations == Init => MigTypeOK /\ MigInv /\ DirtyByAccident
<1> SUFFICES ASSUME Init PROVE MigTypeOK /\ MigInv /\ DirtyByAccident
    OBVIOUS
<1>1. PICK v \in FirstVersions :
        schema = [version |-> v, dirty |-> FALSE, lock |-> Nobody, scripts |-> 1 .. v]
    BY DEF Init, MigrationsInit
<1>2. v \in Nat /\ 1 .. v \subseteq Nat /\ Nobody \notin Instances /\ MaxAccidents \in Nat
    BY MigrationsAssumption
<1>3. MigTypeOK
    BY <1>1, <1>2 DEF Init, MigrationsInit, MigTypeOK, Schema, MigrateSteps
<1>4. DirtyByAccident
    BY <1>1 DEF DirtyByAccident
<1>5. VersionIsTrue
    BY <1>1 DEF VersionIsTrue
<1>6. \A i \in Instances : migrators[i] = "none" /\ schema.lock # i
    BY <1>1, <1>2 DEF Init, MigrationsInit
<1> QED
    BY <1>1, <1>3, <1>4, <1>5, <1>6 DEF MigInv, Holding

(* An instance without the lock stops, or one with it does by accident.     *)
Stops(i, at) ==
    /\ migrators' = [migrators EXCEPT ![i] = at]
    /\ schema' = Unlocked(i)
    /\ \/ Accident
       \/ ~HasLock(i) /\ NoAccident

LEMMA StopsKeeps ==
    ASSUME MigTypeOK, MigInv, DirtyByAccident,
           NEW i \in Instances, NEW at \in {"none", "failed", "open"}, Stops(i, at)
    PROVE  (MigTypeOK /\ MigInv /\ DirtyByAccident)'
<1> USE DEF MigTypeOK
<1>1. /\ schema'.version = schema.version /\ schema'.dirty = schema.dirty
      /\ schema'.scripts = schema.scripts
      /\ schema' \in Schema
    BY DEF Stops, Unlocked, Schema
<1>2. schema'.lock = IF schema.lock = i THEN Nobody ELSE schema.lock
    BY DEF Stops, Unlocked, HasLock, Schema
<1>3. accidents' \in 0 .. MaxAccidents /\ accidents' >= accidents
    BY MigrationsAssumption DEF Stops, Accident, NoAccident
<1>4. migrators' \in [Instances -> MigrateSteps]
    BY DEF Stops, MigrateSteps
<1>5. DirtyByAccident'
    <2>1. CASE Accident
        BY <2>1, MigrationsAssumption DEF Accident, DirtyByAccident
    <2>2. CASE ~HasLock(i) /\ NoAccident
        BY <2>2, <1>1, <1>2 DEF HasLock, NoAccident, DirtyByAccident
    <2> QED
        BY <2>1, <2>2 DEF Stops
<1>6. ASSUME NEW j \in Instances
      PROVE  (/\ migrators[j] \in Holding <=> schema.lock = j
              /\ migrators[j] \in Holding => schema.version <= Build[j]
              /\ migrators[j] = "next" => ~schema.dirty
              /\ migrators[j] = "run" => schema.dirty /\ schema.scripts = 1 .. schema.version - 1
              /\ migrators[j] = "ran" => schema.dirty /\ schema.scripts = 1 .. schema.version
              /\ migrators[j] \in {"to", "done"} => 1 .. Build[j] \subseteq schema.scripts)'
    <2>1. migrators'[j] = IF j = i THEN at ELSE migrators[j]
        BY DEF Stops
    <2>2. CASE j = i
        BY <2>1, <2>2, <1>2, MigrationsAssumption DEF Holding
    <2>3. CASE j # i
        BY <2>1, <2>3, <1>1, <1>2, MigrationsAssumption DEF MigInv
    <2> QED
        BY <2>2, <2>3
<1> QED
    BY <1>1, <1>3, <1>4, <1>5, <1>6 DEF MigInv, VersionIsTrue

(* A step of i leaves what another instance knows as it is, if i has the    *)
(* lock or does not touch the schema.                                       *)
LEMMA OthersUnharmed ==
    ASSUME MigTypeOK, MigInv, NEW i \in Instances, NEW to,
           migrators' = [migrators EXCEPT ![i] = to],
           schema.scripts \subseteq schema'.scripts,
           \/ schema' = schema
           \/ schema.lock \in {Nobody, i} /\ schema'.lock \in {Nobody, i}
    PROVE  \A j \in Instances \ {i} :
           (/\ migrators[j] \in Holding <=> schema.lock = j
            /\ migrators[j] \in Holding => schema.version <= Build[j]
            /\ migrators[j] = "next" => ~schema.dirty
            /\ migrators[j] = "run" => schema.dirty /\ schema.scripts = 1 .. schema.version - 1
            /\ migrators[j] = "ran" => schema.dirty /\ schema.scripts = 1 .. schema.version
            /\ migrators[j] \in {"to", "done"} => 1 .. Build[j] \subseteq schema.scripts)'
<1> TAKE j \in Instances \ {i}
<1>1. migrators'[j] = migrators[j]
    BY DEF MigTypeOK
<1>2. CASE schema' = schema
    BY <1>1, <1>2 DEF MigInv
<1>3. CASE schema.lock \in {Nobody, i} /\ schema'.lock \in {Nobody, i}
    <2>1. schema.lock # j /\ schema'.lock # j
        BY <1>3, MigrationsAssumption
    <2>2. migrators[j] \notin Holding
        BY <2>1 DEF MigInv
    <2>3. migrators[j] \in {"to", "done"} => 1 .. Build[j] \subseteq schema'.scripts
        BY DEF MigInv
    <2> QED
        BY <1>1, <2>1, <2>2, <2>3 DEF Holding
<1> QED
    BY <1>2, <1>3

LEMMA MigrateKeeps ==
    ASSUME MigTypeOK, MigInv, DirtyByAccident, NEW i \in Instances, MigrateStep(i)
    PROVE  (MigTypeOK /\ MigInv /\ DirtyByAccident)'
<1> USE DEF MigTypeOK
<1>0. Build[i] \in Nat /\ Nobody \notin Instances
    BY MigrationsAssumption
<1> DEFINE Mine == /\ migrators[i] \in Holding <=> schema.lock = i
                   /\ migrators[i] \in Holding => schema.version <= Build[i]
                   /\ migrators[i] = "next" => ~schema.dirty
                   /\ migrators[i] = "run" => schema.dirty /\ schema.scripts = 1 .. schema.version - 1
                   /\ migrators[i] = "ran" => schema.dirty /\ schema.scripts = 1 .. schema.version
                   /\ migrators[i] \in {"to", "done"} => 1 .. Build[i] \subseteq schema.scripts
<1>m. Mine
    BY DEF MigInv
<1>1. ASSUME NEW to \in MigrateSteps, migrators' = [migrators EXCEPT ![i] = to],
             schema' \in Schema, NoAccident,
             schema.scripts \subseteq schema'.scripts,
             \/ schema' = schema
             \/ schema.lock \in {Nobody, i} /\ schema'.lock \in {Nobody, i},
             Mine', VersionIsTrue', schema'.dirty => schema'.version >= 1,
             schema'.dirty /\ schema'.lock = Nobody => schema.dirty /\ schema.lock = Nobody
      PROVE  (MigTypeOK /\ MigInv /\ DirtyByAccident)'
    <2>1. \A j \in Instances \ {i} :
           (/\ migrators[j] \in Holding <=> schema.lock = j
            /\ migrators[j] \in Holding => schema.version <= Build[j]
            /\ migrators[j] = "next" => ~schema.dirty
            /\ migrators[j] = "run" => schema.dirty /\ schema.scripts = 1 .. schema.version - 1
            /\ migrators[j] = "ran" => schema.dirty /\ schema.scripts = 1 .. schema.version
            /\ migrators[j] \in {"to", "done"} => 1 .. Build[j] \subseteq schema.scripts)'
        BY <1>1, OthersUnharmed
    <2>2. MigInv'
        BY <2>1, <1>1 DEF MigInv
    <2>3. MigTypeOK' /\ DirtyByAccident'
        BY <1>1 DEF NoAccident, DirtyByAccident
    <2> QED
        BY <2>2, <2>3
<1>2. CASE MigrateOpen(i)
    <2>1. Mine' /\ VersionIsTrue'
        BY <1>2, <1>m DEF MigrateOpen, Moves, Holding, MigInv, VersionIsTrue
    <2> QED
        BY <1>1, <1>2, <2>1 DEF MigrateOpen, Moves, MigrateSteps, MigInv
<1>3. CASE MigrateFrom(i)
    <2>1. PICK to \in {"up", "failed"} : Moves(i, "from", to)
        BY <1>3 DEF MigrateFrom
    <2>2. Mine' /\ VersionIsTrue'
        BY <1>3, <2>1, <1>m DEF MigrateFrom, Moves, Holding, MigInv, VersionIsTrue
    <2> QED
        BY <1>1, <1>3, <2>1, <2>2 DEF MigrateFrom, Moves, MigrateSteps, MigInv
<1>4. CASE MigrateTo(i)
    <2>1. PICK to \in {"done", "failed"} : Moves(i, "to", to)
        BY <1>4 DEF MigrateTo
    <2>2. Mine' /\ VersionIsTrue'
        BY <1>4, <2>1, <1>m DEF MigrateTo, Moves, Holding, MigInv, VersionIsTrue
    <2> QED
        BY <1>1, <1>4, <2>1, <2>2 DEF MigrateTo, Moves, MigrateSteps, MigInv
<1>5. CASE MigrateLock(i) /\ ~schema.dirty /\ schema.version <= Build[i]
    <2>1. /\ schema' \in Schema /\ schema'.lock = i /\ schema'.version = schema.version
          /\ schema'.dirty = schema.dirty /\ schema'.scripts = schema.scripts
          /\ schema.lock = Nobody
        BY <1>5 DEF MigrateLock, Schema
    <2>2. migrators' = [migrators EXCEPT ![i] = "next"] /\ NoAccident
        BY <1>5 DEF MigrateLock, Moves
    <2>3. Mine' /\ VersionIsTrue'
        BY <1>5, <2>1, <2>2 DEF Holding, MigInv, VersionIsTrue
    <2> QED
        BY <1>0, <1>1, <1>5, <2>1, <2>2, <2>3 DEF MigrateSteps
<1>6. CASE MigrateLock(i) /\ ~(~schema.dirty /\ schema.version <= Build[i])
    <2>1. Moves(i, "up", "failed") /\ UNCHANGED schema /\ NoAccident
        BY <1>6 DEF MigrateLock
    <2>2. Mine' /\ VersionIsTrue'
        BY <2>1, <1>m DEF Moves, Holding, MigInv, VersionIsTrue
    <2> QED
        BY <1>1, <2>1, <2>2 DEF Moves, MigrateSteps, MigInv
<1>7. CASE MigrateLockTimeout(i)
    <2>1. Mine' /\ VersionIsTrue'
        BY <1>7, <1>m DEF MigrateLockTimeout, Moves, Holding, MigInv, VersionIsTrue
    <2> QED
        BY <1>1, <1>7, <2>1 DEF MigrateLockTimeout, Moves, MigrateSteps, MigInv
<1>8. CASE MigrateNext(i)
    <2>1. /\ schema' \in Schema /\ schema'.lock = schema.lock
          /\ schema'.version = schema.version + 1
          /\ schema'.dirty = TRUE /\ schema'.scripts = schema.scripts
        <3>1. schema' = [schema EXCEPT !.version = schema.version + 1, !.dirty = TRUE]
            BY <1>8 DEF MigrateNext
        <3>2. schema.version + 1 \in Nat
            BY DEF Schema
        <3> QED
            BY <3>1, <3>2 DEF Schema
    <2>2. migrators[i] = "next" /\ migrators' = [migrators EXCEPT ![i] = "run"] /\ NoAccident
        BY <1>8 DEF MigrateNext, Moves
    <2>3. schema.lock = i /\ ~schema.dirty /\ schema.version \in Nat
        BY <2>2, <1>m DEF Holding, Schema
    <2>4. schema.scripts = 1 .. schema.version
        BY <2>3 DEF MigInv, VersionIsTrue
    <2>5. schema'.version - 1 = schema.version /\ schema'.version <= Build[i]
        BY <1>0, <1>8, <2>1, <2>3 DEF MigrateNext
    <2>6. Mine' /\ VersionIsTrue'
        BY <2>1, <2>2, <2>3, <2>4, <2>5 DEF Holding, VersionIsTrue
    <2> QED
        BY <1>0, <1>1, <2>1, <2>2, <2>3, <2>6 DEF MigrateSteps
<1>9. CASE MigrateRun(i)
    <2>1. /\ schema' \in Schema /\ schema'.lock = schema.lock
          /\ schema'.version = schema.version /\ schema'.dirty = schema.dirty
          /\ schema'.scripts = schema.scripts \cup {schema.version}
        BY <1>9 DEF MigrateRun, Schema
    <2>2. migrators[i] = "run" /\ migrators' = [migrators EXCEPT ![i] = "ran"] /\ NoAccident
        BY <1>9 DEF MigrateRun, Moves
    <2>3. schema.lock = i /\ schema.dirty /\ schema.version \in Nat \ {0}
        BY <2>2, <1>m DEF Holding, Schema, MigInv
    <2>4. schema'.scripts = 1 .. schema.version
        BY <2>1, <2>2, <2>3, <1>m
    <2>5. Mine' /\ VersionIsTrue'
        BY <2>1, <2>2, <2>3, <2>4, <1>m DEF Holding, VersionIsTrue
    <2> QED
        BY <1>0, <1>1, <2>1, <2>2, <2>3, <2>5 DEF MigrateSteps
<1>10. CASE MigrateRan(i)
    <2>1. /\ schema' \in Schema /\ schema'.lock = schema.lock
          /\ schema'.version = schema.version /\ schema'.dirty = FALSE
          /\ schema'.scripts = schema.scripts
        BY <1>10 DEF MigrateRan, Schema
    <2>2. migrators[i] = "ran" /\ migrators' = [migrators EXCEPT ![i] = "next"] /\ NoAccident
        BY <1>10 DEF MigrateRan, Moves
    <2>3. schema.lock = i /\ schema.scripts = 1 .. schema.version
        BY <2>2, <1>m DEF Holding
    <2>4. Mine' /\ VersionIsTrue'
        BY <2>1, <2>2, <2>3, <1>m DEF Holding, VersionIsTrue
    <2> QED
        BY <1>1, <2>1, <2>2, <2>3, <2>4 DEF MigrateSteps
<1>11. CASE MigrateNoMore(i)
    <2>1. migrators[i] = "next" /\ migrators' = [migrators EXCEPT ![i] = "to"] /\ NoAccident
        BY <1>11 DEF MigrateNoMore, Moves
    <2>2. schema.lock = i /\ ~schema.dirty /\ schema.version = Build[i]
        BY <1>11, <2>1, <1>m DEF Holding, MigrateNoMore
    <2>3. /\ schema' \in Schema /\ schema'.lock = Nobody
          /\ schema'.version = schema.version /\ schema'.dirty = schema.dirty
          /\ schema'.scripts = schema.scripts
        BY <1>11, <2>2 DEF MigrateNoMore, Unlocked, HasLock, Schema
    <2>4. schema.scripts = 1 .. Build[i]
        BY <2>2 DEF MigInv, VersionIsTrue
    <2>5. Mine' /\ VersionIsTrue'
        BY <1>0, <2>1, <2>2, <2>3, <2>4 DEF Holding, VersionIsTrue
    <2> QED
        BY <1>1, <2>1, <2>2, <2>3, <2>5 DEF MigrateSteps
<1>12. CASE MigrateError(i)
    <2>1. Stops(i, "failed")
        BY <1>12 DEF MigrateError, Stops
    <2> QED
        BY <2>1, StopsKeeps
<1> QED
    BY <1>2, <1>3, <1>4, <1>5, <1>6, <1>7, <1>8, <1>9, <1>10, <1>11, <1>12
        DEF MigrateStep, MigrateWorks

LEMMA FixKeeps ==
    ASSUME MigTypeOK, MigInv, DirtyByAccident, FixByHand
    PROVE  (MigTypeOK /\ MigInv /\ DirtyByAccident)'
<1> DEFINE v == IF schema.version \in schema.scripts THEN schema.version ELSE schema.version - 1
<1>1. /\ schema.dirty /\ schema.lock = Nobody
      /\ schema.version \in Nat /\ schema.version >= 1
    BY DEF FixByHand, MigTypeOK, Schema, MigInv
<1>2. v \in Nat /\ schema.scripts = 1 .. v
    BY <1>1 DEF MigInv, VersionIsTrue
<1>3. /\ schema'.version = v /\ schema'.dirty = FALSE /\ schema'.lock = Nobody
      /\ schema'.scripts = schema.scripts /\ schema' \in Schema
    BY <1>1, <1>2 DEF FixByHand, MigTypeOK, Schema
<1>4. \A i \in Instances : migrators[i] \notin Holding /\ schema'.lock # i
    BY <1>1, <1>3, MigrationsAssumption DEF MigInv
<1>5. UNCHANGED <<migrators, accidents>>
    BY DEF FixByHand, NoAccident
<1>6. MigInv'
    BY <1>2, <1>3, <1>4, <1>5 DEF MigInv, VersionIsTrue, Holding
<1> QED
    BY <1>3, <1>5, <1>6 DEF MigTypeOK, DirtyByAccident

-----------------------------------------------------------------------------
\* The processes.

LEMMA OffShape == \A code \in {0, 1} : Off(code) \in Proc
BY DEF Off, Proc

LEMMA BecomesShape ==
    ASSUME ProcTypeOK, NEW i \in Instances, NEW proc \in Proc, Becomes(i, proc)
    PROVE  /\ ProcTypeOK'
           /\ procs'[i] = proc
           /\ \A j \in Instances \ {i} : procs'[j] = procs[j]
BY DEF ProcTypeOK, Becomes

LEMMA OffIsOrderly == \A code \in {0, 1} : Orderly(Off(code))
BY DEF Orderly, Off

(* A step of i's process that leaves the database and its Migrate alone. *)
LEMMA ProcKeeps ==
    ASSUME IInv, NEW i \in Instances, NEW proc \in Proc, Becomes(i, proc),
           UNCHANGED <<schema, migrators>>, accidents' = accidents \/ Accident,
           Orderly(proc),
           proc.main # "off",
           proc.main \in {"prepare", "serve", "close"} => migrators[i] = "done"
    PROVE  IInv'
<1>1. /\ ProcTypeOK' /\ procs'[i] = proc
      /\ \A j \in Instances \ {i} : procs'[j] = procs[j]
    BY BecomesShape DEF IInv
<1>2. Placed' /\ Stopping'
    BY <1>1 DEF IInv, Placed, Stopping
<1>3. accidents' \in 0 .. MaxAccidents /\ accidents' >= accidents
    BY MigrationsAssumption DEF IInv, MigTypeOK, Accident
<1>4. (MigTypeOK /\ MigInv /\ DirtyByAccident)'
    BY <1>3 DEF IInv, MigTypeOK, MigInv, VersionIsTrue, DirtyByAccident
<1> QED
    BY <1>1, <1>2, <1>4 DEF IInv

(* A process that ends. *)
LEMMA ExitKeeps ==
    ASSUME IInv, NEW i \in Instances, NEW code \in {0, 1}, Exits(i, code),
           schema' = Unlocked(i), Accident \/ (~HasLock(i) /\ NoAccident)
    PROVE  IInv'
<1>1. /\ ProcTypeOK' /\ procs'[i] = Off(code)
      /\ \A j \in Instances \ {i} : procs'[j] = procs[j]
    BY BecomesShape, OffShape DEF IInv, Exits
<1>2. Stops(i, "none")
    BY DEF Stops, Exits
<1>3. (MigTypeOK /\ MigInv /\ DirtyByAccident)'
    BY <1>2, StopsKeeps DEF IInv
<1>4. Stopping'
    BY <1>1, OffIsOrderly DEF IInv, Stopping
<1>5. Placed'
    BY <1>1 DEF IInv, Placed, MigTypeOK, Exits, Off
<1> QED
    BY <1>1, <1>3, <1>4, <1>5 DEF IInv

LEMMA MainKeeps ==
    ASSUME IInv, NEW i \in Instances,
           Start(i) \/ MainStep(i) \/ Signal(i) \/ Crash(i)
    PROVE  IInv'
<1>0. procs[i] \in Proc /\ Orderly(procs[i])
    BY DEF IInv, ProcTypeOK, Stopping
<1>1. CASE Start(i)
    <2> DEFINE proc == [Off(0) EXCEPT !.main = "migrate"]
    <2>1. proc \in Proc /\ Orderly(proc)
        BY DEF Off, Proc, Orderly
    <2>2. /\ ProcTypeOK' /\ procs'[i] = proc
          /\ \A j \in Instances \ {i} : procs'[j] = procs[j]
        BY <1>1, <2>1, BecomesShape DEF IInv, Start
    <2>3. migrators[i] = "none"
        BY <1>1 DEF Start, IInv, Placed
    <2>4. schema.lock # i
        BY <2>3 DEF IInv, MigInv, Holding
    <2>5. Stops(i, "open")
        BY <1>1, <2>4 DEF Start, Stops, Unlocked, HasLock, NoAccident
    <2>6. (MigTypeOK /\ MigInv /\ DirtyByAccident)'
        BY <2>5, StopsKeeps DEF IInv
    <2>7. Stopping'
        BY <2>1, <2>2 DEF IInv, Stopping
    <2>8. Placed'
        BY <1>1, <2>2 DEF IInv, Placed, MigTypeOK, Start, Off
    <2> QED
        BY <2>2, <2>6, <2>7, <2>8 DEF IInv
<1>2. CASE Migrated(i)
    <2> DEFINE proc == [procs[i] EXCEPT !.main = "prepare"]
    <2>1. proc \in Proc /\ proc.main = "prepare" /\ Orderly(proc)
        BY <1>0 DEF Proc, Orderly
    <2> QED
        BY <1>2, <2>1, ProcKeeps DEF Migrated, schemaVars
<1>3. CASE MigrationFailed(i)
    <2>1. ~HasLock(i)
        BY <1>3 DEF MigrationFailed, HasLock, IInv, MigInv, Holding
    <2> QED
        BY <1>3, <2>1, ExitKeeps DEF MigrationFailed, Unlocked, NoAccident
<1>4. CASE Prepared(i)
    <2> DEFINE proc == [procs[i] EXCEPT !.main = "serve"]
    <2>1. proc \in Proc /\ proc.main = "serve" /\ Orderly(proc)
        BY <1>0 DEF Proc, Orderly
    <2>2. migrators[i] = "done"
        BY <1>4 DEF Prepared, IInv, Placed
    <2> QED
        BY <1>4, <2>1, <2>2, ProcKeeps DEF Prepared, schemaVars
<1>5. CASE PrepareFails(i)
    <2>1. migrators[i] = "done"
        BY <1>5 DEF PrepareFails, IInv, Placed
    <2>2. ~HasLock(i)
        BY <2>1 DEF HasLock, IInv, MigInv, Holding
    <2>3. Exits(i, 1) /\ schema' = Unlocked(i) /\ (Accident \/ NoAccident)
        BY <1>5, <2>2 DEF PrepareFails, Unlocked
    <2>4. Accident \/ (~HasLock(i) /\ NoAccident)
        BY <2>2, <2>3
    <2> QED
        BY <2>3, <2>4, ExitKeeps
<1>6. CASE Waited(i)
    <2> DEFINE proc == [procs[i] EXCEPT !.main = "close"]
    <2>1. proc \in Proc /\ proc.main = "close" /\ Orderly(proc)
        BY <1>0, <1>6 DEF Proc, Orderly, Waited
    <2>2. migrators[i] = "done"
        BY <1>6 DEF Waited, IInv, Placed
    <2> QED
        BY <1>6, <2>1, <2>2, ProcKeeps DEF Waited, schemaVars
<1>7. CASE Closed(i)
    <2>1. migrators[i] = "done"
        BY <1>7 DEF Closed, IInv, Placed
    <2>2. ~HasLock(i)
        BY <2>1 DEF HasLock, IInv, MigInv, Holding
    <2>3. PICK code \in {0, 1} : Exits(i, code)
        BY <1>7 DEF Closed
    <2> QED
        BY <1>7, <2>2, <2>3, ExitKeeps DEF Closed, Unlocked, NoAccident
<1>8. CASE Signal(i)
    <2> DEFINE proc == [procs[i] EXCEPT !.asked = TRUE, !.cancelled = TRUE]
    <2>1. /\ proc \in Proc /\ proc.main = procs[i].main /\ proc.main # "off"
          /\ proc.asked /\ proc.failed = procs[i].failed /\ proc.job = procs[i].job
          /\ proc.server = procs[i].server /\ proc.requests = procs[i].requests
          /\ proc.cancelled /\ proc.errc = procs[i].errc
        BY <1>0, <1>8 DEF Proc, Signal
    <2> HIDE DEF proc
    <2>2. Orderly(proc)
        BY <2>1, <1>0 DEF Orderly
    <2>3. proc.main \in {"prepare", "serve", "close"} => migrators[i] = "done"
        BY <2>1 DEF IInv, Placed
    <2>4. Becomes(i, proc) /\ UNCHANGED <<schema, migrators>> /\ accidents' = accidents
        BY <1>8 DEF Signal, schemaVars, proc
    <2> QED
        BY <2>1, <2>2, <2>3, <2>4, ProcKeeps
<1>9. CASE Crash(i)
    BY <1>9, ExitKeeps DEF Crash
<1> QED
    BY <1>1, <1>2, <1>3, <1>4, <1>5, <1>6, <1>7, <1>8, <1>9 DEF MainStep

(* A step of a goroutine: the process stays at serve, or ends a request.    *)
LEMMA WorkKeeps ==
    ASSUME IInv, NEW i \in Instances, NEW proc \in Proc, Becomes(i, proc),
           UNCHANGED <<schema, migrators>>, accidents' = accidents \/ Accident,
           Orderly(proc), proc.main = procs[i].main, procs[i].main # "off"
    PROVE  IInv'
<1>1. proc.main \in {"prepare", "serve", "close"} => migrators[i] = "done"
    BY DEF IInv, Placed
<1> QED
    BY <1>1, ProcKeeps

LEMMA ServerKeeps ==
    ASSUME IInv, NEW i \in Instances, NEW s \in Servers,
           ServerStep(i, s) \/ ServeFails(i, s) \/ Accept(i, s) \/ EndRequest(i, s)
    PROVE  IInv'
<1>0. procs[i] \in Proc /\ Orderly(procs[i])
    BY DEF IInv, ProcTypeOK, Stopping
<1>1. ASSUME NEW from \in {"listen", "serving", "shutting"},
             NEW to \in {"serving", "shutting", "returned"},
             ServerMoves(i, s, from, to),
             to = "returned" => procs[i].requests[s] = 0 /\ s \notin procs[i].errc
      PROVE  IInv'
    <2> DEFINE proc == [procs[i] EXCEPT !.server[s] = to]
    <2>1. /\ proc \in Proc /\ proc.main = "serve" /\ procs[i].main = "serve"
          /\ proc.asked = procs[i].asked /\ proc.failed = procs[i].failed
          /\ proc.job = procs[i].job /\ proc.cancelled = procs[i].cancelled
          /\ proc.server = [procs[i].server EXCEPT ![s] = to]
          /\ proc.requests = procs[i].requests /\ proc.errc = procs[i].errc
        BY <1>0, <1>1 DEF Proc, ServerMoves, Serves
    <2> HIDE DEF proc
    <2>2. Orderly(proc)
        BY <2>1, <1>0, <1>1 DEF Orderly, Proc
    <2> QED
        BY <1>1, <2>1, <2>2, WorkKeeps DEF ServerMoves, schemaVars, proc
<1>2. ASSUME ServerReturnsError(i, s), Serves(i), UNCHANGED <<schema, migrators>>,
             accidents' = accidents \/ Accident
      PROVE  IInv'
    <2> DEFINE proc == [procs[i] EXCEPT
                    !.server[s] = "returned", !.failed = TRUE, !.cancelled = TRUE]
    <2>1. /\ proc \in Proc /\ proc.main = "serve" /\ procs[i].main = "serve"
          /\ proc.failed /\ proc.cancelled
        BY <1>0, <1>2 DEF Proc, Serves
    <2> HIDE DEF proc
    <2>2. Orderly(proc)
        BY <2>1 DEF Orderly
    <2> QED
        BY <1>2, <2>1, <2>2, WorkKeeps DEF ServerReturnsError, proc
<1>3. CASE Listens(i, s)
    BY <1>1, <1>3 DEF Listens
<1>4. CASE ListenFails(i, s)
    BY <1>2, <1>4 DEF ListenFails
<1>5. CASE ShutDown(i, s)
    BY <1>1, <1>5 DEF ShutDown
<1>6. CASE ShutDownDone(i, s)
    BY <1>1, <1>2, <1>6 DEF ShutDownDone, schemaVars
<1>7. CASE ShutDownTimeout(i, s)
    BY <1>2, <1>7 DEF ShutDownTimeout, schemaVars
<1>8. CASE ServeReturns(i, s)
    BY <1>2, <1>8 DEF ServeReturns, schemaVars
<1>9. CASE ServeFails(i, s)
    <2> DEFINE proc == [procs[i] EXCEPT !.errc = @ \cup {s}]
    <2>1. /\ proc \in Proc /\ proc.main = procs[i].main
          /\ proc.asked = procs[i].asked /\ proc.failed = procs[i].failed
          /\ proc.job = procs[i].job /\ proc.cancelled = procs[i].cancelled
          /\ proc.server = procs[i].server /\ proc.requests = procs[i].requests
          /\ proc.errc = procs[i].errc \cup {s}
        BY <1>0 DEF Proc
    <2>2. procs[i].main = "serve" /\ procs[i].server[s] = "serving"
        BY <1>9 DEF ServeFails, Serves
    <2>3. Becomes(i, proc) /\ UNCHANGED <<schema, migrators>> /\ Accident
        BY <1>9 DEF ServeFails
    <2> HIDE DEF proc
    <2>4. Orderly(proc)
        BY <2>1, <2>2, <1>0 DEF Orderly
    <2> QED
        BY <2>1, <2>2, <2>3, <2>4, WorkKeeps
<1>10. ASSUME NEW n \in Nat, Becomes(i, [procs[i] EXCEPT !.requests[s] = n]),
             UNCHANGED schemaVars, procs[i].main # "off",
             procs[i].server[s] = "returned" /\ ~procs[i].failed => n = 0
      PROVE  IInv'
    <2> DEFINE proc == [procs[i] EXCEPT !.requests[s] = n]
    <2>1. /\ proc \in Proc /\ proc.main = procs[i].main
          /\ proc.asked = procs[i].asked /\ proc.failed = procs[i].failed
          /\ proc.job = procs[i].job /\ proc.cancelled = procs[i].cancelled
          /\ proc.server = procs[i].server /\ proc.errc = procs[i].errc
          /\ proc.requests = [procs[i].requests EXCEPT ![s] = n]
        BY <1>0, <1>10 DEF Proc
    <2> HIDE DEF proc
    <2>2. Orderly(proc)
        BY <2>1, <1>0, <1>10 DEF Orderly, Proc
    <2> QED
        BY <1>10, <2>1, <2>2, WorkKeeps DEF schemaVars, proc
<1>11. procs[i].requests[s] \in Nat
    BY <1>0 DEF Proc
<1>12. CASE Accept(i, s)
    <2>1. procs[i].requests[s] + 1 \in Nat
        BY <1>11
    <2> QED
        BY <1>10, <1>12, <2>1 DEF Accept, Serves
<1>13. CASE EndRequest(i, s)
    <2>1. procs[i].requests[s] - 1 \in Nat
        BY <1>11, <1>13 DEF EndRequest
    <2>2. ~(procs[i].server[s] = "returned" /\ ~procs[i].failed)
        BY <1>0, <1>11, <1>13 DEF EndRequest, Orderly
    <2>3. procs[i].main # "off"
        BY <1>0, <1>11, <1>13 DEF EndRequest, Orderly
    <2> QED
        BY <1>10, <1>13, <2>1, <2>2, <2>3 DEF EndRequest
<1> QED
    BY <1>3, <1>4, <1>5, <1>6, <1>7, <1>8, <1>9, <1>12, <1>13 DEF ServerStep

LEMMA JobKeeps ==
    ASSUME IInv, NEW i \in Instances, JobSweeps(i) \/ JobSwept(i) \/ JobStops(i)
    PROVE  IInv'
<1>0. procs[i] \in Proc /\ Orderly(procs[i])
    BY DEF IInv, ProcTypeOK, Stopping
<1>1. PICK to \in {"waiting", "sweeping", "returned"} :
        /\ Serves(i) /\ Becomes(i, [procs[i] EXCEPT !.job = to]) /\ UNCHANGED schemaVars
        /\ to = "returned" => procs[i].cancelled
    BY DEF JobSweeps, JobSwept, JobStops, JobMoves
<1> DEFINE proc == [procs[i] EXCEPT !.job = to]
<1>2. /\ proc \in Proc /\ proc.main = "serve" /\ procs[i].main = "serve"
      /\ proc.asked = procs[i].asked /\ proc.failed = procs[i].failed
      /\ proc.cancelled = procs[i].cancelled /\ proc.job = to
      /\ proc.server = procs[i].server /\ proc.requests = procs[i].requests
      /\ proc.errc = procs[i].errc
    BY <1>0, <1>1 DEF Proc, Serves
<1> HIDE DEF proc
<1>3. Orderly(proc)
    BY <1>0, <1>1, <1>2 DEF Orderly
<1>4. Becomes(i, proc) /\ UNCHANGED <<schema, migrators>> /\ accidents' = accidents
    BY <1>1 DEF schemaVars, proc
<1> QED
    BY <1>2, <1>3, <1>4, WorkKeeps

-----------------------------------------------------------------------------
\* The theorems.

LEMMA InitIInv == Init => IInv
<1> SUFFICES ASSUME Init PROVE IInv
    OBVIOUS
<1>1. MigTypeOK /\ MigInv /\ DirtyByAccident
    BY InitMigrations
<1>2. procs = [i \in Instances |-> Off(0)] /\ migrators = [i \in Instances |-> "none"]
    BY DEF Init, MigrationsInit
<1>3. Off(0).main = "off"
    BY DEF Off
<1>4. ProcTypeOK /\ Placed /\ Stopping
    BY <1>2, <1>3, OffShape, OffIsOrderly DEF ProcTypeOK, Placed, Stopping
<1> QED
    BY <1>1, <1>4 DEF IInv

LEMMA NextIInv == IInv /\ [Next]_vars => IInv'
<1> SUFFICES ASSUME IInv, [Next]_vars PROVE IInv'
    OBVIOUS
<1>1. CASE UNCHANGED vars
    BY <1>1 DEF vars, schemaVars, IInv, MigTypeOK, ProcTypeOK, MigInv, VersionIsTrue,
        DirtyByAccident, Placed, Stopping, Orderly
<1>2. CASE Fixed
    <2>1. UNCHANGED <<procs, migrators>> /\ FixByHand
        BY <1>2 DEF Fixed, FixByHand
    <2>2. (MigTypeOK /\ MigInv /\ DirtyByAccident)'
        BY <2>1, FixKeeps DEF IInv
    <2> QED
        BY <2>1, <2>2 DEF IInv, ProcTypeOK, Placed, Stopping
<1>3. ASSUME NEW i \in Instances, MigrateOf(i)
      PROVE  IInv'
    <2>1. UNCHANGED procs /\ MigrateStep(i)
        BY <1>3 DEF MigrateOf
    <2>2. (MigTypeOK /\ MigInv /\ DirtyByAccident)'
        BY <2>1, MigrateKeeps DEF IInv
    <2>3. migrators[i] \notin {"none", "done"}
        BY <2>1 DEF MigrateStep, MigrateOpen, MigrateWorks, MigrateError, MigrateFrom,
            MigrateTo, MigrateLock, MigrateLockTimeout, MigrateNext, MigrateRun,
            MigrateRan, MigrateNoMore, Moves
    <2>4. \A j \in Instances \ {i} : migrators'[j] = migrators[j]
        BY <2>1 DEF IInv, MigTypeOK, MigrateStep, MigrateOpen, MigrateWorks, MigrateError,
            MigrateFrom, MigrateTo, MigrateLock, MigrateLockTimeout, MigrateNext,
            MigrateRun, MigrateRan, MigrateNoMore, Moves
    <2>5. Placed'
        BY <2>1, <2>3, <2>4 DEF IInv, Placed
    <2> QED
        BY <2>1, <2>2, <2>5 DEF IInv, ProcTypeOK, Stopping
<1> QED
    BY <1>1, <1>2, <1>3, MainKeeps, JobKeeps, ServerKeeps DEF Next, InstanceStep

LEMMA AlwaysIInv == Spec => []IInv
BY InitIInv, NextIInv, PTL DEF Spec

(* Schema, migrations and processes keep their shape, and an error of       *)
(* Migrate is never passed over.                                            *)
THEOREM TypeCorrect == Spec => []TypeOK
<1>1. IInv => TypeOK
    BY DEF IInv, MigTypeOK, ProcTypeOK, TypeOK
<1> QED
    BY <1>1, AlwaysIInv, PTL

(* The schema that Migrate leaves, or is in the middle of, is what its      *)
(* version says, for any number of instances that start and stop anywhere.  *)
THEOREM TrueVersion == Spec => []VersionIsTrue
BY AlwaysIInv, PTL DEF IInv, MigInv

(* A schema is left dirty only by what went wrong, never by a signal. *)
THEOREM DirtyOnlyByAccident == Spec => []DirtyByAccident
BY AlwaysIInv, PTL DEF IInv

(* serve goes on from Migrate only with all scripts of its build in place.  *)
THEOREM OnItsSchema == Spec => []ServesOnItsSchema
<1>1. IInv => ServesOnItsSchema
    BY DEF IInv, MigInv, Placed, ServesOnItsSchema
<1> QED
    BY <1>1, AlwaysIInv, PTL

(* A step of a process that does not end it. *)
StaysUp(j) == \E proc \in Proc :
    Becomes(j, proc) /\ (procs[j].main # "off" => proc.main # "off")

LEMMA HowProcessesMove ==
    ASSUME IInv, Next
    PROVE  \/ UNCHANGED procs
           \/ \E j \in Instances : Exits(j, 1) \/ Closed(j) \/ StaysUp(j)
<1>1. CASE Fixed
    BY <1>1 DEF Fixed
<1>2. ASSUME NEW j \in Instances, InstanceStep(j)
      PROVE  UNCHANGED procs \/ Exits(j, 1) \/ Closed(j) \/ StaysUp(j)
    <2>0. procs[j] \in Proc
        BY DEF IInv, ProcTypeOK
    <2>1. CASE MigrateOf(j) \/ MigrationFailed(j) \/ PrepareFails(j) \/ Closed(j) \/ Crash(j)
        BY <2>1 DEF MigrateOf, MigrationFailed, PrepareFails, Crash
    <2>2. CASE Start(j)
        BY <2>2 DEF Start, StaysUp, Off, Proc
    <2>3. CASE Migrated(j) \/ Prepared(j) \/ Waited(j)
        BY <2>0, <2>3 DEF Migrated, Prepared, Waited, StaysUp, Proc
    <2>4. CASE Signal(j)
        <3> DEFINE proc == [procs[j] EXCEPT !.asked = TRUE, !.cancelled = TRUE]
        <3>1. proc \in Proc /\ proc.main = procs[j].main
            BY <2>0 DEF Proc
        <3> QED
            BY <2>4, <3>1 DEF Signal, StaysUp
    <2>5. ASSUME NEW to \in {"waiting", "sweeping", "returned"},
                 Becomes(j, [procs[j] EXCEPT !.job = to])
          PROVE  StaysUp(j)
        BY <2>0, <2>5 DEF StaysUp, Proc
    <2>6. CASE JobSweeps(j) \/ JobSwept(j) \/ JobStops(j)
        BY <2>5, <2>6 DEF JobSweeps, JobSwept, JobStops, JobMoves
    <2>7. ASSUME NEW s \in Servers,
                 NEW to \in {"listen", "serving", "shutting", "returned"},
                 Becomes(j, [procs[j] EXCEPT !.server[s] = to])
          PROVE  StaysUp(j)
        <3> DEFINE proc == [procs[j] EXCEPT !.server[s] = to]
        <3>1. proc \in Proc /\ proc.main = procs[j].main
            BY <2>0 DEF Proc
        <3> QED
            BY <2>7, <3>1 DEF StaysUp
    <2>8. ASSUME NEW s \in Servers, ServerReturnsError(j, s)
          PROVE  StaysUp(j)
        <3> DEFINE proc == [procs[j] EXCEPT
                        !.server[s] = "returned", !.failed = TRUE, !.cancelled = TRUE]
        <3>1. proc \in Proc /\ proc.main = procs[j].main
            BY <2>0 DEF Proc
        <3> QED
            BY <2>8, <3>1 DEF ServerReturnsError, StaysUp
    <2>9. ASSUME NEW s \in Servers, NEW n \in Nat,
                 Becomes(j, [procs[j] EXCEPT !.requests[s] = n])
          PROVE  StaysUp(j)
        <3> DEFINE proc == [procs[j] EXCEPT !.requests[s] = n]
        <3>1. proc \in Proc /\ proc.main = procs[j].main
            BY <2>0 DEF Proc
        <3> QED
            BY <2>9, <3>1 DEF StaysUp
    <2>10. ASSUME NEW s \in Servers,
                  ServerStep(j, s) \/ ServeFails(j, s) \/ Accept(j, s) \/ EndRequest(j, s)
           PROVE  StaysUp(j)
        <3>1. procs[j].requests[s] \in Nat
            BY <2>0 DEF Proc
        <3>2. CASE Listens(j, s) \/ ShutDown(j, s)
            BY <2>7, <3>2 DEF Listens, ShutDown, ServerMoves
        <3>3. CASE ListenFails(j, s) \/ ServeReturns(j, s) \/ ShutDownTimeout(j, s)
            BY <2>8, <3>3 DEF ListenFails, ServeReturns, ShutDownTimeout
        <3>4. CASE ShutDownDone(j, s)
            BY <2>7, <2>8, <3>4 DEF ShutDownDone, ServerMoves
        <3>5. CASE ServeFails(j, s)
            <4> DEFINE proc == [procs[j] EXCEPT !.errc = @ \cup {s}]
            <4>1. proc \in Proc /\ proc.main = procs[j].main
                BY <2>0 DEF Proc
            <4> QED
                BY <3>5, <4>1 DEF ServeFails, StaysUp
        <3>6. CASE Accept(j, s)
            <4>1. procs[j].requests[s] + 1 \in Nat
                BY <3>1
            <4> QED
                BY <2>9, <3>6, <4>1 DEF Accept
        <3>7. CASE EndRequest(j, s)
            <4>1. procs[j].requests[s] - 1 \in Nat
                BY <3>1, <3>7 DEF EndRequest
            <4> QED
                BY <2>9, <3>7, <4>1 DEF EndRequest
        <3> QED
            BY <2>10, <3>2, <3>3, <3>4, <3>5, <3>6, <3>7 DEF ServerStep
    <2> QED
        BY <1>2, <2>1, <2>2, <2>3, <2>4, <2>6, <2>10 DEF InstanceStep, MainStep
<1> QED
    BY <1>1, <1>2 DEF Next

(* Exit code 0 says that serve was told to stop, cut off no request, and    *)
(* that neither Serve gave up, not even as the context was cancelled.       *)
THEOREM CleanExits == Spec => CodeZeroIsClean
<1> DEFINE Clean == \A i \in Instances :
        procs[i].main # "off" /\ procs'[i].main = "off" /\ procs'[i].code = 0 =>
            procs[i].asked /\ procs[i].errc = {} /\ ~Busy(i)
<1>1. IInv /\ [Next]_vars => [Clean]_vars
    <2> SUFFICES ASSUME IInv, Next, NEW i \in Instances, procs[i].main # "off",
                        procs'[i].main = "off", procs'[i].code = 0
                 PROVE  procs[i].asked /\ procs[i].errc = {} /\ ~Busy(i)
        BY DEF vars
    <2>0. procs[i] \in Proc /\ Orderly(procs[i])
        BY DEF IInv, ProcTypeOK, Stopping
    <2>1. CASE Closed(i) /\ ~procs[i].failed
        <3>1. procs[i].asked
            BY <2>0, <2>1 DEF Closed, Orderly
        <3>2. \A s \in Servers : procs[i].requests[s] = 0
            BY <2>0, <2>1 DEF Closed, Orderly
        <3>3. procs[i].errc \subseteq Servers
            BY <2>0 DEF Proc
        <3>4. \A s \in Servers : s \notin procs[i].errc
            BY <2>0, <2>1 DEF Closed, Orderly
        <3> QED
            BY <3>1, <3>2, <3>3, <3>4 DEF Busy
    <2>2. ASSUME NEW j \in Instances, NEW proc \in Proc, Becomes(j, proc),
                 j # i \/ proc.main # "off" \/ proc.code # 0
          PROVE  FALSE
        BY <2>2 DEF Becomes, IInv, ProcTypeOK
    <2>3. ASSUME NEW j \in Instances, Exits(j, 1)
          PROVE  FALSE
        <3>1. Off(1).code # 0
            BY DEF Off
        <3> QED
            BY <2>2, <2>3, <3>1, OffShape DEF Exits
    <2>4. ASSUME NEW j \in Instances, Closed(j)
          PROVE  j = i /\ ~procs[i].failed
        <3>1. CASE procs[j].failed
            BY <2>3, <2>4, <3>1 DEF Closed
        <3>2. CASE ~procs[j].failed
            BY <2>2, <2>4, <3>2, OffShape DEF Closed, Exits
        <3> QED
            BY <3>1, <3>2
    <2>5. ASSUME NEW j \in Instances, StaysUp(j)
          PROVE  FALSE
        <3>1. PICK proc \in Proc :
                Becomes(j, proc) /\ (procs[j].main # "off" => proc.main # "off")
            BY <2>5 DEF StaysUp
        <3> QED
            BY <2>2, <3>1
    <2> QED
        BY <2>1, <2>3, <2>4, <2>5, HowProcessesMove
<1> QED
    BY <1>1, AlwaysIInv, PTL DEF Spec, CodeZeroIsClean
=============================================================================
