----------------------------- MODULE Migrations -----------------------------
(***************************************************************************)
(* Migrate of src/internal/db/migrate.go: an instance of swosh that starts *)
(* brings the database up to the schema that its build was made for.       *)
(* Several instances can do so at once, and any of them can stop in the    *)
(* middle.  The steps of golang-migrate are external: it notes a version   *)
(* as dirty, runs its script, which is one transaction, and notes it as    *)
(* clean, all under a lock that the database frees if the holder is gone.  *)
(***************************************************************************)
EXTENDS Integers

CONSTANTS
    Instances,
    Build,          \* by instance, the newest migration that is embedded in it
    FirstVersions,  \* the versions of the schema that can be found at first
    MaxAccidents,   \* bound on what goes wrong
    Nobody

ASSUME MigrationsAssumption ==
    /\ Build \in [Instances -> Nat \ {0}]
    /\ FirstVersions \subseteq Nat
    /\ MaxAccidents \in Nat
    /\ Nobody \notin Instances

VARIABLES
    schema,     \* what the database notes, who has the lock, the scripts that ran
    migrators,  \* by instance, where its Migrate is
    accidents   \* how many failures and crashes there were

schemaVars == <<schema, migrators, accidents>>

MigrateSteps == {"none", "open", "from", "up", "next", "run", "ran", "to", "done", "failed"}

Schema ==
    [version : Nat, dirty : BOOLEAN, lock : Instances \cup {Nobody}, scripts : SUBSET Nat]

MigrationsInit ==
    /\ \E v \in FirstVersions :
        schema = [version |-> v, dirty |-> FALSE, lock |-> Nobody, scripts |-> 1 .. v]
    /\ migrators = [i \in Instances |-> "none"]
    /\ accidents = 0

HasLock(i) == schema.lock = i

Moves(i, from, to) == migrators[i] = from /\ migrators' = [migrators EXCEPT ![i] = to]

Accident == accidents < MaxAccidents /\ accidents' = accidents + 1

NoAccident == UNCHANGED accidents

(* The schema without the lock of an instance that stops. *)
Unlocked(i) == IF HasLock(i) THEN [schema EXCEPT !.lock = Nobody] ELSE schema

-----------------------------------------------------------------------------
\* Migrate, step by step.

(* newMigrator: the table of the version is made sure of, under the lock.   *)
MigrateOpen(i) ==
    /\ Moves(i, "open", "from")
    /\ schema.lock = Nobody
    /\ UNCHANGED schema /\ NoAccident

(* schemaVersion does not report that the schema is dirty. *)
VersionIsClean == ~schema.dirty

(* schemaVersion before Up and after it, without the lock. *)
MigrateFrom(i) ==
    /\ Moves(i, "from", IF VersionIsClean THEN "up" ELSE "failed")
    /\ UNCHANGED schema /\ NoAccident

MigrateTo(i) ==
    /\ Moves(i, "to", IF VersionIsClean THEN "done" ELSE "failed")
    /\ UNCHANGED schema /\ NoAccident

(* Wrong: goes on where a migration failed. *)
ForcesDirty(i) ==
    /\ schema.lock = Nobody
    /\ Moves(i, "up", "next")
    /\ schema' = [schema EXCEPT !.lock = i, !.dirty = FALSE]
    /\ NoAccident

(* Up: the lock is taken and the version read.  A dirty schema is refused,  *)
(* and so is one of which this build has no script.                         *)
MigrateLock(i) ==
    /\ schema.lock = Nobody
    /\ IF ~schema.dirty /\ schema.version <= Build[i]
       THEN Moves(i, "up", "next") /\ schema' = [schema EXCEPT !.lock = i]
       ELSE Moves(i, "up", "failed") /\ UNCHANGED schema
    /\ NoAccident

(* Up: another instance has the lock for longer than this one waits. *)
MigrateLockTimeout(i) ==
    /\ schema.lock \notin {Nobody, i}
    /\ Moves(i, "up", "failed")
    /\ UNCHANGED schema /\ NoAccident

(* Up: the next version is noted as dirty. *)
MigrateNext(i) ==
    /\ Moves(i, "next", "run")
    /\ schema.version < Build[i]
    /\ schema' = [schema EXCEPT !.version = @ + 1, !.dirty = TRUE]
    /\ NoAccident

(* Up: the script of that version runs. *)
MigrateRun(i) ==
    /\ Moves(i, "run", "ran")
    /\ schema.version \notin schema.scripts
    /\ schema' = [schema EXCEPT !.scripts = @ \cup {schema.version}]
    /\ NoAccident

(* Up: the version is noted as clean. *)
MigrateRan(i) ==
    /\ Moves(i, "ran", "next")
    /\ schema' = [schema EXCEPT !.dirty = FALSE]
    /\ NoAccident

(* Wrong: the lock is not given back. *)
KeepsLock(i) ==
    /\ Moves(i, "next", "to")
    /\ schema.version = Build[i]
    /\ UNCHANGED schema /\ NoAccident

(* Up: there is no more to do, or ErrNoChange. *)
MigrateNoMore(i) ==
    /\ Moves(i, "next", "to")
    /\ schema.version = Build[i]
    /\ schema' = Unlocked(i) /\ NoAccident

(* Wrong: an error of Up counts as no change. *)
ErrorIsNoChange(i) ==
    /\ migrators[i] \in {"open", "from", "up", "next", "run", "ran", "to"}
    /\ migrators' = [migrators EXCEPT ![i] = "to"]
    /\ schema' = Unlocked(i) /\ Accident

(* A statement fails: Migrate returns the error and closes its connection.  *)
(* A script that fails leaves nothing but the dirty version.                *)
MigrateError(i) ==
    /\ migrators[i] \in {"open", "from", "up", "next", "run", "ran", "to"}
    /\ migrators' = [migrators EXCEPT ![i] = "failed"]
    /\ schema' = Unlocked(i) /\ Accident

MigrateWorks(i) ==
    \/ MigrateFrom(i) \/ MigrateLock(i) \/ MigrateLockTimeout(i)
    \/ MigrateNext(i) \/ MigrateRun(i) \/ MigrateRan(i)
    \/ MigrateNoMore(i) \/ MigrateTo(i)

MigrateStep(i) == MigrateOpen(i) \/ MigrateWorks(i) \/ MigrateError(i)

(* A dirty schema is set right by hand: what the script did or did not do   *)
(* is looked up, and the version noted that is true.                        *)
FixByHand ==
    /\ schema.dirty /\ schema.lock = Nobody
    /\ schema' = [schema EXCEPT
        !.version = IF @ \in schema.scripts THEN @ ELSE @ - 1, !.dirty = FALSE]
    /\ UNCHANGED migrators /\ NoAccident

-----------------------------------------------------------------------------
\* Properties.

(* The version that the database notes is that of its schema: all scripts   *)
(* up to it ran and no other, but for the script of a dirty version.  So no *)
(* script ever finds its work done, however many instances start at once    *)
(* and wherever they stop.                                                  *)
VersionIsTrue ==
    \/ schema.scripts = 1 .. schema.version
    \/ schema.dirty /\ schema.scripts = 1 .. schema.version - 1

(* "a migration failed half-way": a version stays dirty without an instance *)
(* at work on it only if something went wrong.  A signal is nothing of the  *)
(* kind, because Migrate does not look at it.                               *)
DirtyByAccident == schema.dirty /\ schema.lock = Nobody => accidents > 0
=============================================================================
