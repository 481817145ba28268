----------------------------- MODULE ExpirySweep -----------------------------
(***************************************************************************)
(* The background job of internal/expiry/expiry.go: Run sweeps on a timer, *)
(* and Sweep reads the clock and then deletes what had expired by then.    *)
(* The timer has no length: it fires some time after Run has set it.       *)
(***************************************************************************)
EXTENDS LinkTable

VARIABLES
    sweep,          \* not running yet, waiting for the timer, or deleting
    expiredLinks    \* expired_links_total

sweepVars == <<sweep, expiredLinks>>

(* The process migrates and connects; Run has set no timer yet. *)
Starting == [step |-> "starting"]

Waiting == [step |-> "waiting"]

Sweeping == [step : {"sweep"}, now : Nat]

SweepTypeOK ==
    /\ sweep \in {Starting, Waiting} \cup Sweeping
    /\ expiredLinks \in Nat

SweepInit ==
    /\ sweep = Starting
    /\ expiredLinks = 0

-----------------------------------------------------------------------------
(* Run sets its timer, to initialDelay. *)
RunStart ==
    /\ sweep = Starting
    /\ sweep' = Waiting
    /\ UNCHANGED <<expiredLinks, tableVars>>

(* The timer fires. *)
SweepStart ==
    /\ sweep = Waiting
    /\ sweep' = [step |-> "sweep", now |-> clock]
    /\ UNCHANGED <<expiredLinks, tableVars>>

(* Wrong: what has expired by the end of the sweep is counted. *)
SweepCountsDue ==
    /\ sweep.step = "sweep"
    /\ DeleteExpiredSwoshes(sweep.now)
    /\ expiredLinks' = expiredLinks + Cardinality(LapsedIds(clock))
    /\ sweep' = Waiting

SweepStored ==
    /\ sweep.step = "sweep"
    /\ DeleteExpiredSwoshes(sweep.now)
    /\ expiredLinks' = expiredLinks + Cardinality(LapsedIds(sweep.now))
    /\ sweep' = Waiting

(* Wrong: a failed sweep ends the job. *)
SweepGivesUp ==
    /\ sweep.step = "sweep"
    /\ "error" \in Faults
    /\ sweep' = [step |-> "stopped"]
    /\ UNCHANGED <<expiredLinks, tableVars>>

(* Nothing is deleted, or the ids that were deleted never arrive.  Either  *)
(* way the next sweep is the retry.                                        *)
SweepFailed ==
    /\ sweep.step = "sweep"
    /\ \/ "error" \in Faults /\ UNCHANGED tableVars
       \/ "lost" \in Faults /\ DeleteExpiredSwoshes(sweep.now)
    /\ sweep' = Waiting
    /\ UNCHANGED expiredLinks

SweepStep == RunStart \/ SweepStart \/ SweepStored \/ SweepFailed
=============================================================================
