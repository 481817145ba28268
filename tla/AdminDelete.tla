----------------------------- MODULE AdminDelete -----------------------------
(***************************************************************************)
(* DELETE /admin/{id} and DELETE /admin: adminDelete and adminDeleteMany   *)
(* of internal/web/admin.go, for a user the admin middleware let through.  *)
(* Both are one statement, by the ids the request names; links that are    *)
(* missing are skipped.                                                    *)
(***************************************************************************)
EXTENDS LinkTable

CONSTANTS
    Deleters,       \* the deletions that can be in flight at once
    MaxDeleteMany   \* maxDeleteMany

ASSUME DeleteAssumption == MaxDeleteMany \in Nat

VARIABLE deletes

NoDelete == [step |-> "idle"]

Deleting == [step : {"delete"}, ids : SUBSET Ids]

DeleteTypeOK == deletes \in [Deleters -> {NoDelete} \cup Deleting]

DeleteInit == deletes = [d \in Deleters |-> NoDelete]

-----------------------------------------------------------------------------
DeleteDone(d) == deletes' = [deletes EXCEPT ![d] = NoDelete]

(* The id in the path. *)
DeleteOne(d) ==
    /\ deletes[d] = NoDelete
    /\ \E id \in Ids : deletes' = [deletes EXCEPT ![d] = [step |-> "delete", ids |-> {id}]]
    /\ UNCHANGED tableVars

(* The ids in the body: none or too many are refused at once. *)
DeleteMany(d) ==
    /\ deletes[d] = NoDelete
    /\ \E ids \in SUBSET Ids :
        /\ Cardinality(ids) \in 1..MaxDeleteMany
        /\ deletes' = [deletes EXCEPT ![d] = [step |-> "delete", ids |-> ids]]
    /\ UNCHANGED tableVars

(* The statement takes effect; its answer may be lost. *)
DeleteStored(d) ==
    /\ deletes[d].step = "delete"
    /\ DeleteIds(deletes[d].ids)
    /\ DeleteDone(d)

DeleteFailed(d) ==
    /\ deletes[d].step = "delete"
    /\ "error" \in Faults
    /\ DeleteDone(d)
    /\ UNCHANGED tableVars

DeleteStep(d) == DeleteOne(d) \/ DeleteMany(d) \/ DeleteStored(d) \/ DeleteFailed(d)
=============================================================================
