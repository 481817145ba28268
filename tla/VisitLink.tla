------------------------------ MODULE VisitLink ------------------------------
(***************************************************************************)
(* The public's requests for a link: GET /{id}, /{id}/redir and /{id}/qr,  *)
(* which all go through lookup and touch of internal/web/web.go.           *)
(*                                                                         *)
(* The row is read, then the clock, then the user of the session, then the *)
(* clock again, and only then is the visit recorded and the link served    *)
(* from the row read at first.                                             *)
(***************************************************************************)
EXTENDS LinkTable

CONSTANTS
    Visitors,   \* the requests that can be in flight at once
    Roles       \* who visits: "public", "admin" with a session, or "basic",
                \* an admin who logs in with HTTP Basic

ASSUME VisitAssumption == Roles \subseteq {"public", "admin", "basic"}

VARIABLE visits

NoVisit == [step |-> "idle"]

(* "at" is the time that touch records, once it is read.  "since", when the *)
(* database answered the lookup, is there to state properties; no step     *)
(* depends on it.                                                          *)
Visiting == [step : {"check", "user", "record", "serve"}, id : Ids,
             role : Roles \cup {"unknown"}, row : Row, since : Nat, at : Time]

VisitTypeOK == visits \in [Visitors -> {NoVisit} \cup Visiting]

VisitInit == visits = [v \in Visitors |-> NoVisit]

-----------------------------------------------------------------------------
VisitMoves(v, step) == visits' = [visits EXCEPT ![v].step = step]

VisitDone(v) == visits' = [visits EXCEPT ![v] = NoVisit]

(* GetSwosh.  A missing link and a database error are answered at once. *)
VisitGet(v) ==
    /\ visits[v] = NoVisit
    /\ \E id \in Stored, role \in Roles :
        visits' = [visits EXCEPT ![v] =
            [step |-> "check", id |-> id, role |-> role, row |-> links[id],
             since |-> clock, at |-> Null]]
    /\ UNCHANGED tableVars

(* An expired link that is not deleted yet is not found either. *)
VisitCheck(v) ==
    /\ visits[v].step = "check"
    /\ IF Live(visits[v].row, clock) THEN VisitMoves(v, "user") ELSE VisitDone(v)
    /\ UNCHANGED tableVars

(* currentUser knows sessions only. *)
TakenForAdmin(role) == role = "admin"

(* What touch does with a visitor it takes for one of the public. *)
VisitCounts(v, role) ==
    visits' = [visits EXCEPT ![v].step = "record", ![v].role = role, ![v].at = clock]

(* A session whose user cannot be looked up is taken for the public. *)
VisitUser(v) ==
    /\ visits[v].step = "user"
    /\ \/ TakenForAdmin(visits[v].role) /\ VisitMoves(v, "serve")
       \/ ~TakenForAdmin(visits[v].role) /\ VisitCounts(v, visits[v].role)
       \/ visits[v].role = "admin" /\ "user" \in Faults /\ VisitCounts(v, "unknown")
    /\ UNCHANGED tableVars

(* TouchSwosh; its failure is only logged. *)
VisitRecord(v) ==
    /\ visits[v].step = "record"
    /\ \/ TouchSwosh(visits[v].id, visits[v].at)
       \/ "error" \in Faults /\ UNCHANGED tableVars
    /\ VisitMoves(v, "serve")

(* The page, the redirect or the QR code of the row read at first. *)
VisitServe(v) ==
    /\ visits[v].step = "serve"
    /\ VisitDone(v)
    /\ UNCHANGED tableVars

VisitStep(v) ==
    VisitGet(v) \/ VisitCheck(v) \/ VisitUser(v) \/ VisitRecord(v) \/ VisitServe(v)
=============================================================================
