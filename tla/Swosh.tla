-------------------------------- MODULE Swosh --------------------------------
(***************************************************************************)
(* The service: requests that create, visit, edit and delete links, and    *)
(* the expiry job, all working on the one table while time passes.         *)
(***************************************************************************)
EXTENDS CreateLink, VisitLink, AdminEdit, AdminDelete, ExpirySweep

vars == <<links, inserted, clock, creates, createSuccess, createFailed,
          visits, edits, deletes, sweep, expiredLinks>>

Init ==
    /\ TableInit
    /\ CreateInit
    /\ VisitInit
    /\ EditInit
    /\ DeleteInit
    /\ SweepInit

(* A step of one part leaves the others alone; time stands still for it. *)
CreateOnly == UNCHANGED <<clock, visits, edits, deletes, sweepVars>>
VisitOnly == UNCHANGED <<clock, createVars, edits, deletes, sweepVars>>
EditOnly == UNCHANGED <<clock, createVars, visits, deletes, sweepVars>>
DeleteOnly == UNCHANGED <<clock, createVars, visits, edits, sweepVars>>
SweepOnly == UNCHANGED <<clock, createVars, visits, edits, deletes>>

TimePasses ==
    /\ Tick
    /\ UNCHANGED <<tableVars, createVars, visits, edits, deletes, sweepVars>>

(* The process stops, whatever it is doing, and starts again.  What is in  *)
(* flight is lost; the counters are kept in memory and start from zero.    *)
Restart ==
    /\ "crash" \in Faults
    /\ creates' = [c \in Creators |-> NoCreate]
    /\ createSuccess' = 0
    /\ createFailed' = 0
    /\ visits' = [v \in Visitors |-> NoVisit]
    /\ edits' = [e \in Editors |-> NoEdit]
    /\ deletes' = [d \in Deleters |-> NoDelete]
    /\ sweep' = Starting
    /\ expiredLinks' = 0
    /\ UNCHANGED <<tableVars, clock>>

Next ==
    \/ \E c \in Creators : CreateStep(c) /\ CreateOnly
    \/ \E v \in Visitors : VisitStep(v) /\ VisitOnly
    \/ \E e \in Editors : EditStep(e) /\ EditOnly
    \/ \E d \in Deleters : DeleteStep(d) /\ DeleteOnly
    \/ SweepStep /\ SweepOnly
    \/ TimePasses
    \/ Restart

Spec == Init /\ [][Next]_vars

(* A create or an edit under way goes on: each of its database calls ends, *)
(* with the database's answer, or when the connection to it is lost, or    *)
(* when the client's is and the request is cancelled.  Nobody has to make  *)
(* a request.                                                              *)
Fairness ==
    /\ \A c \in Creators : WF_vars(CreateInsert(c) /\ CreateOnly)
    /\ \A e \in Editors : WF_vars(EditGoesOn(e) /\ EditOnly)
    /\ WF_vars(RunStart /\ SweepOnly)

(* What is assumed of the surroundings.  However often the process is      *)
(* started anew, it is not each time gone before Run's timer fires: that   *)
(* is never for one that lives no longer than initialDelay.  A database    *)
(* that is asked over and over to delete what has expired does so in the   *)
(* end, before the process is gone.                                        *)
Uptime ==
    /\ SF_vars(SweepStart /\ SweepOnly)
    /\ SF_vars(SweepStored /\ SweepOnly)

FairSpec == Spec /\ Fairness /\ Uptime

-----------------------------------------------------------------------------
\* Invariants.

(* Every variable has the shape its module gives it: in particular a step  *)
(* of a request finds what its earlier steps left for it.                  *)
TypeOK ==
    /\ TableTypeOK
    /\ CreateTypeOK
    /\ VisitTypeOK
    /\ EditTypeOK
    /\ DeleteTypeOK
    /\ SweepTypeOK

(* No link is in the table twice and none has a serial number that is      *)
(* still to be given out, however renames, inserts and deletions by id     *)
(* interleave (adminUpdate against insert, adminDelete and Sweep).         *)
OneRowPerLink ==
    /\ \A i \in Stored : links[i].serial <= inserted
    /\ \A i, j \in Stored : links[i].serial = links[j].serial => i = j

(* What is served was not expired when the request looked it up, whatever  *)
(* time passed before lookup, touch and the answer read it again.          *)
ServedWhileLive == \A v \in Visitors :
    visits[v].step \in {"user", "record", "serve"} =>
        visits[v].row.expires = Null \/ visits[v].row.expires > visits[v].since

(* create_success_total counts no request that did not store a link of its *)
(* own, however often insert had to try and whatever the database answered.*)
CountedWasCreated == createSuccess <= inserted - StartInserted

(* expired_links_total counts only links that have gone, and each at most  *)
(* once, whatever was deleted by hand, failed or was renamed meanwhile     *)
(* (Sweep).                                                                *)
CountedHaveGone == expiredLinks <= inserted - Cardinality(Stored)

-----------------------------------------------------------------------------
\* What a step may do.

(* A link that is gone stays gone: no edit, visit or insert that was under *)
(* way when it was deleted brings it back (UpdateSwosh updates, it does    *)
(* not insert).                                                            *)
NoResurrection == [][\A s \in 1..inserted : s \notin Serials => s \notin Serials']_vars

(* A link goes only because a deletion under way names the id it has, or   *)
(* because it has expired.  A rename onto a taken id, an insert with a     *)
(* taken id or a sweep never costs a link that lookup would still serve.   *)
LossJustified == [][\A i \in Stored :
    \/ links[i].serial \in Serials'
    \/ ~Live(links[i], clock)
    \/ \E d \in Deleters : deletes[d].step = "delete" /\ i \in deletes[d].ids]_vars

(* The time of the last access changes only when a visit is recorded that  *)
(* no admin made whose session could be looked up, and an edit that looked *)
(* the link up before such a visit does not undo it (touch, adminUpdate).  *)
AccessByPublicOnly == [][\A i \in Stored, j \in Stored' :
    links[i].serial = links'[j].serial /\ links[i].accessed # links'[j].accessed =>
        \E v \in Visitors :
            /\ visits[v].step = "record"
            /\ visits[v].role # "admin"
            /\ links'[j].accessed = visits[v].at]_vars

(* The form asks for an expiry other than the one its page showed. *)
AsksForExpiry(edit) == edit.form.expiresOn \notin {Missing, Shown(edit.row.expires)}

(* The expiry of a link changes only by an edit, to the one that its form  *)
(* asks for, or, if it asks for none, back to the one it looked up, as     *)
(* that was to the fraction of a second, and only because another edit     *)
(* has changed it since (params: "The form drops fractions of a second;    *)
(* keep them", adminUpdate: "A form without the field keeps the expiry").  *)
ExpiryKept == [][\A i \in Stored, j \in Stored' :
    links[i].serial = links'[j].serial /\ links[i].expires # links'[j].expires =>
        \E e \in Editors :
            /\ edits[e].step = "update" /\ edits[e].id = i /\ edits[e].form.newId = j
            /\ links'[j].expires =
                IF AsksForExpiry(edits[e]) THEN edits[e].form.expiresOn ELSE edits[e].row.expires]_vars

-----------------------------------------------------------------------------
\* The abstract specification.

LinkAt(i) == [serial |-> links[i].serial, id |-> i, expires |-> links[i].expires]

Life == INSTANCE LinkLife WITH
    Never <- Null,
    published <- inserted,
    held <- {LinkAt(i) : i \in Stored},
    asked <- UNION {deletes[d].ids : d \in {x \in Deleters : deletes[x].step = "delete"}},
    now <- clock

(* The table, read and written by requests that overlap, keeps every       *)
(* promise of LinkLife.                                                    *)
KeepsLinkLife == Life!LifeSpec

-----------------------------------------------------------------------------
\* What must happen.

LapsedLink(n) == \E i \in Stored : links[i].serial = n /\ Lapsed(links[i], clock)

(* A link whose expiry has passed does not stay: it is deleted by the job, *)
(* or an admin deletes it or gives it a later expiry.  Failed sweeps, and  *)
(* restarts that leave Run the time for a sweep now and then, only delay   *)
(* that (Run: retried on the next tick).                                   *)
LapsedLinksGo == \A n \in 1..MaxLinks : LapsedLink(n) ~> ~LapsedLink(n)

(* Every create and every edit under way is answered, or dies with the     *)
(* process: a create gives up when the ids it draws are taken again and    *)
(* again (insert), and an edit ends however the link changes or goes under *)
(* it (adminUpdate).                                                       *)
RequestsEnd ==
    /\ \A c \in Creators : creates[c] # NoCreate ~> creates[c] = NoCreate
    /\ \A e \in Editors : edits[e] # NoEdit ~> edits[e] = NoEdit
=============================================================================
