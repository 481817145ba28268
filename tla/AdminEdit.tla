------------------------------ MODULE AdminEdit ------------------------------
(***************************************************************************)
(* POST /admin/{id}: adminUpdate and params of internal/web/admin.go, for  *)
(* a user the admin middleware let through.                                *)
(*                                                                         *)
(* The link is looked up, the form is checked against the row found and    *)
(* the clock, and the row is then updated by id with all the form says.    *)
(* The form comes from a page shown some time before, by this admin or     *)
(* another, so it can say anything.                                        *)
(***************************************************************************)
EXTENDS LinkTable

CONSTANTS
    Editors,        \* the edits that can be in flight at once
    Forms,          \* the forms that are submitted
    AdminIds,       \* the ids that validID and reservedIDs let an admin choose
    ValidContents,  \* a payee that is not blank and an amount of 0 or more
    Missing,        \* the form has no field expiresOn
    Malformed       \* the field expiresOn is not a time

(* A text field that is left out or blank is Null, an id or an expiry. *)
Form == [originalId : Ids \cup {Null}, newId : Ids \cup {Null}, content : Contents,
         expiresOn : Time \cup {Missing, Malformed}]

ASSUME EditAssumption ==
    /\ Forms \subseteq Form
    /\ AdminIds \subseteq Ids
    /\ Null \notin Ids
    /\ ValidContents \subseteq Contents
    /\ Missing \notin Time
    /\ Malformed \notin Time

VARIABLE edits

NoEdit == [step |-> "idle"]

(* The row as it was looked up, and the form. *)
Checking == [step : {"params"}, id : Ids, row : Row, form : Forms]

(* A form whose id and content params has let through. *)
Accepted == {form \in Forms : form.newId \in AdminIds /\ form.content \in ValidContents}

(* The arguments of UpdateSwosh, and the row they were made from. *)
Updating == [step : {"update"}, id : Ids, row : Row, form : Accepted, expires : Time]

EditTypeOK == edits \in [Editors -> {NoEdit} \cup Checking \cup Updating]

EditInit == edits = [e \in Editors |-> NoEdit]

-----------------------------------------------------------------------------
\* params.

(* adminLinkOf shows an expiry in whole seconds. *)
Shown(expires) == IF expires = Null THEN Null ELSE WholeSeconds(expires)

(* An older page has no expiresOn: the expiry just looked up stands in. *)
FormExpiry(form, row) ==
    IF form.expiresOn = Missing THEN Shown(row.expires) ELSE form.expiresOn

(* A form that repeats what was shown keeps the fraction of a second. *)
ExpiryUnchanged(form, row) == FormExpiry(form, row) = Shown(row.expires)

ExpiryAllowed(form, row, now) ==
    \/ ExpiryUnchanged(form, row)
    \/ FormExpiry(form, row) = Null
    \/ FormExpiry(form, row) \in Nat /\ FormExpiry(form, row) > now

(* Wrong: the time the page showed is stored, in whole seconds. *)
ShownToStore(form, row) == FormExpiry(form, row)

ExpiryToStore(form, row) ==
    IF ExpiryUnchanged(form, row) THEN row.expires ELSE FormExpiry(form, row)

ParamsValid(form, row, now) ==
    /\ form.newId \in AdminIds
    /\ form.content \in ValidContents
    /\ ExpiryAllowed(form, row, now)

-----------------------------------------------------------------------------
EditDone(e) == edits' = [edits EXCEPT ![e] = NoEdit]

(* adminLookup.  A missing link, a database error and a form for another   *)
(* link are answered at once.                                              *)
EditLookup(e) ==
    /\ edits[e] = NoEdit
    /\ \E id \in Stored, form \in Forms :
        /\ form.originalId \in {Null, id}
        /\ edits' = [edits EXCEPT ![e] =
                [step |-> "params", id |-> id, row |-> links[id], form |-> form]]
    /\ UNCHANGED tableVars

EditParams(e) ==
    /\ edits[e].step = "params"
    /\ LET form == edits[e].form
           row == edits[e].row
       IN IF ParamsValid(form, row, clock)
          THEN edits' = [edits EXCEPT ![e] =
                [step |-> "update", id |-> edits[e].id, row |-> row, form |-> form,
                 expires |-> ExpiryToStore(form, row)]]
          ELSE EditDone(e)
    /\ UNCHANGED tableVars

(* Wrong: the row looked up is saved, whatever has become of the link. *)
SavesLookedUp(e) ==
    LET edit == edits[e]
        saved == UpdatedRow(edit.row, edit.form.content, edit.expires)
    IN /\ edit.form.newId = edit.id \/ edit.form.newId \notin Stored
       /\ links' = [i \in Ids |->
            CASE i = edit.form.newId -> saved
              [] i = edit.id /\ i # edit.form.newId -> NoRow
              [] OTHER -> links[i]]
       /\ UNCHANGED inserted

UpdatesLink(e) ==
    UpdateSwosh(edits[e].id, edits[e].form.newId, edits[e].form.content, edits[e].expires)

EditStored(e) ==
    /\ edits[e].step = "update"
    /\ UpdatesLink(e)
    /\ EditDone(e)

(* 409: the new id is taken.  404: the link has gone since the lookup.     *)
(* 500: any other error, which may hide an update that was made.           *)
EditRefused(e) ==
    /\ edits[e].step = "update"
    /\ \/ UpdateConflicts(edits[e].id, edits[e].form.newId) /\ UNCHANGED tableVars
       \/ edits[e].id \notin Stored /\ UNCHANGED tableVars
       \/ "error" \in Faults /\ UNCHANGED tableVars
       \/ "lost" \in Faults /\ UpdatesLink(e)
    /\ EditDone(e)

EditGoesOn(e) == EditParams(e) \/ EditStored(e) \/ EditRefused(e)

EditStep(e) == EditLookup(e) \/ EditGoesOn(e)
=============================================================================
