------------------------------ MODULE AdminPage ------------------------------
(***************************************************************************)
(* The list of links as an admin has it open: the filter, the check boxes  *)
(* and the delete dialog of internal/web/static/js/admin.js.               *)
(*                                                                         *)
(* The dialog works on one variable of the page, ids, which every opening  *)
(* sets.  A click on its Delete button sends a request for ids and waits;  *)
(* meanwhile the dialog can be cancelled and opened for other links.  When *)
(* the answer comes, the script goes on with ids as it is by then.         *)
(***************************************************************************)
EXTENDS Integers, FiniteSets

CONSTANTS
    Links,      \* the links that come up
    Matches,    \* the sets of links that filters match
    MaxSent     \* bound on the requests sent

ASSUME PageAssumption ==
    /\ IsFiniteSet(Links)
    /\ Matches \subseteq SUBSET Links
    /\ MaxSent \in Nat

VARIABLES
    listed,     \* the links in the list, as it was loaded
    shown,      \* the links that the filter does not hide
    checked,    \* the checked boxes, hidden or not
    count,      \* what the bar says is selected; it is hidden at 0
    open,       \* the dialog is open
    ids,        \* what it is to delete
    enabled,    \* its Delete button can be clicked
    error,      \* the links that its error names, or none
    sent,       \* the requests so far: the ids of each, and how it stands
    reported    \* the request whose failure the error reports, or 0

pageVars == <<listed, shown, checked, count>>
dialogVars == <<open, ids, enabled, error, reported>>
vars == <<listed, shown, checked, count, open, ids, enabled, error, sent, reported>>

(* "reported" is there to state properties; no step depends on it.         *)
Request == [ids : SUBSET Links, state : {"waiting", "failed", "over"}]

TypeOK ==
    /\ listed \subseteq Links
    /\ shown \subseteq listed
    /\ checked \subseteq listed
    /\ count \in 0..Cardinality(Links)
    /\ open \in BOOLEAN /\ enabled \in BOOLEAN
    /\ ids \subseteq Links
    /\ error \subseteq Links
    /\ \E n \in 0..MaxSent : sent \in [1..n -> Request]
    /\ reported \in Nat

Sent == DOMAIN sent

Waiting == {n \in Sent : sent[n].state = "waiting"}

(* The list as it is on the server by now. *)
Loaded ==
    /\ listed' \in SUBSET Links
    /\ shown' = listed'
    /\ checked' = {}
    /\ count' = 0
    /\ open' = FALSE
    /\ ids' = {}
    /\ enabled' = TRUE
    /\ error' = {}
    /\ reported' = 0

(* The browser may bring checks back. *)
Init ==
    /\ listed = Links
    /\ shown = Links
    /\ checked \in {{}, Links}
    /\ count = Cardinality(checked)
    /\ open = FALSE
    /\ ids = {}
    /\ enabled = TRUE
    /\ error = {}
    /\ sent = << >>
    /\ reported = 0

-----------------------------------------------------------------------------
\* The list.  An open dialog is modal: nothing else can be reached.

(* Wrong: links that the filter hides are selected too. *)
AllChecked(boxes, visible) == boxes

Selected(boxes, visible) == boxes \cap visible

(* The bar is brought up to date after every change. *)
Update(boxes, visible) ==
    /\ shown' = visible /\ UNCHANGED listed
    /\ checked' = boxes
    /\ count' = Cardinality(Selected(boxes, visible))

ListOnly == UNCHANGED <<dialogVars, sent>>

(* Wrong: the bar is not brought up to date. *)
FilterOnly ==
    /\ ~open
    /\ \E match \in Matches : shown' = match \cap listed
    /\ UNCHANGED <<listed, checked, count>>
    /\ ListOnly

Filter == ~open /\ (\E match \in Matches : Update(checked, match \cap listed)) /\ ListOnly

Check(link) ==
    /\ ~open /\ link \in shown
    /\ Update(IF link \in checked THEN checked \ {link} ELSE checked \cup {link}, shown)
    /\ ListOnly

SelectAll == ~open /\ count > 0 /\ Update(checked \cup shown, shown) /\ ListOnly

Clear == ~open /\ count > 0 /\ Update({}, shown) /\ ListOnly

-----------------------------------------------------------------------------
\* The dialog.

OpenFor(links) ==
    /\ ids' = links
    /\ open' = TRUE
    /\ enabled' = TRUE
    /\ error' = {}
    /\ reported' = 0
    /\ UNCHANGED <<pageVars, sent>>

DeleteOne(link) == ~open /\ link \in shown /\ OpenFor({link})

DeleteSelected == ~open /\ count > 0 /\ OpenFor(Selected(checked, shown))

(* Cancel, or the Escape key. *)
Close == open /\ open' = FALSE /\ UNCHANGED <<pageVars, ids, enabled, error, sent, reported>>

Confirm ==
    /\ open /\ enabled
    /\ Cardinality(Sent) < MaxSent
    /\ sent' = [n \in 1..Cardinality(Sent) + 1 |->
            IF n \in Sent THEN sent[n] ELSE [ids |-> ids, state |-> "waiting"]]
    /\ enabled' = FALSE
    /\ UNCHANGED <<pageVars, open, ids, error, reported>>

(* Success loads the list anew, and with that nobody waits for the others. *)
Deleted(n) ==
    /\ n \in Waiting
    /\ sent' = [k \in Sent |-> IF k \in Waiting THEN [sent[k] EXCEPT !.state = "over"] ELSE sent[k]]
    /\ Loaded

(* A refusal, an error or no answer at all; the dialog says so, for ids.   *)
Failed(n) ==
    /\ n \in Waiting
    /\ sent' = [sent EXCEPT ![n].state = "failed"]
    /\ error' = ids
    /\ enabled' = TRUE
    /\ reported' = n
    /\ UNCHANGED <<pageVars, open, ids>>

Next ==
    \/ Filter
    \/ \E link \in Links : Check(link) \/ DeleteOne(link)
    \/ SelectAll \/ Clear
    \/ DeleteSelected \/ Close \/ Confirm
    \/ \E n \in 1..MaxSent : Deleted(n) \/ Failed(n)

Spec == Init /\ [][Next]_vars

-----------------------------------------------------------------------------
\* Properties.

(* A click on Delete never sends a link that the filter hides, however     *)
(* boxes were checked before: "Links hidden by the filter can't be seen,   *)
(* so they are never deleted" (setUpBulk, setUpDelete).                    *)
NeverDeletesHidden == [][\A n \in DOMAIN sent' :
    n \notin Sent => sent'[n].ids \subseteq shown]_vars

(* A request names links: the dialog cannot be opened for a selection that *)
(* a filter has emptied, which the server would refuse (update, open).     *)
RequestsNameLinks == \A n \in Sent : sent[n].ids # {}

(* "Could not delete ...": the links that the error names are those of the *)
(* request that failed (setUpDelete).                                      *)
ErrorNamesWhatFailed == reported # 0 => error = sent[reported].ids
=============================================================================
