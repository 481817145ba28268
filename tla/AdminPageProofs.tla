--------------------------- MODULE AdminPageProofs ---------------------------
(***************************************************************************)
(* For any list of links, filters and number of requests: the admin page   *)
(* deletes only what can be seen, and never asks for nothing.              *)
(***************************************************************************)
EXTENDS AdminPage, FiniteSetTheorems, TLAPS

(* The bar says how many are selected. *)
BarIsRight == count = Cardinality(Selected(checked, shown))

(* An open dialog is about links that can be seen. *)
DialogIsSeen == open => ids # {} /\ ids \subseteq shown

IInv == TypeOK /\ BarIsRight /\ DialogIsSeen /\ RequestsNameLinks

LEMMA LinksAreFew ==
    ASSUME NEW links \in SUBSET Links
    PROVE  /\ Cardinality(links) \in 0..Cardinality(Links)
           /\ Cardinality(links) = 0 <=> links = {}
BY PageAssumption, FS_Subset, FS_CardinalityType, FS_EmptySet

(* There are as many requests as the last has for a number. *)
LEMMA SentByNumber ==
    ASSUME TypeOK
    PROVE  /\ Cardinality(Sent) \in 0..MaxSent
           /\ Sent = 1..Cardinality(Sent)
           /\ sent \in [1..Cardinality(Sent) -> Request]
<1>1. PICK n \in 0..MaxSent : sent \in [1..n -> Request]
    BY DEF TypeOK
<1>2. Sent = 1..n
    BY <1>1 DEF Sent
<1>3. Cardinality(1..n) = n
    BY <1>1, FS_Interval
<1> QED BY <1>1, <1>2, <1>3

LEMMA InitInv == Init => IInv
<1> SUFFICES ASSUME Init PROVE IInv
    OBVIOUS
<1>1. Selected(checked, shown) = checked /\ checked \subseteq Links
    BY DEF Init, Selected
<1>2. count \in 0..Cardinality(Links)
    BY <1>1, LinksAreFew DEF Init
<1>3. sent \in [1..0 -> Request] /\ 0 \in 0..MaxSent
    BY PageAssumption DEF Init
<1>4. TypeOK
    BY <1>2, <1>3 DEF Init, TypeOK
<1>5. RequestsNameLinks
    BY DEF Init, RequestsNameLinks, Sent
<1> QED BY <1>1, <1>4, <1>5 DEF Init, IInv, BarIsRight, DialogIsSeen

(* Whatever is checked and shown, the bar follows. *)
LEMMA UpdateInv ==
    ASSUME IInv, ~open, NEW boxes \in SUBSET listed, NEW visible \in SUBSET listed,
           Update(boxes, visible), ListOnly
    PROVE  IInv'
<1>1. /\ checked' = boxes /\ shown' = visible /\ listed' = listed
      /\ count' = Cardinality(Selected(boxes, visible))
    BY DEF Update
<1>2. count' \in 0..Cardinality(Links)
    BY <1>1, LinksAreFew DEF IInv, TypeOK, Selected
<1>3. UNCHANGED <<open, ids, enabled, error, reported, sent>>
    BY DEF ListOnly, dialogVars
<1>4. TypeOK'
    BY <1>1, <1>2, <1>3 DEF IInv, TypeOK
<1> QED BY <1>1, <1>3, <1>4 DEF IInv, BarIsRight, DialogIsSeen, RequestsNameLinks, Sent

LEMMA OpenInv ==
    ASSUME IInv, NEW links \in SUBSET shown, links # {}, OpenFor(links)
    PROVE  IInv'
<1>1. /\ ids' = links /\ open' = TRUE /\ enabled' = TRUE /\ error' = {} /\ reported' = 0
      /\ UNCHANGED <<listed, shown, checked, count, sent>>
    BY DEF OpenFor, pageVars
<1>2. TypeOK'
    BY <1>1 DEF IInv, TypeOK
<1> QED BY <1>1, <1>2 DEF IInv, BarIsRight, DialogIsSeen, RequestsNameLinks, Sent

LEMMA ConfirmInv ==
    ASSUME IInv, Confirm
    PROVE  /\ IInv'
           /\ \A n \in DOMAIN sent' : n \notin Sent => sent'[n].ids \subseteq shown
<1> DEFINE last == Cardinality(Sent) + 1
           new == [ids |-> ids, state |-> "waiting"]
<1>1. /\ last \in 1..MaxSent /\ Sent = 1..(last - 1)
      /\ sent \in [1..(last - 1) -> Request]
    BY SentByNumber, PageAssumption DEF IInv, Confirm
<1>2. /\ sent' = [n \in 1..last |-> IF n \in Sent THEN sent[n] ELSE new]
      /\ enabled' = FALSE
      /\ UNCHANGED <<listed, shown, checked, count, open, ids, error, reported>>
    BY DEF Confirm, pageVars
<1>3. new \in Request /\ new.ids # {} /\ new.ids \subseteq shown
    BY DEF IInv, TypeOK, Confirm, DialogIsSeen, Request
<1> HIDE DEF last, new
<1>4. sent' \in [1..last -> Request] /\ DOMAIN sent' = 1..last
    <2>1. \A n \in 1..last : (IF n \in Sent THEN sent[n] ELSE new) \in Request
        BY <1>1, <1>3
    <2> QED BY <1>2, <2>1
<1>5. TypeOK'
    <2>1. last \in 0..MaxSent
        BY <1>1, PageAssumption
    <2> QED BY <1>2, <1>4, <2>1 DEF IInv, TypeOK
<1>6. \A n \in DOMAIN sent' : sent'[n] = IF n \in Sent THEN sent[n] ELSE new
    BY <1>2
<1>7. RequestsNameLinks'
    BY <1>3, <1>6 DEF IInv, RequestsNameLinks, Sent
<1> QED BY <1>2, <1>3, <1>5, <1>6, <1>7 DEF IInv, BarIsRight, DialogIsSeen

(* An answer leaves the numbers and the links of the requests alone. *)
LEMMA AnswerInv ==
    ASSUME IInv, NEW n, n \in Waiting, Deleted(n) \/ Failed(n)
    PROVE  IInv' /\ DOMAIN sent' = Sent
<1>1. PICK last \in 0..MaxSent : sent \in [1..last -> Request] /\ Sent = 1..last
    BY DEF IInv, TypeOK, Sent
<1>2. ASSUME NEW k \in Sent, NEW state \in {"failed", "over"}
      PROVE  /\ [sent[k] EXCEPT !.state = state] \in Request
             /\ [sent[k] EXCEPT !.state = state].ids = sent[k].ids
    BY <1>1, <1>2 DEF Request
<1>3. CASE Failed(n)
    <2>1. /\ sent' = [sent EXCEPT ![n].state = "failed"]
          /\ error' = ids /\ enabled' = TRUE /\ reported' = n
          /\ UNCHANGED <<listed, shown, checked, count, open, ids>>
        BY <1>3 DEF Failed, pageVars
    <2>2. n \in Sent /\ n \in Nat
        BY <1>1 DEF Waiting
    <2>3. /\ sent' \in [1..last -> Request] /\ DOMAIN sent' = Sent
          /\ \A k \in Sent : sent'[k].ids = sent[k].ids
        BY <1>1, <1>2, <2>1, <2>2
    <2>4. TypeOK'
        BY <2>1, <2>2, <2>3 DEF IInv, TypeOK
    <2> QED BY <2>1, <2>3, <2>4 DEF IInv, BarIsRight, DialogIsSeen, RequestsNameLinks, Sent
<1>4. CASE Deleted(n)
    <2>1. sent' = [k \in Sent |->
            IF k \in Waiting THEN [sent[k] EXCEPT !.state = "over"] ELSE sent[k]]
        BY <1>4 DEF Deleted
    <2>2. /\ sent' \in [1..last -> Request] /\ DOMAIN sent' = Sent
          /\ \A k \in Sent : sent'[k].ids = sent[k].ids
        BY <1>1, <1>2, <2>1
    <2>3. /\ listed' \in SUBSET Links /\ shown' = listed' /\ checked' = {} /\ count' = 0
          /\ open' = FALSE /\ ids' = {} /\ enabled' = TRUE /\ error' = {} /\ reported' = 0
        BY <1>4 DEF Deleted, Loaded
    <2>4. Cardinality({}) = 0 /\ 0 \in 0..Cardinality(Links)
        BY FS_EmptySet, LinksAreFew
    <2>5. TypeOK'
        BY <2>2, <2>3, <2>4 DEF TypeOK
    <2>6. BarIsRight'
        BY <2>3, <2>4 DEF BarIsRight, Selected
    <2> QED BY <2>2, <2>3, <2>5, <2>6 DEF IInv, DialogIsSeen, RequestsNameLinks, Sent
<1> QED BY <1>3, <1>4

LEMMA StepInv ==
    ASSUME IInv, [Next]_vars
    PROVE  /\ IInv'
           /\ \A n \in DOMAIN sent' : n \notin Sent => sent'[n].ids \subseteq shown
<1> USE DEF Sent
<1>1. CASE Filter
    <2>1. PICK match \in Matches : Update(checked, match \cap listed)
        BY <1>1 DEF Filter
    <2>2. IInv'
        BY <1>1, <2>1, UpdateInv DEF Filter, IInv, TypeOK
    <2> QED BY <1>1, <2>2 DEF Filter, ListOnly
<1>2. ASSUME NEW link \in Links, Check(link)
      PROVE  IInv' /\ UNCHANGED sent
    <2> DEFINE boxes == IF link \in checked THEN checked \ {link} ELSE checked \cup {link}
    <2>1. boxes \in SUBSET listed /\ shown \in SUBSET listed
        BY <1>2 DEF Check, IInv, TypeOK
    <2>2. ~open /\ Update(boxes, shown) /\ ListOnly
        BY <1>2 DEF Check
    <2> HIDE DEF boxes
    <2>3. IInv'
        BY <2>1, <2>2, UpdateInv
    <2> QED BY <2>2, <2>3 DEF ListOnly
<1>3. CASE SelectAll
    <2>1. IInv'
        BY <1>3, UpdateInv DEF SelectAll, IInv, TypeOK
    <2> QED BY <1>3, <2>1 DEF SelectAll, ListOnly
<1>4. CASE Clear
    <2>1. IInv'
        BY <1>4, UpdateInv DEF Clear, IInv, TypeOK
    <2> QED BY <1>4, <2>1 DEF Clear, ListOnly
<1>5. ASSUME NEW link \in Links, DeleteOne(link)
      PROVE  IInv' /\ UNCHANGED sent
    BY <1>5, OpenInv DEF DeleteOne, OpenFor
<1>6. CASE DeleteSelected
    <2>1. Selected(checked, shown) # {}
        BY <1>6, FS_EmptySet DEF DeleteSelected, IInv, BarIsRight
    <2>2. IInv'
        BY <1>6, <2>1, OpenInv DEF DeleteSelected, Selected
    <2> QED BY <1>6, <2>2 DEF DeleteSelected, OpenFor
<1>7. CASE Close
    <2>1. open' = FALSE /\ UNCHANGED <<listed, shown, checked, count, ids, enabled, error, sent, reported>>
        BY <1>7 DEF Close, pageVars
    <2>2. TypeOK'
        BY <2>1 DEF IInv, TypeOK
    <2> QED BY <2>1, <2>2 DEF IInv, BarIsRight, DialogIsSeen, RequestsNameLinks
<1>8. CASE Confirm
    BY <1>8, ConfirmInv
<1>9. ASSUME NEW n, Deleted(n) \/ Failed(n)
      PROVE  IInv' /\ DOMAIN sent' = Sent
    BY <1>9, AnswerInv DEF Deleted, Failed
<1>10. CASE UNCHANGED vars
    BY <1>10 DEF vars, IInv, TypeOK, BarIsRight, DialogIsSeen, RequestsNameLinks
<1> QED BY <1>1, <1>2, <1>3, <1>4, <1>5, <1>6, <1>7, <1>8, <1>9, <1>10 DEF Next

(* The bar and the dialog stay true to the list, whatever is checked,       *)
(* filtered, opened and answered (update, open).                            *)
THEOREM Invariant == Spec => []IInv
BY InitInv, StepInv, PTL DEF Spec

(* Every variable keeps its shape (AdminPage). *)
THEOREM TypeCorrect == Spec => []TypeOK
<1>1. IInv => TypeOK
    BY DEF IInv
<1> QED BY <1>1, Invariant, PTL

(* No request is empty, however the selection was filtered before the       *)
(* dialog was opened (update, open).                                        *)
THEOREM NoEmptyRequests == Spec => []RequestsNameLinks
<1>1. IInv => RequestsNameLinks
    BY DEF IInv
<1> QED BY <1>1, Invariant, PTL

(* What is sent can be seen: an open dialog is modal, and opens only for    *)
(* what the filter leaves (setUpBulk, setUpDelete).                         *)
THEOREM HiddenIsSafe == Spec => NeverDeletesHidden
<1>1. IInv /\ [Next]_vars =>
        [\A n \in DOMAIN sent' : n \notin Sent => sent'[n].ids \subseteq shown]_vars
    BY StepInv
<1> QED BY <1>1, Invariant, PTL DEF Spec, NeverDeletesHidden
=============================================================================
