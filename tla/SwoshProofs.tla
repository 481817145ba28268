----------------------------- MODULE SwoshProofs -----------------------------
(***************************************************************************)
(* Proofs about the service, for every number of requests, every set of    *)
(* ids and every choice of failures.                                       *)
(***************************************************************************)
EXTENDS Swosh, FiniteSetTheorems, TLAPS

-----------------------------------------------------------------------------
\* The statements keep the table's type.

(* An insert adds a row with the values given, and counts it. *)
LEMMA CreateSwoshType ==
    ASSUME TableTypeOK, NEW id \in Ids, NEW content \in Contents,
           NEW editable \in SUBSET Fields, NEW expires \in Time,
           CreateSwosh(id, content, editable, expires)
    PROVE  links' \in Table /\ inserted' \in Nat
<1> DEFINE row == [content |-> content, editable |-> editable, expires |-> expires,
                   serial |-> inserted + 1, accessed |-> Null]
<1>1. inserted \in Nat /\ links \in Table
  BY DEF TableTypeOK
<1>2. row \in Row
  BY <1>1 DEF Row, Time
<1>3. links' = [links EXCEPT ![id] = row] /\ inserted' = inserted + 1
  BY DEF CreateSwosh
<1> QED
  BY <1>1, <1>2, <1>3 DEF Table

(* A deletion leaves rows as they are or takes them away. *)
LEMMA DeleteIdsType ==
    ASSUME TableTypeOK, NEW ids, DeleteIds(ids)
    PROVE  links' \in Table /\ inserted' \in Nat
BY DEF TableTypeOK, Table, DeleteIds

(* Recording a visit changes a time in a row there is. *)
LEMMA TouchSwoshType ==
    ASSUME TableTypeOK, NEW id \in Ids, NEW now \in Time, TouchSwosh(id, now)
    PROVE  links' \in Table /\ inserted' \in Nat
<1>1. links \in Table /\ inserted \in Nat
  BY DEF TableTypeOK
<1>2. CASE id \notin Stored
  BY <1>1, <1>2 DEF TouchSwosh
<1>3. CASE id \in Stored
  <2>1. links[id] \in Row
    BY <1>1, <1>3 DEF Stored, StoredIn, Table
  <2>2. [links[id] EXCEPT !.accessed = now] \in Row
    BY <2>1 DEF Row, Time
  <2>3. links' = [links EXCEPT ![id] = [links[id] EXCEPT !.accessed = now]]
    BY <1>3 DEF TouchSwosh
  <2> QED
    BY <1>1, <2>2, <2>3 DEF Table, TouchSwosh
<1> QED
  BY <1>2, <1>3

(* An update moves a row there is, with the values given. *)
LEMMA UpdateSwoshType ==
    ASSUME TableTypeOK, NEW id \in Ids, NEW newId \in Ids, NEW content \in Contents,
           NEW expires \in Time, UpdateSwosh(id, newId, content, expires)
    PROVE  links' \in Table /\ inserted' \in Nat
<1> DEFINE row == UpdatedRow(links[id], content, expires)
<1>1. links \in Table /\ inserted \in Nat
  BY DEF TableTypeOK
<1>2. links[id] \in Row
  BY <1>1 DEF UpdateSwosh, Stored, StoredIn, Table
<1>3. row \in Row
  BY <1>2 DEF Row, UpdatedRow
<1>4. links' = [i \in Ids |-> CASE i = newId -> row
                               [] i = id /\ i # newId -> NoRow
                               [] OTHER -> links[i]]
  BY DEF UpdateSwosh
<1>5. ASSUME NEW i \in Ids PROVE links'[i] \in Row \cup {NoRow}
  BY <1>1, <1>3, <1>4 DEF Table
<1> QED
  BY <1>1, <1>4, <1>5 DEF Table, UpdateSwosh

-----------------------------------------------------------------------------
\* The parts keep theirs.

(* What validate lets through can be stored: above all its expiry is a time *)
(* (expiresOn refuses what is negative).                                   *)
LEMMA ValidIsStorable ==
    ASSUME NEW now \in 0..MaxTime, NEW req \in Requests, Valid(req, now)
    PROVE  newSwosh(req, now) \in NewLink
<1>1. now \in Nat /\ Second \in Nat /\ MaxExpiry \in Nat
  BY BoundsAssumption, ColumnsAssumption, LimitsAssumption
<1>2. ContentOf(req) \in Contents
  BY CreateAssumption DEF Valid
<1>3. EditableIn(req) \in SUBSET Fields
  BY DEF EditableIn
<1>4. ~BadExpiry(req)
  BY DEF Valid, Problem
<1>5. expiresOn(req, now) \in Time
  <2>1. CASE AskedForever(req)
    BY <2>1 DEF expiresOn, Time
  <2>2. CASE ~AskedForever(req)
    <3>1. ExpireAfter(req) \in Nat
      BY <1>1, <1>4, <2>2 DEF BadExpiry
    <3>2. Second * ExpireAfter(req) \in Nat
      BY <1>1, <3>1
    <3> QED
      BY <1>1, <2>2, <3>2 DEF expiresOn, Time
  <2> QED
    BY <2>1, <2>2
<1> QED
  BY <1>2, <1>3, <1>5 DEF newSwosh, NewLink

LEMMA CreateType ==
    ASSUME TableTypeOK, CreateTypeOK, NEW c \in Creators, CreateStep(c), CreateOnly
    PROVE  TableTypeOK' /\ CreateTypeOK'
<1> USE DEF CreateTypeOK
<1>1. clock' \in 0..MaxTime
  BY DEF CreateOnly, TableTypeOK
<1>2. CreateAttempts \in Nat
  BY CreateAssumption
<1>3. CASE CreateReject(c)
  BY <1>1, <1>3 DEF CreateReject, TableTypeOK, tableVars
<1>4. CASE CreateAccept(c)
  <2>1. PICK req \in Requests :
          /\ Valid(req, clock)
          /\ creates' = [creates EXCEPT ![c] =
                [step |-> "insert", link |-> newSwosh(req, clock), attempt |-> 1]]
    BY <1>4 DEF CreateAccept
  <2>2. newSwosh(req, clock) \in NewLink
    BY <2>1, ValidIsStorable DEF TableTypeOK
  <2>3. [step |-> "insert", link |-> newSwosh(req, clock), attempt |-> 1] \in Inserting
    BY <2>2, CreateAssumption DEF Inserting
  <2> QED
    BY <1>1, <1>4, <2>1, <2>3 DEF CreateAccept, TableTypeOK, tableVars
<1>5. CASE CreateInsert(c)
  <2>1. PICK id \in RandomIds : CreateStored(c, id) \/ CreateTaken(c, id) \/ CreateError(c, id)
    BY <1>5 DEF CreateInsert
  <2>2. id \in Ids
    BY CreateAssumption
  <2>3. creates[c] \in Inserting
    BY <2>1 DEF CreateStored, CreateTaken, CreateError, NoCreate
  <2>4. ASSUME StoresNewLink(c, id) PROVE links' \in Table /\ inserted' \in Nat
    <3>1. /\ creates[c].link.content \in Contents
          /\ creates[c].link.editable \in SUBSET Fields
          /\ creates[c].link.expires \in Time
      BY <2>3 DEF Inserting, NewLink
    <3> QED
      BY <2>2, <2>4, <3>1, CreateSwoshType DEF StoresNewLink
  <2>5. CASE CreateStored(c, id)
    BY <1>1, <2>4, <2>5 DEF CreateStored, CreateDone, TableTypeOK
  <2>6. CASE CreateTaken(c, id)
    <3>1. CASE creates[c].attempt < CreateAttempts
      <4>1. [creates[c] EXCEPT !.attempt = @ + 1] \in Inserting
        BY <1>2, <2>3, <3>1 DEF Inserting
      <4>2. creates' = [creates EXCEPT ![c] = [creates[c] EXCEPT !.attempt = @ + 1]]
        BY <2>6, <3>1 DEF CreateTaken
      <4> QED
        BY <1>1, <2>6, <3>1, <4>1, <4>2 DEF CreateTaken, TableTypeOK, tableVars
    <3>2. CASE ~(creates[c].attempt < CreateAttempts)
      BY <1>1, <2>6, <3>2 DEF CreateTaken, CreateDone, TableTypeOK, tableVars
    <3> QED
      BY <3>1, <3>2
  <2>7. CASE CreateError(c, id)
    BY <1>1, <2>4, <2>7 DEF CreateError, CreateDone, TableTypeOK, tableVars
  <2> QED
    BY <2>1, <2>5, <2>6, <2>7
<1> QED
  BY <1>3, <1>4, <1>5 DEF CreateStep

LEMMA VisitType ==
    ASSUME TableTypeOK, VisitTypeOK, NEW v \in Visitors, VisitStep(v), VisitOnly
    PROVE  TableTypeOK' /\ VisitTypeOK'
<1> USE DEF VisitTypeOK
<1>1. clock' \in 0..MaxTime /\ clock \in Nat
  BY BoundsAssumption DEF VisitOnly, TableTypeOK
<1>2. UNCHANGED tableVars => TableTypeOK'
  BY <1>1 DEF TableTypeOK, tableVars
<1>3. CASE VisitGet(v)
  <2>1. PICK id \in Stored, role \in Roles :
          visits' = [visits EXCEPT ![v] =
            [step |-> "check", id |-> id, role |-> role, row |-> links[id],
             since |-> clock, at |-> Null]]
    BY <1>3 DEF VisitGet
  <2>2. id \in Ids /\ links[id] \in Row
    BY DEF Stored, StoredIn, TableTypeOK, Table
  <2> QED
    BY <1>1, <1>2, <1>3, <2>1, <2>2 DEF VisitGet, Visiting, Time
<1>4. ASSUME visits[v].step \in {"check", "user", "record", "serve"}
      PROVE  visits[v] \in Visiting
  BY <1>4 DEF NoVisit
<1>5. ASSUME visits[v] \in Visiting,
             NEW step \in {"check", "user", "record", "serve"}, VisitMoves(v, step)
      PROVE  VisitTypeOK'
  <2>1. [visits[v] EXCEPT !.step = step] \in Visiting
    BY <1>5 DEF Visiting
  <2>2. visits' = [visits EXCEPT ![v] = [visits[v] EXCEPT !.step = step]]
    BY <1>5 DEF VisitMoves
  <2> QED
    BY <2>1, <2>2
<1>6. VisitDone(v) => VisitTypeOK'
  BY DEF VisitDone
<1>7. CASE VisitCheck(v)
  BY <1>2, <1>4, <1>5, <1>6, <1>7 DEF VisitCheck
<1>8. CASE VisitUser(v)
  <2>1. visits[v] \in Visiting /\ UNCHANGED tableVars
    BY <1>4, <1>8 DEF VisitUser
  <2>2. CASE VisitMoves(v, "serve")
    BY <1>2, <1>5, <2>1, <2>2
  <2>3. ASSUME NEW role \in Roles \cup {"unknown"}, VisitCounts(v, role)
        PROVE  TableTypeOK' /\ VisitTypeOK'
    <3> DEFINE counted == [visits[v] EXCEPT !.step = "record", !.role = role, !.at = clock]
    <3>1. counted \in Visiting
      BY <1>1, <2>1 DEF Visiting, Time
    <3>2. visits' = [visits EXCEPT ![v] = counted]
      BY <2>3 DEF VisitCounts
    <3> QED
      BY <1>2, <2>1, <3>1, <3>2
  <2>4. visits[v].role \in Roles \cup {"unknown"}
    BY <2>1 DEF Visiting
  <2> QED
    BY <1>8, <2>2, <2>3, <2>4 DEF VisitUser
<1>9. CASE VisitRecord(v)
  <2>1. visits[v] \in Visiting /\ VisitMoves(v, "serve")
    BY <1>4, <1>9 DEF VisitRecord
  <2>2. VisitTypeOK'
    BY <1>5, <2>1
  <2>3. visits[v].id \in Ids /\ visits[v].at \in Time
    BY <2>1 DEF Visiting
  <2>4. CASE TouchSwosh(visits[v].id, visits[v].at)
    <3>1. links' \in Table /\ inserted' \in Nat
      BY <2>3, <2>4, TouchSwoshType
    <3> QED
      BY <1>1, <2>2, <3>1 DEF TableTypeOK
  <2>5. CASE UNCHANGED tableVars
    BY <1>2, <2>2, <2>5
  <2> QED
    BY <1>9, <2>4, <2>5 DEF VisitRecord
<1>10. CASE VisitServe(v)
  BY <1>2, <1>6, <1>10 DEF VisitServe
<1> QED
  BY <1>3, <1>7, <1>8, <1>9, <1>10 DEF VisitStep

(* What params stores is a time: the one looked up, none, or one that is   *)
(* later than the clock.                                                   *)
LEMMA ParamsStorable ==
    ASSUME NEW form \in Forms, NEW row \in Row, NEW now \in Nat, ParamsValid(form, row, now)
    PROVE  form.newId \in Ids /\ form.content \in Contents /\ ExpiryToStore(form, row) \in Time
<1>1. form.newId \in Ids /\ form.content \in Contents
  BY EditAssumption DEF ParamsValid
<1>2. row.expires \in Time
  BY DEF Row
<1>3. ExpiryToStore(form, row) \in Time
  BY <1>2 DEF ParamsValid, ExpiryAllowed, ExpiryToStore, Time
<1> QED
  BY <1>1, <1>3

LEMMA EditType ==
    ASSUME TableTypeOK, EditTypeOK, NEW e \in Editors, EditStep(e), EditOnly
    PROVE  TableTypeOK' /\ EditTypeOK'
<1> USE DEF EditTypeOK
<1>1. clock' \in 0..MaxTime /\ clock \in Nat
  BY BoundsAssumption DEF EditOnly, TableTypeOK
<1>2. UNCHANGED tableVars => TableTypeOK'
  BY <1>1 DEF TableTypeOK, tableVars
<1>3. EditDone(e) => EditTypeOK'
  BY DEF EditDone
<1>4. CASE EditLookup(e)
  <2>1. PICK id \in Stored, form \in Forms :
          edits' = [edits EXCEPT ![e] =
            [step |-> "params", id |-> id, row |-> links[id], form |-> form]]
    BY <1>4 DEF EditLookup
  <2>2. id \in Ids /\ links[id] \in Row
    BY DEF Stored, StoredIn, TableTypeOK, Table
  <2>3. [step |-> "params", id |-> id, row |-> links[id], form |-> form] \in Checking
    BY <2>2 DEF Checking
  <2> QED
    BY <1>2, <1>4, <2>1, <2>3 DEF EditLookup
<1>5. CASE EditParams(e)
  <2> DEFINE form == edits[e].form
             row == edits[e].row
  <2>1. edits[e] \in Checking
    BY <1>5 DEF EditParams, NoEdit, Updating
  <2>2. edits[e].id \in Ids /\ row \in Row /\ form \in Forms
    BY <2>1 DEF Checking
  <2>3. CASE ParamsValid(form, row, clock)
    <3>1. form \in Accepted
      BY <2>2, <2>3 DEF Accepted, ParamsValid
    <3>2. ExpiryToStore(form, row) \in Time
      BY <1>1, <2>2, <2>3, ParamsStorable
    <3> DEFINE next == [step |-> "update", id |-> edits[e].id, row |-> row, form |-> form,
                        expires |-> ExpiryToStore(form, row)]
    <3>3. next \in Updating
      BY <2>2, <3>1, <3>2 DEF Updating
    <3>4. edits' = [edits EXCEPT ![e] = next]
      BY <1>5, <2>3 DEF EditParams
    <3> QED
      BY <1>2, <1>5, <3>3, <3>4 DEF EditParams
  <2>4. CASE ~ParamsValid(form, row, clock)
    BY <1>2, <1>3, <1>5, <2>4 DEF EditParams
  <2> QED
    BY <2>3, <2>4
<1>6. CASE EditStored(e) \/ EditRefused(e)
  <2>1. edits[e] \in Updating /\ EditTypeOK'
    BY <1>3, <1>6 DEF EditStored, EditRefused, NoEdit, Checking
  <2>2. CASE UpdatesLink(e)
    <3>1. /\ edits[e].id \in Ids
          /\ edits[e].form.newId \in Ids
          /\ edits[e].form.content \in Contents
          /\ edits[e].expires \in Time
      BY <2>1, EditAssumption DEF Updating, Accepted
    <3>2. links' \in Table /\ inserted' \in Nat
      BY <2>2, <3>1, UpdateSwoshType DEF UpdatesLink
    <3> QED
      BY <1>1, <2>1, <3>2 DEF TableTypeOK
  <2>3. CASE UNCHANGED tableVars
    BY <1>2, <2>1, <2>3
  <2> QED
    BY <1>6, <2>2, <2>3 DEF EditStored, EditRefused
<1> QED
  BY <1>4, <1>5, <1>6 DEF EditStep, EditGoesOn

LEMMA DeleteType ==
    ASSUME TableTypeOK, DeleteTypeOK, NEW d \in Deleters, DeleteStep(d), DeleteOnly
    PROVE  TableTypeOK' /\ DeleteTypeOK'
<1> USE DEF DeleteTypeOK
<1>1. clock' \in 0..MaxTime
  BY DEF DeleteOnly, TableTypeOK
<1>2. UNCHANGED tableVars => TableTypeOK'
  BY <1>1 DEF TableTypeOK, tableVars
<1>3. DeleteDone(d) => DeleteTypeOK'
  BY DEF DeleteDone
<1>4. CASE DeleteOne(d) \/ DeleteMany(d)
  <2>1. PICK ids \in SUBSET Ids :
          deletes' = [deletes EXCEPT ![d] = [step |-> "delete", ids |-> ids]]
    BY <1>4 DEF DeleteOne, DeleteMany
  <2>2. [step |-> "delete", ids |-> ids] \in Deleting
    BY DEF Deleting
  <2> QED
    BY <1>2, <1>4, <2>1, <2>2 DEF DeleteOne, DeleteMany
<1>5. CASE DeleteStored(d)
  <2>1. links' \in Table /\ inserted' \in Nat
    BY <1>5, DeleteIdsType DEF DeleteStored
  <2> QED
    BY <1>1, <1>3, <1>5, <2>1 DEF DeleteStored, TableTypeOK
<1>6. CASE DeleteFailed(d)
  BY <1>2, <1>3, <1>6 DEF DeleteFailed
<1> QED
  BY <1>4, <1>5, <1>6 DEF DeleteStep

LEMMA SweepType ==
    ASSUME TableTypeOK, SweepTypeOK, SweepStep, SweepOnly
    PROVE  TableTypeOK' /\ SweepTypeOK'
<1> USE DEF SweepTypeOK
<1>1. clock' \in 0..MaxTime /\ clock \in Nat
  BY BoundsAssumption DEF SweepOnly, TableTypeOK
<1>2. UNCHANGED tableVars => TableTypeOK'
  BY <1>1 DEF TableTypeOK, tableVars
<1>3. DeleteExpiredSwoshes(sweep.now) => TableTypeOK'
  BY <1>1, DeleteIdsType DEF DeleteExpiredSwoshes, TableTypeOK
<1>4. CASE SweepStart
  BY <1>1, <1>2, <1>4 DEF SweepStart, Sweeping
<1>5. CASE SweepStored
  <2>1. LapsedIds(sweep.now) \subseteq Ids
    BY DEF LapsedIds, Stored, StoredIn
  <2>2. Cardinality(LapsedIds(sweep.now)) \in Nat
    BY <2>1, IdsAssumption, FS_Subset, FS_CardinalityType
  <2> QED
    BY <1>3, <1>5, <2>2 DEF SweepStored
<1>6. CASE SweepFailed
  BY <1>2, <1>3, <1>6 DEF SweepFailed
<1>7. CASE RunStart
  BY <1>2, <1>7 DEF RunStart
<1> QED
  BY <1>4, <1>5, <1>6, <1>7 DEF SweepStep

-----------------------------------------------------------------------------
\* Type correctness.

LEMMA TypeInit == Init => TypeOK
<1> SUFFICES ASSUME Init PROVE TypeOK
  OBVIOUS
<1>1. TableTypeOK
  BY StartAssumption, BoundsAssumption DEF Init, TableInit, TableTypeOK
<1>2. CreateTypeOK /\ VisitTypeOK /\ EditTypeOK /\ DeleteTypeOK /\ SweepTypeOK
  BY DEF Init, CreateInit, CreateTypeOK, VisitInit, VisitTypeOK, EditInit, EditTypeOK,
         DeleteInit, DeleteTypeOK, SweepInit, SweepTypeOK
<1> QED
  BY <1>1, <1>2 DEF TypeOK

LEMMA TypeNext == TypeOK /\ [Next]_vars => TypeOK'
<1> SUFFICES ASSUME TypeOK, [Next]_vars PROVE TypeOK'
  OBVIOUS
<1>0. /\ TableTypeOK /\ CreateTypeOK /\ VisitTypeOK
      /\ EditTypeOK /\ DeleteTypeOK /\ SweepTypeOK
  BY DEF TypeOK
<1>1. ASSUME NEW c \in Creators, CreateStep(c), CreateOnly PROVE TypeOK'
  BY <1>0, <1>1, CreateType
  DEF TypeOK, CreateOnly, sweepVars, VisitTypeOK, EditTypeOK, DeleteTypeOK, SweepTypeOK
<1>2. ASSUME NEW v \in Visitors, VisitStep(v), VisitOnly PROVE TypeOK'
  BY <1>0, <1>2, VisitType
  DEF TypeOK, VisitOnly, createVars, sweepVars, CreateTypeOK, EditTypeOK, DeleteTypeOK, SweepTypeOK
<1>3. ASSUME NEW e \in Editors, EditStep(e), EditOnly PROVE TypeOK'
  BY <1>0, <1>3, EditType
  DEF TypeOK, EditOnly, createVars, sweepVars, CreateTypeOK, VisitTypeOK, DeleteTypeOK, SweepTypeOK
<1>4. ASSUME NEW d \in Deleters, DeleteStep(d), DeleteOnly PROVE TypeOK'
  BY <1>0, <1>4, DeleteType
  DEF TypeOK, DeleteOnly, createVars, sweepVars, CreateTypeOK, VisitTypeOK, EditTypeOK, SweepTypeOK
<1>5. CASE SweepStep /\ SweepOnly
  BY <1>0, <1>5, SweepType
  DEF TypeOK, SweepOnly, createVars, CreateTypeOK, VisitTypeOK, EditTypeOK, DeleteTypeOK
<1>6. CASE TimePasses
  <2>1. TableTypeOK'
    BY <1>0, <1>6, BoundsAssumption DEF TimePasses, Tick, TableTypeOK, tableVars
  <2> QED
    BY <1>0, <1>6, <2>1
    DEF TypeOK, TimePasses, createVars, sweepVars, CreateTypeOK, VisitTypeOK, EditTypeOK,
        DeleteTypeOK, SweepTypeOK
<1>7. CASE Restart
  BY <1>0, <1>7
  DEF TypeOK, Restart, TableTypeOK, tableVars, CreateTypeOK, VisitTypeOK, EditTypeOK,
      DeleteTypeOK, SweepTypeOK
<1>8. CASE UNCHANGED vars
  BY <1>0, <1>8
  DEF TypeOK, vars, TableTypeOK, CreateTypeOK, VisitTypeOK, EditTypeOK, DeleteTypeOK, SweepTypeOK
<1> QED
  BY <1>1, <1>2, <1>3, <1>4, <1>5, <1>6, <1>7, <1>8 DEF Next

(* Whatever requests overlap and fail, each finds in its variables and in  *)
(* the table what its earlier steps and its statements may have left.      *)
THEOREM TypeCorrect == Spec => []TypeOK
BY TypeInit, TypeNext, PTL DEF Spec

-----------------------------------------------------------------------------
\* What a step can do to the table.

(* The statements a step can run, with the arguments it can give them,     *)
(* other than to edit a link or to record a visit.                         *)
Unedited ==
    \/ \E id \in Ids, content \in Contents, editable \in SUBSET Fields, expires \in Time :
            CreateSwosh(id, content, editable, expires)
    \/ \E d \in Deleters : deletes[d].step = "delete" /\ DeleteIds(deletes[d].ids)
    \/ sweep.step = "sweep" /\ DeleteExpiredSwoshes(sweep.now)
    \/ UNCHANGED tableVars

Edited(e) == edits[e] \in Updating /\ UpdatesLink(e)

Unrecorded ==
    \/ Unedited
    \/ \E id, newId \in Ids, content \in Contents, expires \in Time :
            UpdateSwosh(id, newId, content, expires)

Records(v) ==
    /\ visits[v] \in Visiting /\ visits[v].step = "record"
    /\ TouchSwosh(visits[v].id, visits[v].at)

Statement == Unrecorded \/ \E id \in Ids, at \in Time : TouchSwosh(id, at)

(* Every step runs one statement, or none; only edits change a link, and   *)
(* only visits record themselves.                                          *)
LEMMA StepRuns ==
    TypeOK /\ [Next]_vars =>
        Unedited \/ (\E e \in Editors : Edited(e)) \/ \E v \in Visitors : Records(v)
<1> DEFINE Goal == Unedited \/ (\E e \in Editors : Edited(e)) \/ \E v \in Visitors : Records(v)
<1> SUFFICES ASSUME TypeOK, [Next]_vars PROVE Goal
  OBVIOUS
<1>1. ASSUME NEW c \in Creators, CreateStep(c) PROVE Goal
  <2>1. CASE UNCHANGED tableVars
    BY <2>1 DEF Unedited
  <2>2. ASSUME NEW id \in RandomIds, creates[c].step = "insert", StoresNewLink(c, id)
        PROVE  Goal
    <3>1. creates[c] \in Inserting
      BY <2>2 DEF TypeOK, CreateTypeOK, NoCreate
    <3>2. /\ creates[c].link.content \in Contents
          /\ creates[c].link.editable \in SUBSET Fields
          /\ creates[c].link.expires \in Time
      BY <3>1 DEF Inserting, NewLink
    <3> QED
      BY <2>2, <3>2, CreateAssumption DEF StoresNewLink, Unedited
  <2> QED
    BY <1>1, <2>1, <2>2
    DEF CreateStep, CreateReject, CreateAccept, CreateInsert, CreateStored, CreateTaken, CreateError
<1>2. ASSUME NEW v \in Visitors, VisitStep(v) PROVE Goal
  <2>1. CASE UNCHANGED tableVars
    BY <2>1 DEF Unedited
  <2>2. CASE visits[v].step = "record" /\ TouchSwosh(visits[v].id, visits[v].at)
    BY <2>2 DEF TypeOK, VisitTypeOK, NoVisit, Records
  <2> QED
    BY <1>2, <2>1, <2>2
    DEF VisitStep, VisitGet, VisitCheck, VisitUser, VisitRecord, VisitServe
<1>3. ASSUME NEW e \in Editors, EditStep(e) PROVE Goal
  <2>1. CASE UNCHANGED tableVars
    BY <2>1 DEF Unedited
  <2>2. CASE edits[e].step = "update" /\ UpdatesLink(e)
    <3>1. edits[e] \in Updating
      BY <2>2 DEF TypeOK, EditTypeOK, NoEdit, Checking
    <3> QED
      BY <2>2, <3>1 DEF Edited
  <2> QED
    BY <1>3, <2>1, <2>2
    DEF EditStep, EditGoesOn, EditLookup, EditParams, EditStored, EditRefused
<1>4. ASSUME NEW d \in Deleters, DeleteStep(d) PROVE Goal
  BY <1>4 DEF DeleteStep, DeleteOne, DeleteMany, DeleteStored, DeleteFailed, Unedited
<1>5. CASE SweepStep
  BY <1>5 DEF SweepStep, RunStart, SweepStart, SweepStored, SweepFailed, Unedited
<1>6. CASE TimePasses \/ Restart \/ UNCHANGED vars
  BY <1>6 DEF TimePasses, Restart, vars, tableVars, Unedited
<1> QED
  BY <1>1, <1>2, <1>3, <1>4, <1>5, <1>6 DEF Next

(* The arguments an edit gives its statement. *)
LEMMA EditArguments ==
    ASSUME NEW e \in Editors, edits[e] \in Updating
    PROVE  /\ edits[e].step = "update" /\ edits[e].id \in Ids /\ edits[e].row \in Row
           /\ edits[e].form.newId \in Ids /\ edits[e].form.content \in Contents
           /\ edits[e].expires \in Time
BY EditAssumption DEF Updating, Accepted

LEMMA EditIsUpdate ==
    ASSUME NEW e \in Editors, Edited(e)
    PROVE  Unrecorded
<1>1. /\ edits[e].id \in Ids /\ edits[e].form.newId \in Ids
      /\ edits[e].form.content \in Contents /\ edits[e].expires \in Time
  BY EditArguments DEF Edited
<1> QED
  BY <1>1 DEF Edited, UpdatesLink, Unrecorded

LEMMA StepIsStatement == TypeOK /\ [Next]_vars => Statement
<1>1. ASSUME NEW v \in Visitors, Records(v)
      PROVE  \E id \in Ids, at \in Time : TouchSwosh(id, at)
  BY <1>1 DEF Records, Visiting
<1> QED
  BY <1>1, StepRuns, EditIsUpdate DEF Statement, Unrecorded

(* What each statement makes of the row at an id. *)
LEMMA RowsAfter ==
    ASSUME TypeOK
    PROVE  /\ \A id \in Ids, content \in Contents, editable \in SUBSET Fields, expires \in Time :
                CreateSwosh(id, content, editable, expires) =>
                    /\ id \notin Stored
                    /\ Stored' = Stored \cup {id}
                    /\ links'[id].serial = inserted + 1
                    /\ \A i \in Stored : links'[i] = links[i]
           /\ \A id, newId \in Ids, content \in Contents, expires \in Time :
                UpdateSwosh(id, newId, content, expires) =>
                    /\ id \in Stored
                    /\ newId = id \/ newId \notin Stored
                    /\ Stored' = (Stored \ {id}) \cup {newId}
                    /\ links'[newId].serial = links[id].serial
                    /\ links'[newId].accessed = links[id].accessed
                    /\ links'[newId].expires = expires
                    /\ \A i \in Stored \ {id} : links'[i] = links[i]
           /\ \A id \in Ids, at \in Time :
                TouchSwosh(id, at) =>
                    /\ Stored' = Stored
                    /\ \A i \in Stored :
                        /\ links'[i].serial = links[i].serial
                        /\ links'[i].expires = links[i].expires
                        /\ links'[i].accessed \in {links[i].accessed, at}
           /\ \A ids :
                DeleteIds(ids) =>
                    /\ Stored' = Stored \ ids
                    /\ \A i \in Stored \ ids : links'[i] = links[i]
<1>1. links \in Table /\ inserted \in Nat
  BY DEF TypeOK, TableTypeOK
<1>2. \A i \in Stored : i \in Ids /\ links[i] \in Row /\ links[i] # NoRow
  BY <1>1 DEF Stored, StoredIn, Table
<1>3. \A row \in Row : row # NoRow
  BY NoRowAssumption
<1>4. ASSUME NEW id \in Ids, NEW content \in Contents, NEW editable \in SUBSET Fields,
             NEW expires \in Time, CreateSwosh(id, content, editable, expires)
      PROVE  /\ id \notin Stored
             /\ Stored' = Stored \cup {id}
             /\ links'[id].serial = inserted + 1
             /\ \A i \in Stored : links'[i] = links[i]
  <2> DEFINE row == [content |-> content, editable |-> editable, expires |-> expires,
                     serial |-> inserted + 1, accessed |-> Null]
  <2>1. row # NoRow
    <3>1. row \in Row
      BY <1>1 DEF Row, Time
    <3> QED
      BY <1>3, <3>1
  <2>2. id \notin Stored /\ links' = [links EXCEPT ![id] = row]
    BY <1>4 DEF CreateSwosh
  <2>3. links'[id] = row /\ \A i \in Ids \ {id} : links'[i] = links[i]
    BY <1>1, <2>2 DEF Table
  <2> HIDE DEF row
  <2>4. Stored' = Stored \cup {id}
    BY <2>1, <2>2, <2>3 DEF Stored, StoredIn
  <2> QED
    BY <1>2, <2>2, <2>3, <2>4 DEF row
<1>5. ASSUME NEW id \in Ids, NEW newId \in Ids, NEW content \in Contents,
             NEW expires \in Time, UpdateSwosh(id, newId, content, expires)
      PROVE  /\ id \in Stored
             /\ newId = id \/ newId \notin Stored
             /\ Stored' = (Stored \ {id}) \cup {newId}
             /\ links'[newId].serial = links[id].serial
             /\ links'[newId].accessed = links[id].accessed
             /\ links'[newId].expires = expires
             /\ \A i \in Stored \ {id} : links'[i] = links[i]
  <2> DEFINE row == UpdatedRow(links[id], content, expires)
  <2>1. id \in Stored /\ (newId = id \/ newId \notin Stored)
    BY <1>5 DEF UpdateSwosh, UpdateConflicts
  <2>2. /\ row \in Row /\ row.serial = links[id].serial /\ row.accessed = links[id].accessed
        /\ row.expires = expires
    BY <1>2, <2>1 DEF UpdatedRow, Row
  <2>3. /\ links'[newId] = row
        /\ id # newId => links'[id] = NoRow
        /\ \A i \in Ids \ {id, newId} : links'[i] = links[i]
    BY <1>5 DEF UpdateSwosh
  <2> HIDE DEF row
  <2>4. Stored' = (Stored \ {id}) \cup {newId}
    BY <1>3, <2>1, <2>2, <2>3 DEF Stored, StoredIn
  <2> QED
    BY <1>2, <2>1, <2>2, <2>3, <2>4
<1>6. ASSUME NEW id \in Ids, NEW at \in Time, TouchSwosh(id, at)
      PROVE  /\ Stored' = Stored
             /\ \A i \in Stored :
                 /\ links'[i].serial = links[i].serial
                 /\ links'[i].expires = links[i].expires
                 /\ links'[i].accessed \in {links[i].accessed, at}
  <2>1. CASE id \notin Stored
    BY <1>6, <2>1 DEF TouchSwosh, Stored, StoredIn
  <2>2. CASE id \in Stored
    <3> DEFINE row == [links[id] EXCEPT !.accessed = at]
    <3>1. /\ row \in Row
          /\ row.serial = links[id].serial
          /\ row.expires = links[id].expires
          /\ row.accessed = at
      BY <1>2, <2>2 DEF Row
    <3>2. links' = [links EXCEPT ![id] = row]
      BY <1>6, <2>2 DEF TouchSwosh
    <3> HIDE DEF row
    <3>3. links'[id] = row /\ \A i \in Ids \ {id} : links'[i] = links[i]
      BY <1>1, <3>2 DEF Table
    <3> QED
      BY <1>2, <1>3, <2>2, <3>1, <3>3 DEF Stored, StoredIn
  <2> QED
    BY <2>1, <2>2
<1>7. ASSUME NEW ids, DeleteIds(ids)
      PROVE  /\ Stored' = Stored \ ids
             /\ \A i \in Stored \ ids : links'[i] = links[i]
  BY <1>2, <1>7 DEF DeleteIds, Stored, StoredIn
<1> QED
  BY <1>4, <1>5, <1>6, <1>7

-----------------------------------------------------------------------------
\* One row per link.

LEMMA OneRowInit == Init => OneRowPerLink
BY StartAssumption DEF Init, TableInit, OneRowPerLink, Stored

LEMMA OneRowStep == TypeOK /\ Statement /\ OneRowPerLink => OneRowPerLink'
<1> SUFFICES ASSUME TypeOK, Statement, OneRowPerLink PROVE OneRowPerLink'
  OBVIOUS
<1> USE DEF OneRowPerLink
<1>0. inserted \in Nat /\ \A i \in Stored : links[i].serial \in Nat
  BY DEF TypeOK, TableTypeOK, Table, Stored, StoredIn, Row
<1>1. ASSUME NEW id \in Ids, NEW content \in Contents, NEW editable \in SUBSET Fields,
             NEW expires \in Time, CreateSwosh(id, content, editable, expires)
      PROVE  OneRowPerLink'
  <2>1. inserted' = inserted + 1
    BY <1>1 DEF CreateSwosh
  <2> QED
    BY <1>0, <1>1, <2>1, RowsAfter
<1>2. ASSUME NEW id \in Ids, NEW newId \in Ids, NEW content \in Contents,
             NEW expires \in Time, UpdateSwosh(id, newId, content, expires)
      PROVE  OneRowPerLink'
  <2>1. inserted' = inserted
    BY <1>2 DEF UpdateSwosh
  <2> QED
    BY <1>0, <1>2, <2>1, RowsAfter
<1>3. ASSUME NEW id \in Ids, NEW at \in Time, TouchSwosh(id, at) PROVE OneRowPerLink'
  <2>1. inserted' = inserted
    BY <1>3 DEF TouchSwosh
  <2> QED
    BY <1>0, <1>3, <2>1, RowsAfter
<1>4. ASSUME NEW ids, DeleteIds(ids) PROVE OneRowPerLink'
  <2>1. inserted' = inserted
    BY <1>4 DEF DeleteIds
  <2> QED
    BY <1>0, <1>4, <2>1, RowsAfter
<1>5. CASE UNCHANGED tableVars
  BY <1>5 DEF tableVars, Stored, StoredIn
<1> QED
  BY <1>1, <1>2, <1>3, <1>4, <1>5 DEF Statement, Unrecorded, Unedited, DeleteExpiredSwoshes

(* However renames, inserts and deletions interleave, a link has one row. *)
THEOREM OneRow == Spec => []OneRowPerLink
<1>1. TypeOK /\ OneRowPerLink /\ [Next]_vars => OneRowPerLink'
  BY StepIsStatement, OneRowStep
<1> QED
  BY <1>1, OneRowInit, TypeCorrect, PTL DEF Spec

-----------------------------------------------------------------------------
\* Times read have come.

(* A request or a sweep that works with a time has read it on the clock:    *)
(* none is ahead of it, though time passes before it is used.               *)
TimesReadHaveCome ==
    /\ sweep.step = "sweep" => sweep.now <= clock
    /\ \A v \in Visitors : visits[v].step # "idle" =>
        /\ visits[v].since <= clock
        /\ visits[v].step = "record" => visits[v].at \in visits[v].since..clock

LEMMA TimesInit == Init => TimesReadHaveCome
BY DEF Init, SweepInit, Starting, VisitInit, NoVisit, TimesReadHaveCome

LEMMA TimesStep == TypeOK /\ TimesReadHaveCome /\ [Next]_vars => TimesReadHaveCome'
<1> SUFFICES ASSUME TypeOK, TimesReadHaveCome, [Next]_vars PROVE TimesReadHaveCome'
  OBVIOUS
<1> USE DEF TimesReadHaveCome
<1>0. clock \in Nat /\ \A v \in Visitors : visits[v] # NoVisit => visits[v] \in Visiting
  BY BoundsAssumption DEF TypeOK, TableTypeOK, VisitTypeOK
<1>1. ASSUME NEW v \in Visitors, VisitStep(v), VisitOnly PROVE TimesReadHaveCome'
  <2>0. sweep' = sweep /\ clock' = clock
    BY <1>1 DEF VisitOnly, sweepVars
  <2>1. ASSUME visits[v].step # "idle" PROVE visits[v] \in Visiting /\ visits[v].since \in Nat
    BY <1>0, <2>1 DEF NoVisit, Visiting
  <2>2. visits \in [Visitors -> {NoVisit} \cup Visiting]
    BY DEF TypeOK, VisitTypeOK
  <2>3. CASE VisitGet(v)
    BY <1>0, <2>0, <2>2, <2>3 DEF VisitGet
  <2>4. CASE VisitCheck(v)
    <3>1. visits[v] \in Visiting
      BY <2>1, <2>4 DEF VisitCheck
    <3>2. CASE VisitMoves(v, "user")
      <4>1. /\ visits'[v].since = visits[v].since
            /\ visits'[v].step = "user"
            /\ \A w \in Visitors \ {v} : visits'[w] = visits[w]
        BY <2>2, <3>1, <3>2 DEF VisitMoves, Visiting
      <4> QED
        BY <2>0, <2>4, <4>1 DEF VisitCheck
    <3>3. CASE VisitDone(v)
      BY <2>0, <2>2, <3>3 DEF VisitDone, NoVisit
    <3> QED
      BY <2>4, <3>2, <3>3 DEF VisitCheck
  <2>5. CASE VisitUser(v)
    <3>1. visits[v].since \in Nat /\ visits[v].since <= clock
      BY <2>1, <2>5 DEF VisitUser
    <3>2. CASE VisitMoves(v, "serve")
      BY <2>0, <2>2, <2>5, <3>2 DEF VisitUser, VisitMoves
    <3>3. ASSUME NEW role, VisitCounts(v, role) PROVE TimesReadHaveCome'
      <4>1. /\ visits'[v].since = visits[v].since
            /\ visits'[v].at = clock
            /\ \A w \in Visitors \ {v} : visits'[w] = visits[w]
        <5>1. visits[v] \in Visiting
          BY <2>1, <2>5 DEF VisitUser
        <5> QED
          BY <2>2, <3>3, <5>1 DEF VisitCounts, Visiting
      <4> QED
        BY <1>0, <2>0, <3>1, <4>1
    <3> QED
      BY <2>5, <3>2, <3>3 DEF VisitUser
  <2>6. CASE VisitRecord(v)
    BY <2>0, <2>2, <2>6 DEF VisitRecord, VisitMoves
  <2>7. CASE VisitServe(v)
    BY <2>0, <2>2, <2>7 DEF VisitServe, VisitDone, NoVisit
  <2> QED
    BY <1>1, <2>3, <2>4, <2>5, <2>6, <2>7 DEF VisitStep
<1>2. CASE SweepStep /\ SweepOnly
  BY <1>0, <1>2 DEF SweepStep, SweepOnly, RunStart, SweepStart, SweepStored, SweepFailed, Waiting
<1>3. CASE TimePasses
  <2>1. clock' = clock + 1 /\ sweep' = sweep /\ visits' = visits
    BY <1>3 DEF TimePasses, Tick, sweepVars
  <2>2. sweep.step = "sweep" => sweep.now \in Nat
    BY DEF TypeOK, SweepTypeOK, Sweeping, Starting, Waiting
  <2>3. \A v \in Visitors : visits[v].step # "idle" => visits[v].since \in Nat
    BY <1>0 DEF NoVisit, Visiting
  <2> QED
    BY <1>0, <2>1, <2>2, <2>3
<1>4. CASE Restart
  BY <1>4 DEF Restart, Starting, NoVisit
<1>5. CASE /\ UNCHANGED <<clock, visits, sweep>>
  BY <1>5
<1> QED
  BY <1>1, <1>2, <1>3, <1>4, <1>5
  DEF Next, CreateOnly, EditOnly, DeleteOnly, sweepVars, vars

LEMMA TimesHaveCome == Spec => []TimesReadHaveCome
BY TimesInit, TimesStep, TypeCorrect, PTL DEF Spec

-----------------------------------------------------------------------------
\* Links that go.

(* Only an insert brings a serial number that no row has. *)
LEMMA SerialsStep ==
    TypeOK /\ Statement =>
        (\A s \in 1..inserted : s \notin Serials => s \notin Serials')
<1> SUFFICES ASSUME TypeOK, Statement, NEW s \in 1..inserted, s \in Serials'
             PROVE  s \in Serials
  OBVIOUS
<1>0. inserted \in Nat
  BY DEF TypeOK, TableTypeOK
<1>1. PICK j \in Stored' : links'[j].serial = s
  BY DEF Serials
<1>2. ASSUME NEW i \in Stored, links[i].serial = s PROVE s \in Serials
  BY <1>2 DEF Serials
<1>3. ASSUME NEW id \in Ids, NEW content \in Contents, NEW editable \in SUBSET Fields,
             NEW expires \in Time, CreateSwosh(id, content, editable, expires)
      PROVE  s \in Serials
  <2>1. /\ Stored' = Stored \cup {id} /\ links'[id].serial = inserted + 1
        /\ \A i \in Stored : links'[i] = links[i]
    BY <1>3, RowsAfter
  <2>2. j # id
    BY <1>0, <1>1, <2>1
  <2> QED
    BY <1>1, <1>2, <2>1, <2>2
<1>4. ASSUME NEW id \in Ids, NEW newId \in Ids, NEW content \in Contents,
             NEW expires \in Time, UpdateSwosh(id, newId, content, expires)
      PROVE  s \in Serials
  BY <1>1, <1>2, <1>4, RowsAfter
<1>5. ASSUME NEW id \in Ids, NEW at \in Time, TouchSwosh(id, at) PROVE s \in Serials
  BY <1>1, <1>2, <1>5, RowsAfter
<1>6. ASSUME NEW ids, DeleteIds(ids) PROVE s \in Serials
  BY <1>1, <1>2, <1>6, RowsAfter
<1>7. CASE UNCHANGED tableVars
  BY <1>1, <1>2, <1>7 DEF tableVars, Stored, StoredIn
<1> QED
  BY <1>3, <1>4, <1>5, <1>6, <1>7 DEF Statement, Unrecorded, Unedited, DeleteExpiredSwoshes

(* An edit or an insert that overlaps a deletion never brings a link back. *)
THEOREM GoneForGood == Spec => NoResurrection
<1>1. TypeOK /\ [Next]_vars =>
        [\A s \in 1..inserted : s \notin Serials => s \notin Serials']_vars
  BY StepIsStatement, SerialsStep
<1> QED
  BY <1>1, TypeCorrect, PTL DEF Spec, NoResurrection

-----------------------------------------------------------------------------
\* Visits that are recorded.

(* Who is taken for an admin goes on to be served, unrecorded. *)
AdminsUnrecorded == \A v \in Visitors : visits[v].step = "record" => visits[v].role # "admin"

LEMMA AdminsInit == Init => AdminsUnrecorded
BY DEF Init, VisitInit, NoVisit, AdminsUnrecorded

LEMMA AdminsStep == TypeOK /\ AdminsUnrecorded /\ [Next]_vars => AdminsUnrecorded'
<1> SUFFICES ASSUME TypeOK, AdminsUnrecorded, [Next]_vars PROVE AdminsUnrecorded'
  OBVIOUS
<1> USE DEF AdminsUnrecorded
<1>1. ASSUME NEW v \in Visitors, VisitStep(v) PROVE AdminsUnrecorded'
  <2>1. visits \in [Visitors -> {NoVisit} \cup Visiting]
    BY DEF TypeOK, VisitTypeOK
  <2>2. ASSUME visits[v].step # "idle" PROVE visits[v] \in Visiting
    BY <2>1, <2>2 DEF NoVisit
  <2>3. CASE VisitGet(v)
    BY <2>1, <2>3 DEF VisitGet
  <2>4. CASE VisitCheck(v)
    BY <2>1, <2>2, <2>4 DEF VisitCheck, VisitMoves, VisitDone, NoVisit, Visiting
  <2>5. CASE VisitUser(v)
    BY <2>1, <2>2, <2>5 DEF VisitUser, VisitMoves, VisitCounts, TakenForAdmin, Visiting
  <2>6. CASE VisitRecord(v)
    BY <2>1, <2>2, <2>6 DEF VisitRecord, VisitMoves, Visiting
  <2>7. CASE VisitServe(v)
    BY <2>1, <2>7 DEF VisitServe, VisitDone, NoVisit
  <2> QED
    BY <1>1, <2>3, <2>4, <2>5, <2>6, <2>7 DEF VisitStep
<1>2. CASE UNCHANGED visits
  BY <1>2
<1>3. CASE Restart
  BY <1>3 DEF Restart, VisitInit, NoVisit
<1> QED
  BY <1>1, <1>2, <1>3
  DEF Next, CreateOnly, EditOnly, DeleteOnly, SweepOnly, TimePasses, vars

(* Nothing but a visit changes the time of a row. *)
LEMMA UnrecordedStep ==
    TypeOK /\ OneRowPerLink /\ Unrecorded =>
        \A i \in Stored, j \in Stored' :
            links[i].serial = links'[j].serial => links[i].accessed = links'[j].accessed
<1> SUFFICES ASSUME TypeOK, OneRowPerLink, Unrecorded, NEW i \in Stored, NEW j \in Stored',
                    links[i].serial = links'[j].serial
             PROVE  links[i].accessed = links'[j].accessed
  OBVIOUS
<1>0. /\ inserted \in Nat
      /\ \A k \in Stored : links[k].serial \in Nat /\ links[k].serial <= inserted
      /\ \A k \in Stored : links[k].serial = links[i].serial => k = i
  BY DEF TypeOK, TableTypeOK, Table, Stored, StoredIn, Row, OneRowPerLink
<1>1. ASSUME NEW id \in Ids, NEW content \in Contents, NEW editable \in SUBSET Fields,
             NEW expires \in Time, CreateSwosh(id, content, editable, expires)
      PROVE  links[i].accessed = links'[j].accessed
  BY <1>0, <1>1, RowsAfter
<1>2. ASSUME NEW id \in Ids, NEW newId \in Ids, NEW content \in Contents,
             NEW expires \in Time, UpdateSwosh(id, newId, content, expires)
      PROVE  links[i].accessed = links'[j].accessed
  BY <1>0, <1>2, RowsAfter
<1>3. ASSUME NEW ids, DeleteIds(ids) PROVE links[i].accessed = links'[j].accessed
  BY <1>0, <1>3, RowsAfter
<1>4. CASE UNCHANGED tableVars
  BY <1>0, <1>4 DEF tableVars, Stored
<1> QED
  BY <1>1, <1>2, <1>3, <1>4 DEF Unrecorded, Unedited, DeleteExpiredSwoshes

LEMMA AccessStep ==
    TypeOK /\ OneRowPerLink /\ AdminsUnrecorded /\ [Next]_vars =>
        \A i \in Stored, j \in Stored' :
            links[i].serial = links'[j].serial /\ links[i].accessed # links'[j].accessed =>
                \E v \in Visitors :
                    /\ visits[v].step = "record"
                    /\ visits[v].role # "admin"
                    /\ links'[j].accessed = visits[v].at
<1> SUFFICES ASSUME TypeOK, OneRowPerLink, AdminsUnrecorded, [Next]_vars,
                    NEW i \in Stored, NEW j \in Stored',
                    links[i].serial = links'[j].serial, links[i].accessed # links'[j].accessed
             PROVE  \E v \in Visitors :
                        /\ visits[v].step = "record"
                        /\ visits[v].role # "admin"
                        /\ links'[j].accessed = visits[v].at
  OBVIOUS
<1>1. PICK v \in Visitors : Records(v)
  BY StepRuns, EditIsUpdate, UnrecordedStep DEF Unrecorded
<1>2. visits[v].id \in Ids /\ visits[v].at \in Time
  BY <1>1 DEF Records, Visiting
<1>3. /\ Stored' = Stored
      /\ \A k \in Stored : /\ links'[k].serial = links[k].serial
                           /\ links'[k].accessed \in {links[k].accessed, visits[v].at}
  BY <1>1, <1>2, RowsAfter DEF Records
<1>4. i = j
  BY <1>3 DEF OneRowPerLink
<1> QED
  BY <1>1, <1>3, <1>4 DEF AdminsUnrecorded, Records

(* The last access is that of a visit by the public, whatever edits of the  *)
(* same link, renames and failures do meanwhile (touch, adminUpdate).       *)
THEOREM AccessIsPublic == Spec => AccessByPublicOnly
<1>1. TypeOK /\ OneRowPerLink /\ AdminsUnrecorded /\ [Next]_vars =>
        [\A i \in Stored, j \in Stored' :
            links[i].serial = links'[j].serial /\ links[i].accessed # links'[j].accessed =>
                \E v \in Visitors :
                    /\ visits[v].step = "record"
                    /\ visits[v].role # "admin"
                    /\ links'[j].accessed = visits[v].at]_vars
  BY AccessStep
<1>2. TypeOK /\ AdminsUnrecorded /\ [Next]_vars => AdminsUnrecorded'
  BY AdminsStep
<1> QED
  BY <1>1, <1>2, AdminsInit, TypeCorrect, OneRow, PTL DEF Spec, AccessByPublicOnly

-----------------------------------------------------------------------------
\* The expiry of a link.

(* What an edit is about to store was settled by the form and the row that  *)
(* was looked up (params).                                                  *)
ExpirySettled == \A e \in Editors : edits[e].step = "update" =>
    edits[e].expires = ExpiryToStore(edits[e].form, edits[e].row)

LEMMA SettledInit == Init => ExpirySettled
BY DEF Init, EditInit, NoEdit, ExpirySettled

LEMMA SettledStep == TypeOK /\ ExpirySettled /\ [Next]_vars => ExpirySettled'
<1> SUFFICES ASSUME TypeOK, ExpirySettled, [Next]_vars PROVE ExpirySettled'
  OBVIOUS
<1> USE DEF ExpirySettled
<1>1. ASSUME NEW e \in Editors, EditStep(e) PROVE ExpirySettled'
  <2>1. DOMAIN edits = Editors /\ edits = [f \in Editors |-> edits[f]]
    BY DEF TypeOK, EditTypeOK
  <2>2. ASSUME NEW next, edits' = [edits EXCEPT ![e] = next],
               next.step = "update" => next.expires = ExpiryToStore(next.form, next.row)
        PROVE  ExpirySettled'
    BY <2>1, <2>2
  <2>3. CASE EditDone(e)
    BY <2>2, <2>3 DEF EditDone, NoEdit
  <2>4. CASE EditLookup(e)
    BY <2>2, <2>4 DEF EditLookup
  <2>5. CASE EditParams(e) /\ ~EditDone(e)
    BY <2>2, <2>5 DEF EditParams
  <2> QED
    BY <1>1, <2>3, <2>4, <2>5 DEF EditStep, EditGoesOn, EditStored, EditRefused
<1>2. CASE UNCHANGED edits
  BY <1>2
<1>3. CASE Restart
  BY <1>3 DEF Restart, NoEdit
<1> QED
  BY <1>1, <1>2, <1>3
  DEF Next, CreateOnly, VisitOnly, DeleteOnly, SweepOnly, TimePasses, vars

(* An edit stores the expiry that it was asked for, or the one looked up.   *)
LEMMA AskedOrKept ==
    ASSUME NEW e \in Editors, edits[e].step = "update", ExpirySettled
    PROVE  edits[e].expires =
            IF AsksForExpiry(edits[e]) THEN edits[e].form.expiresOn ELSE edits[e].row.expires
<1>1. CASE AsksForExpiry(edits[e])
  <2>1. ~ExpiryUnchanged(edits[e].form, edits[e].row)
        /\ FormExpiry(edits[e].form, edits[e].row) = edits[e].form.expiresOn
    BY <1>1 DEF AsksForExpiry, ExpiryUnchanged, FormExpiry
  <2> QED
    BY <1>1, <2>1 DEF ExpirySettled, ExpiryToStore
<1>2. CASE ~AsksForExpiry(edits[e])
  <2>1. ExpiryUnchanged(edits[e].form, edits[e].row)
    BY <1>2 DEF AsksForExpiry, ExpiryUnchanged, FormExpiry
  <2> QED
    BY <1>2, <2>1 DEF ExpirySettled, ExpiryToStore
<1> QED
  BY <1>1, <1>2

(* Nothing but an edit changes the expiry of a row. *)
LEMMA UneditedStep ==
    TypeOK /\ OneRowPerLink /\ (Unedited \/ \E v \in Visitors : Records(v)) =>
        \A i \in Stored, j \in Stored' :
            links[i].serial = links'[j].serial => links[i].expires = links'[j].expires
<1> SUFFICES ASSUME TypeOK, OneRowPerLink, Unedited \/ \E v \in Visitors : Records(v),
                    NEW i \in Stored, NEW j \in Stored', links[i].serial = links'[j].serial
             PROVE  links[i].expires = links'[j].expires
  OBVIOUS
<1>0. /\ inserted \in Nat
      /\ \A k \in Stored : links[k].serial \in Nat /\ links[k].serial <= inserted
      /\ \A k \in Stored : links[k].serial = links[i].serial => k = i
  BY DEF TypeOK, TableTypeOK, Table, Stored, StoredIn, Row, OneRowPerLink
<1>1. ASSUME NEW id \in Ids, NEW content \in Contents, NEW editable \in SUBSET Fields,
             NEW expires \in Time, CreateSwosh(id, content, editable, expires)
      PROVE  links[i].expires = links'[j].expires
  BY <1>0, <1>1, RowsAfter
<1>2. ASSUME NEW v \in Visitors, Records(v) PROVE links[i].expires = links'[j].expires
  <2>1. visits[v].id \in Ids /\ visits[v].at \in Time
    BY <1>2 DEF Records, Visiting
  <2> QED
    BY <1>0, <1>2, <2>1, RowsAfter DEF Records
<1>3. ASSUME NEW ids, DeleteIds(ids) PROVE links[i].expires = links'[j].expires
  BY <1>0, <1>3, RowsAfter
<1>4. CASE UNCHANGED tableVars
  BY <1>0, <1>4 DEF tableVars, Stored
<1> QED
  BY <1>1, <1>2, <1>3, <1>4 DEF Unedited, DeleteExpiredSwoshes

LEMMA ExpiryStep ==
    TypeOK /\ OneRowPerLink /\ ExpirySettled /\ [Next]_vars =>
        \A i \in Stored, j \in Stored' :
            links[i].serial = links'[j].serial /\ links[i].expires # links'[j].expires =>
                \E e \in Editors :
                    /\ edits[e].step = "update" /\ edits[e].id = i /\ edits[e].form.newId = j
                    /\ links'[j].expires = IF AsksForExpiry(edits[e])
                           THEN edits[e].form.expiresOn ELSE edits[e].row.expires
<1> SUFFICES ASSUME TypeOK, OneRowPerLink, ExpirySettled, [Next]_vars,
                    NEW i \in Stored, NEW j \in Stored',
                    links[i].serial = links'[j].serial, links[i].expires # links'[j].expires
             PROVE  \E e \in Editors :
                        /\ edits[e].step = "update" /\ edits[e].id = i /\ edits[e].form.newId = j
                        /\ links'[j].expires = IF AsksForExpiry(edits[e])
                               THEN edits[e].form.expiresOn ELSE edits[e].row.expires
  OBVIOUS
<1>1. PICK e \in Editors : Edited(e)
  BY StepRuns, UneditedStep
<1>2. /\ edits[e].step = "update" /\ edits[e].id \in Ids /\ edits[e].form.newId \in Ids
      /\ edits[e].form.content \in Contents /\ edits[e].expires \in Time
  BY <1>1, EditArguments DEF Edited
<1>3. /\ edits[e].id \in Stored
      /\ Stored' = (Stored \ {edits[e].id}) \cup {edits[e].form.newId}
      /\ links'[edits[e].form.newId].serial = links[edits[e].id].serial
      /\ links'[edits[e].form.newId].expires = edits[e].expires
      /\ \A k \in Stored \ {edits[e].id} : links'[k] = links[k]
  BY <1>1, <1>2, RowsAfter DEF Edited, UpdatesLink
<1>4. i = edits[e].id /\ j = edits[e].form.newId
  BY <1>3 DEF OneRowPerLink
<1>5. links'[j].expires =
        IF AsksForExpiry(edits[e]) THEN edits[e].form.expiresOn ELSE edits[e].row.expires
  BY <1>2, <1>3, <1>4, AskedOrKept
<1> QED
  BY <1>2, <1>4, <1>5

(* A link's expiry changes only by an edit, to what its form asks for or,   *)
(* if it asks for none, to what it looked up, to the fraction of a second   *)
(* (params, adminUpdate).                                                   *)
THEOREM ExpiryIsKept == Spec => ExpiryKept
<1>1. TypeOK /\ OneRowPerLink /\ ExpirySettled /\ [Next]_vars =>
        [\A i \in Stored, j \in Stored' :
            links[i].serial = links'[j].serial /\ links[i].expires # links'[j].expires =>
                \E e \in Editors :
                    /\ edits[e].step = "update" /\ edits[e].id = i /\ edits[e].form.newId = j
                    /\ links'[j].expires = IF AsksForExpiry(edits[e])
                           THEN edits[e].form.expiresOn ELSE edits[e].row.expires]_vars
  BY ExpiryStep
<1> QED
  BY <1>1, SettledInit, SettledStep, TypeCorrect, OneRow, PTL DEF Spec, ExpiryKept

-----------------------------------------------------------------------------
LEMMA LossStep ==
    TypeOK /\ TimesReadHaveCome /\ Statement =>
        \A i \in Stored :
            \/ links[i].serial \in Serials'
            \/ ~Live(links[i], clock)
            \/ \E d \in Deleters : deletes[d].step = "delete" /\ i \in deletes[d].ids
<1> SUFFICES ASSUME TypeOK, TimesReadHaveCome, Statement, NEW i \in Stored,
                    links[i].serial \notin Serials', Live(links[i], clock)
             PROVE  \E d \in Deleters : deletes[d].step = "delete" /\ i \in deletes[d].ids
  OBVIOUS
<1>0. ASSUME NEW j \in Stored' PROVE links'[j].serial # links[i].serial
  BY <1>0 DEF Serials
<1>1. ASSUME NEW id \in Ids, NEW content \in Contents, NEW editable \in SUBSET Fields,
             NEW expires \in Time, CreateSwosh(id, content, editable, expires)
      PROVE  FALSE
  BY <1>0, <1>1, RowsAfter
<1>2. ASSUME NEW id \in Ids, NEW newId \in Ids, NEW content \in Contents,
             NEW expires \in Time, UpdateSwosh(id, newId, content, expires)
      PROVE  FALSE
  BY <1>0, <1>2, RowsAfter
<1>3. ASSUME NEW id \in Ids, NEW at \in Time, TouchSwosh(id, at) PROVE FALSE
  BY <1>0, <1>3, RowsAfter
<1>4. ASSUME NEW d \in Deleters, deletes[d].step = "delete", DeleteIds(deletes[d].ids)
      PROVE  i \in deletes[d].ids
  BY <1>0, <1>4, RowsAfter
<1>5. ASSUME sweep.step = "sweep", DeleteExpiredSwoshes(sweep.now) PROVE FALSE
  <2>1. i \in LapsedIds(sweep.now)
    BY <1>0, <1>5, RowsAfter DEF DeleteExpiredSwoshes
  <2>2. links[i].expires # Null /\ links[i].expires < sweep.now
    BY <2>1 DEF LapsedIds, Lapsed
  <2>3. sweep.now \in Nat /\ clock \in Nat /\ sweep.now <= clock
    BY <1>5, BoundsAssumption
    DEF TypeOK, SweepTypeOK, Sweeping, Starting, Waiting, TableTypeOK, TimesReadHaveCome
  <2>4. links[i].expires \in Nat
    BY <2>2 DEF TypeOK, TableTypeOK, Table, Stored, StoredIn, Row, Time
  <2> QED
    BY <2>2, <2>3, <2>4 DEF Live
<1>6. CASE UNCHANGED tableVars
  BY <1>0, <1>6 DEF tableVars, Stored, StoredIn
<1> QED
  BY <1>1, <1>2, <1>3, <1>4, <1>5, <1>6 DEF Statement, Unrecorded, Unedited

(* No link is lost that an admin did not ask to delete and that lookup     *)
(* would still serve.                                                      *)
THEOREM NothingLost == Spec => LossJustified
<1>1. TypeOK /\ TimesReadHaveCome /\ [Next]_vars =>
        [\A i \in Stored :
            \/ links[i].serial \in Serials'
            \/ ~Live(links[i], clock)
            \/ \E d \in Deleters : deletes[d].step = "delete" /\ i \in deletes[d].ids]_vars
  BY StepIsStatement, LossStep
<1> QED
  BY <1>1, TypeCorrect, TimesHaveCome, PTL DEF Spec, LossJustified

-----------------------------------------------------------------------------
\* What visitors are served, and what is counted.

LEMMA ServedInit == Init => ServedWhileLive
BY DEF Init, VisitInit, NoVisit, ServedWhileLive

LEMMA ServedStep ==
    TypeOK /\ TimesReadHaveCome /\ ServedWhileLive /\ [Next]_vars => ServedWhileLive'
<1> SUFFICES ASSUME TypeOK, TimesReadHaveCome, ServedWhileLive, [Next]_vars
             PROVE  ServedWhileLive'
  OBVIOUS
<1> USE DEF ServedWhileLive
<1>1. ASSUME NEW v \in Visitors, VisitStep(v) PROVE ServedWhileLive'
  <2>1. visits \in [Visitors -> {NoVisit} \cup Visiting]
    BY DEF TypeOK, VisitTypeOK
  <2>2. ASSUME visits[v].step # "idle" PROVE visits[v] \in Visiting
    BY <2>1, <2>2 DEF NoVisit
  <2>3. CASE VisitGet(v)
    BY <2>1, <2>3 DEF VisitGet
  <2>4. CASE VisitDone(v)
    BY <2>1, <2>4 DEF VisitDone, NoVisit
  <2>5. CASE VisitCheck(v) /\ ~VisitDone(v)
    <3>1. visits[v] \in Visiting
      BY <2>2, <2>5 DEF VisitCheck
    <3>2. Live(visits[v].row, clock) /\ VisitMoves(v, "user")
      BY <2>5 DEF VisitCheck
    <3>3. visits[v].row.expires = Null \/ visits[v].row.expires > visits[v].since
      <4>1. /\ visits[v].since \in Nat /\ visits[v].row.expires \in Time
            /\ clock \in Nat /\ visits[v].since <= clock
        BY <2>5, <3>1, BoundsAssumption
        DEF VisitCheck, Visiting, Row, TypeOK, TableTypeOK, TimesReadHaveCome
      <4> QED
        BY <3>2, <4>1 DEF Live, Time
    <3>4. /\ visits'[v].row = visits[v].row /\ visits'[v].since = visits[v].since
          /\ \A w \in Visitors \ {v} : visits'[w] = visits[w]
      BY <2>1, <3>1, <3>2 DEF VisitMoves, Visiting
    <3> QED
      BY <3>3, <3>4
  <2>6. CASE VisitUser(v) \/ VisitRecord(v)
    <3>1. visits[v] \in Visiting /\ visits[v].step \in {"user", "record"}
      BY <2>2, <2>6 DEF VisitUser, VisitRecord
    <3>2. /\ visits'[v].row = visits[v].row /\ visits'[v].since = visits[v].since
          /\ \A w \in Visitors \ {v} : visits'[w] = visits[w]
      BY <2>1, <2>6, <3>1 DEF VisitUser, VisitCounts, VisitRecord, VisitMoves, Visiting
    <3> QED
      BY <3>1, <3>2
  <2> QED
    BY <1>1, <2>3, <2>4, <2>5, <2>6 DEF VisitStep, VisitServe
<1>2. CASE UNCHANGED visits
  BY <1>2
<1>3. CASE Restart
  BY <1>3 DEF Restart, NoVisit
<1> QED
  BY <1>1, <1>2, <1>3
  DEF Next, CreateOnly, EditOnly, DeleteOnly, SweepOnly, TimePasses, vars

(* A visitor is never served a link that had expired when it was looked up. *)
THEOREM ServedLive == Spec => []ServedWhileLive
BY ServedInit, ServedStep, TypeCorrect, TimesHaveCome, PTL DEF Spec

LEMMA CountedInit == Init => CountedWasCreated
BY StartAssumption DEF Init, TableInit, CreateInit, CountedWasCreated

LEMMA CountedStep == TypeOK /\ CountedWasCreated /\ [Next]_vars => CountedWasCreated'
<1> SUFFICES ASSUME TypeOK, CountedWasCreated, [Next]_vars PROVE CountedWasCreated'
  OBVIOUS
<1> USE DEF CountedWasCreated
<1>0. inserted \in Nat /\ createSuccess \in Nat /\ StartInserted \in Nat
  BY StartAssumption DEF TypeOK, TableTypeOK, CreateTypeOK
<1>1. inserted' = inserted \/ inserted' = inserted + 1
  BY StepIsStatement
  DEF Statement, Unrecorded, Unedited, CreateSwosh, UpdateSwosh, TouchSwosh, DeleteIds, DeleteExpiredSwoshes, tableVars
<1>2. ASSUME NEW c \in Creators, CreateStep(c) PROVE CountedWasCreated'
  <2>1. CASE CreateReject(c) \/ CreateAccept(c)
    BY <1>0, <2>1 DEF CreateReject, CreateAccept, tableVars
  <2>2. ASSUME NEW id \in RandomIds, CreateStored(c, id) PROVE CountedWasCreated'
    BY <1>0, <2>2 DEF CreateStored, StoresNewLink, CreateSwosh
  <2>3. ASSUME NEW id \in RandomIds, CreateTaken(c, id) \/ CreateError(c, id)
        PROVE  CountedWasCreated'
    BY <1>0, <1>1, <2>3 DEF CreateTaken, CreateError
  <2> QED
    BY <1>2, <2>1, <2>2, <2>3 DEF CreateStep, CreateInsert
<1>3. CASE createSuccess' = createSuccess
  BY <1>0, <1>1, <1>3
<1>4. CASE Restart
  BY <1>0, <1>4 DEF Restart, tableVars
<1> QED
  BY <1>2, <1>3, <1>4
  DEF Next, VisitOnly, EditOnly, DeleteOnly, SweepOnly, TimePasses, createVars, vars

(* Every request that is counted as a success stored a link of its own. *)
THEOREM CountedCreates == Spec => []CountedWasCreated
BY CountedInit, CountedStep, TypeCorrect, PTL DEF Spec

(* There are only so many rows. *)
LEMMA StoredSize ==
    ASSUME TypeOK
    PROVE  /\ IsFiniteSet(Stored) /\ Cardinality(Stored) \in Nat
           /\ \A ids : Cardinality(Stored \ ids) = Cardinality(Stored) - Cardinality(Stored \cap ids)
           /\ \A ids : Cardinality(Stored \cap ids) \in Nat
<1>1. Stored \in SUBSET Ids
  BY DEF Stored, StoredIn
<1>2. IsFiniteSet(Stored)
  BY <1>1, IdsAssumption, FS_Subset
<1>3. ASSUME NEW ids
      PROVE  /\ Cardinality(Stored \ ids) = Cardinality(Stored) - Cardinality(Stored \cap ids)
             /\ Cardinality(Stored \cap ids) \in Nat
  <2>1. Stored \cap ids \in SUBSET Stored
    OBVIOUS
  <2>2. IsFiniteSet(Stored \cap ids)
    BY <1>2, <2>1, FS_Subset
  <2> QED
    BY <1>2, <2>2, FS_Difference, FS_CardinalityType
<1> QED
  BY <1>2, <1>3, FS_CardinalityType

LEMMA GoneInit == Init => CountedHaveGone
<1> SUFFICES ASSUME Init PROVE CountedHaveGone
  OBVIOUS
<1>1. TypeOK /\ OneRowPerLink /\ inserted = StartInserted /\ expiredLinks = 0
  BY TypeInit, OneRowInit DEF Init, TableInit, SweepInit
<1>2. inserted \in Nat /\ Cardinality(Stored) \in Nat /\ IsFiniteSet(Stored)
  BY <1>1, StoredSize DEF TypeOK, TableTypeOK
<1>3. IsFiniteSet(1 .. inserted) /\ Cardinality(1 .. inserted) = inserted
  BY <1>2, FS_Interval
<1>4. ASSUME inserted < Cardinality(Stored) PROVE FALSE
  <2> DEFINE serialOf == [i \in Stored |-> links[i].serial]
  <2>1. serialOf \in [Stored -> 1 .. inserted]
    <3>1. \A i \in Stored : links[i].serial \in Nat \ {0} /\ links[i].serial <= inserted
      BY <1>1 DEF TypeOK, TableTypeOK, Table, Stored, StoredIn, Row, OneRowPerLink
    <3> QED
      BY <1>2, <3>1
  <2> HIDE DEF serialOf
  <2>2. PICK i, j \in Stored : i # j /\ serialOf[i] = serialOf[j]
    BY <1>2, <1>3, <1>4, <2>1, FS_PigeonHole
  <2> QED
    BY <1>1, <2>2 DEF serialOf, OneRowPerLink
<1> QED
  BY <1>1, <1>2, <1>4 DEF CountedHaveGone

(* No statement leaves more rows than it inserts. *)
LEMMA SizeAfter ==
    ASSUME TypeOK, Statement
    PROVE  /\ Cardinality(Stored') \in Nat
           /\ Cardinality(Stored') - inserted' <= Cardinality(Stored) - inserted
<1>1. IsFiniteSet(Stored) /\ Cardinality(Stored) \in Nat /\ inserted \in Nat
  BY StoredSize DEF TypeOK, TableTypeOK
<1>2. ASSUME NEW id \in Ids, NEW content \in Contents, NEW editable \in SUBSET Fields,
             NEW expires \in Time, CreateSwosh(id, content, editable, expires)
      PROVE  Cardinality(Stored') = Cardinality(Stored) + 1 /\ inserted' = inserted + 1
  <2>1. id \notin Stored /\ Stored' = Stored \cup {id} /\ inserted' = inserted + 1
    BY <1>2, RowsAfter DEF CreateSwosh
  <2> QED
    BY <1>1, <2>1, FS_AddElement
<1>3. ASSUME NEW id \in Ids, NEW newId \in Ids, NEW content \in Contents,
             NEW expires \in Time, UpdateSwosh(id, newId, content, expires)
      PROVE  Cardinality(Stored') = Cardinality(Stored) /\ inserted' = inserted
  <2>1. /\ id \in Stored /\ (newId = id \/ newId \notin Stored) /\ inserted' = inserted
        /\ Stored' = (Stored \ {id}) \cup {newId}
    BY <1>3, RowsAfter DEF UpdateSwosh
  <2>2. IsFiniteSet(Stored \ {id}) /\ Cardinality(Stored \ {id}) = Cardinality(Stored) - 1
    BY <1>1, <2>1, FS_RemoveElement
  <2>3. newId \notin Stored \ {id}
    BY <2>1
  <2>4. Cardinality((Stored \ {id}) \cup {newId}) = Cardinality(Stored \ {id}) + 1
    BY <2>2, <2>3, FS_AddElement
  <2> QED
    BY <1>1, <2>1, <2>2, <2>4
<1>4. ASSUME NEW id \in Ids, NEW at \in Time, TouchSwosh(id, at)
      PROVE  Stored' = Stored /\ inserted' = inserted
  BY <1>4, RowsAfter DEF TouchSwosh
<1>5. ASSUME NEW ids, DeleteIds(ids)
      PROVE  /\ Cardinality(Stored') \in Nat /\ Cardinality(Stored') <= Cardinality(Stored)
             /\ inserted' = inserted
  <2>1. Stored' = Stored \ ids /\ inserted' = inserted
    BY <1>5, RowsAfter DEF DeleteIds
  <2>2. Stored' \in SUBSET Stored
    BY <2>1
  <2> QED
    BY <1>1, <2>1, <2>2, FS_Subset, FS_CardinalityType
<1>6. CASE UNCHANGED tableVars
  BY <1>1, <1>6 DEF tableVars, Stored, StoredIn
<1> QED
  BY <1>1, <1>2, <1>3, <1>4, <1>5, <1>6
  DEF Statement, Unrecorded, Unedited, DeleteExpiredSwoshes

LEMMA GoneStep == TypeOK /\ CountedHaveGone /\ [Next]_vars => CountedHaveGone'
<1> SUFFICES ASSUME TypeOK, CountedHaveGone, [Next]_vars PROVE CountedHaveGone'
  OBVIOUS
<1> USE DEF CountedHaveGone
<1>0. inserted \in Nat /\ expiredLinks \in Nat /\ Cardinality(Stored) \in Nat
  BY StoredSize DEF TypeOK, TableTypeOK, SweepTypeOK
<1>1. /\ Cardinality(Stored') \in Nat /\ inserted' \in Nat
      /\ Cardinality(Stored') - inserted' <= Cardinality(Stored) - inserted
  BY TypeNext, StepIsStatement, SizeAfter DEF TypeOK, TableTypeOK
<1>2. CASE expiredLinks' = expiredLinks \/ expiredLinks' = 0
  BY <1>0, <1>1, <1>2
<1>3. CASE SweepStored
  <2>1. /\ DeleteIds(LapsedIds(sweep.now)) /\ inserted' = inserted
        /\ expiredLinks' = expiredLinks + Cardinality(LapsedIds(sweep.now))
    BY <1>3 DEF SweepStored, DeleteExpiredSwoshes, DeleteIds
  <2>2. Stored' = Stored \ LapsedIds(sweep.now)
    BY <2>1, RowsAfter
  <2>3. Stored \cap LapsedIds(sweep.now) = LapsedIds(sweep.now)
    BY DEF LapsedIds
  <2>4. /\ Cardinality(LapsedIds(sweep.now)) \in Nat
        /\ Cardinality(Stored') = Cardinality(Stored) - Cardinality(LapsedIds(sweep.now))
    BY <2>2, <2>3, StoredSize
  <2> QED
    BY <1>0, <2>1, <2>4
<1> QED
  BY <1>2, <1>3
  DEF Next, CreateOnly, VisitOnly, EditOnly, DeleteOnly, SweepStep, RunStart, SweepStart, SweepFailed,
      TimePasses, Restart, sweepVars, vars

(* expired_links_total never counts a link twice, nor one that is still     *)
(* there, whatever is deleted by hand or fails meanwhile (Sweep).           *)
THEOREM CountedGone == Spec => []CountedHaveGone
BY GoneInit, GoneStep, TypeCorrect, PTL DEF Spec

-----------------------------------------------------------------------------
\* The service implements LinkLife.

Held == {LinkAt(i) : i \in Stored}

Asked == UNION {deletes[d].ids : d \in {x \in Deleters : deletes[x].step = "delete"}}

LEMMA HeldAreLinks == TypeOK => \A i \in Stored : LinkAt(i) \in Life!Link
<1> SUFFICES ASSUME TypeOK, NEW i \in Stored PROVE LinkAt(i) \in Life!Link
  OBVIOUS
<1>1. i \in Ids /\ links[i] \in Row
  BY DEF TypeOK, TableTypeOK, Table, Stored, StoredIn
<1> QED
  BY <1>1 DEF LinkAt, Life!Link, Row, Time

LEMMA AskedIds == TypeOK => Asked \in SUBSET Ids
<1> SUFFICES ASSUME TypeOK, NEW d \in Deleters, deletes[d].step = "delete"
             PROVE  deletes[d].ids \subseteq Ids
  BY DEF Asked
<1> QED
  BY DEF TypeOK, DeleteTypeOK, NoDelete, Deleting

LEMMA LifeInitHolds == Init => Life!LifeInit
<1> SUFFICES ASSUME Init PROVE Life!LifeInit
  OBVIOUS
<1>1. TypeOK /\ OneRowPerLink
  BY TypeInit, OneRowInit
<1>2. Held \subseteq Life!Link
  BY <1>1, HeldAreLinks DEF Held
<1>3. Life!Distinct(Held)
  BY <1>1 DEF Life!Distinct, Held, LinkAt, OneRowPerLink
<1>4. \A l \in Held : l.serial <= inserted
  BY <1>1 DEF Held, LinkAt, OneRowPerLink
<1>5. Asked = {}
  BY DEF Asked, Init, DeleteInit, NoDelete
<1>6. inserted \in Nat /\ clock = 0
  BY <1>1 DEF TypeOK, TableTypeOK, Init, TableInit
<1> QED
  BY <1>2, <1>3, <1>4, <1>5, <1>6 DEF Life!LifeInit, Held, Asked

(* The link at an id after the step. *)
LinkThen(i) == [serial |-> links'[i].serial, id |-> i, expires |-> links'[i].expires]

(* Every statement is a change of links that LinkLife allows, or none. *)
LEMMA StatementIsLife ==
    TypeOK /\ TypeOK' /\ TimesReadHaveCome /\ Statement =>
        Life!LinksChange \/ (inserted' = inserted /\ Held' = Held)
<1> SUFFICES ASSUME TypeOK, TypeOK', TimesReadHaveCome, Statement
             PROVE  Life!LinksChange \/ (inserted' = inserted /\ Held' = Held)
  OBVIOUS
<1>1. Held' = {LinkThen(i) : i \in Stored'}
  BY DEF Held, LinkAt, LinkThen
<1>2. \A i \in Stored' : LinkThen(i) \in Life!Link
  <2>1. (TypeOK => \A i \in Stored : LinkAt(i) \in Life!Link)'
    BY HeldAreLinks, PTL
  <2> QED
    BY <2>1 DEF LinkAt, LinkThen, Life!Link
<1>3. \A l \in Held : l.id \in Stored /\ l = LinkAt(l.id)
  BY DEF Held, LinkAt
<1>4. \A i \in Stored : links'[i] = links[i] => LinkThen(i) = LinkAt(i)
  BY DEF LinkAt, LinkThen
<1>5. ASSUME NEW id \in Ids, NEW content \in Contents, NEW editable \in SUBSET Fields,
             NEW expires \in Time, CreateSwosh(id, content, editable, expires)
      PROVE  Life!LinksChange
  <2>1. /\ id \notin Stored /\ Stored' = Stored \cup {id}
        /\ links'[id].serial = inserted + 1
        /\ \A i \in Stored : LinkThen(i) = LinkAt(i)
    BY <1>4, <1>5, RowsAfter
  <2>2. Held' = Held \cup {LinkThen(id)}
    BY <1>1, <2>1 DEF Held
  <2>3. Life!Free(id)
    BY <1>3, <2>1 DEF Life!Free, Held
  <2>4. inserted' = inserted + 1
    BY <1>5 DEF CreateSwosh
  <2>5. LinkThen(id).id = id /\ LinkThen(id).serial = inserted + 1
    BY <2>1 DEF LinkThen
  <2>6. Life!Publish(LinkThen(id))
    BY <2>2, <2>3, <2>4, <2>5 DEF Life!Publish, Held
  <2> QED
    BY <1>2, <2>1, <2>2, <2>6 DEF Life!LinksChange, Held
<1>6. ASSUME NEW id \in Ids, NEW newId \in Ids, NEW content \in Contents,
             NEW expires \in Time, UpdateSwosh(id, newId, content, expires)
      PROVE  Life!LinksChange
  <2>1. /\ id \in Stored /\ (newId = id \/ newId \notin Stored)
        /\ Stored' = (Stored \ {id}) \cup {newId}
        /\ links'[newId].serial = links[id].serial
        /\ \A i \in Stored \ {id} : LinkThen(i) = LinkAt(i)
    BY <1>4, <1>6, RowsAfter
  <2>2. Held \ {LinkAt(id)} = {LinkAt(i) : i \in Stored \ {id}}
    BY <1>3, <2>1 DEF Held, LinkAt
  <2>3. Held' = (Held \ {LinkAt(id)}) \cup {LinkThen(newId)}
    BY <1>1, <2>1, <2>2
  <2>4. newId = id \/ Life!Free(newId)
    BY <1>3, <2>1 DEF Life!Free, Held
  <2>5. /\ LinkAt(id).id = id /\ LinkThen(newId).id = newId
        /\ LinkThen(newId).serial = LinkAt(id).serial
    BY <2>1 DEF LinkAt, LinkThen
  <2>6. Life!Change(LinkAt(id), LinkThen(newId))
    BY <1>6, <2>3, <2>4, <2>5 DEF Life!Change, Held, UpdateSwosh
  <2> QED
    BY <1>2, <2>1, <2>3, <2>6 DEF Life!LinksChange, Held
<1>7. ASSUME NEW id \in Ids, NEW at \in Time, TouchSwosh(id, at)
      PROVE  inserted' = inserted /\ Held' = Held
  <2>1. Stored' = Stored /\ \A i \in Stored : LinkThen(i) = LinkAt(i)
    BY <1>7, RowsAfter DEF LinkThen, LinkAt
  <2> QED
    BY <1>1, <1>7, <2>1 DEF Held, TouchSwosh
<1>8. ASSUME NEW ids, DeleteIds(ids)
      PROVE  inserted' = inserted /\ Held' = {l \in Held : l.id \notin ids}
  <2>1. Stored' = Stored \ ids /\ \A i \in Stored \ ids : LinkThen(i) = LinkAt(i)
    BY <1>4, <1>8, RowsAfter
  <2>2. {l \in Held : l.id \notin ids} = {LinkAt(i) : i \in Stored \ ids}
    BY <1>3 DEF Held, LinkAt
  <2> QED
    BY <1>1, <1>8, <2>1, <2>2 DEF DeleteIds
<1>9. ASSUME NEW d \in Deleters, deletes[d].step = "delete", DeleteIds(deletes[d].ids)
      PROVE  Life!LinksChange
  <2>1. deletes[d].ids \subseteq Asked
    BY <1>9 DEF Asked
  <2>2. Life!Withdraw(deletes[d].ids)
    BY <1>8, <1>9, <2>1 DEF Life!Withdraw, Held, Asked
  <2> QED
    BY <2>1, <2>2 DEF Life!LinksChange, Asked
<1>10. ASSUME sweep.step = "sweep", DeleteExpiredSwoshes(sweep.now)
       PROVE  Life!LinksChange
  <2>1. sweep.now \in 0..clock
    BY <1>10, BoundsAssumption
    DEF TypeOK, SweepTypeOK, Sweeping, Starting, Waiting, TableTypeOK, TimesReadHaveCome
  <2>2. \A i \in Stored : links[i].expires \in Nat \cup {Null}
    BY DEF TypeOK, TableTypeOK, Table, Stored, StoredIn, Row, Time
  <2>3. \A l \in Held : l.id \in LapsedIds(sweep.now) <=>
                        ~(l.expires = Null \/ l.expires >= sweep.now)
    <3> SUFFICES ASSUME NEW i \in Stored
                 PROVE  i \in LapsedIds(sweep.now) <=>
                            ~(links[i].expires = Null \/ links[i].expires >= sweep.now)
      BY DEF Held, LinkAt
    <3> QED
      BY <2>1, <2>2, BoundsAssumption DEF LapsedIds, Lapsed, TypeOK, TableTypeOK
  <2>4. /\ inserted' = inserted
        /\ Held' = {l \in Held : l.expires = Null \/ l.expires >= sweep.now}
    BY <1>8, <1>10, <2>3 DEF DeleteExpiredSwoshes
  <2>5. Life!Expire(sweep.now)
    BY <2>4 DEF Life!Expire, Held
  <2> QED
    BY <2>1, <2>5 DEF Life!LinksChange
<1>11. CASE UNCHANGED tableVars
  BY <1>11 DEF tableVars, Held, LinkAt, Stored, StoredIn
<1> QED
  BY <1>5, <1>6, <1>7, <1>9, <1>10, <1>11 DEF Statement, Unrecorded, Unedited

LEMMA LifeNextHolds ==
    TypeOK /\ TypeOK' /\ TimesReadHaveCome /\ [Next]_vars => [Life!LifeNext]_Life!lifeVars
<1> SUFFICES ASSUME TypeOK, TypeOK', TimesReadHaveCome, [Next]_vars
             PROVE  Life!LifeNext
  OBVIOUS
<1>1. Life!LinksChange \/ (inserted' = inserted /\ Held' = Held)
  BY StepIsStatement, StatementIsLife
<1>2. Asked' \in SUBSET Ids
  <2>1. (TypeOK => Asked \in SUBSET Ids)'
    BY AskedIds, PTL
  <2> QED
    BY <2>1
<1>3. CASE clock' = clock
  BY <1>1, <1>2, <1>3 DEF Life!LifeNext, Held, Asked
<1>4. CASE TimePasses
  <2>1. clock' = clock + 1
    BY <1>4 DEF TimePasses, Tick
  <2>2. Held' = Held /\ Asked' = Asked /\ inserted' = inserted
    BY <1>4 DEF TimePasses, tableVars, Held, LinkAt, Stored, StoredIn, Asked
  <2> QED
    BY <2>1, <2>2 DEF Life!LifeNext, Held, Asked
<1> QED
  BY <1>3, <1>4
  DEF Next, CreateOnly, VisitOnly, EditOnly, DeleteOnly, SweepOnly, Restart, vars

(* The service keeps every promise of LinkLife, for any number of requests *)
(* and any failures.                                                       *)
THEOREM ImplementsLinkLife == Spec => KeepsLinkLife
<1>1. TypeOK /\ TimesReadHaveCome /\ [Next]_vars => [Life!LifeNext]_Life!lifeVars
  BY TypeNext, LifeNextHolds
<1> QED
  BY <1>1, LifeInitHolds, TypeCorrect, TimesHaveCome, PTL
  DEF Spec, KeepsLinkLife, Life!LifeSpec
=============================================================================
