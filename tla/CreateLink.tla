----------------------------- MODULE CreateLink -----------------------------
(***************************************************************************)
(* POST /api/create: create and insert of internal/web/web.go, with the    *)
(* two counters they keep.                                                 *)
(*                                                                         *)
(* A request is decoded and validated at one reading of the clock; the     *)
(* link is then inserted under one random id after another until the       *)
(* database accepts one, answers with another error, or the attempts run   *)
(* out.                                                                    *)
(***************************************************************************)
EXTENDS LinkTable, CreateRequest

CONSTANTS
    Creators,       \* the requests that can be in flight at once
    Requests,       \* the request bodies that arrive
    RandomIds,      \* the ids newID may draw
    CreateAttempts, \* createAttempts
    MaxFailed       \* bound on the counter of failed requests

(* The ids and the contents a request can lead to are known to the table. *)
ASSUME CreateAssumption ==
    /\ RandomIds \subseteq Ids
    /\ CreateAttempts \in Nat \ {0}
    /\ MaxFailed \in Nat
    /\ \A req \in Requests \ {Null} :
        /\ req.expire.value \in Int
        /\ \A now \in 0..MaxTime : Valid(req, now) => ContentOf(req) \in Contents

VARIABLES
    creates,        \* the requests in flight
    createSuccess,  \* create_success_total
    createFailed    \* create_failed_total

createVars == <<creates, createSuccess, createFailed>>

NoCreate == [step |-> "idle"]

NewLink == [content : Contents, editable : SUBSET Fields, expires : Time]

Inserting == [step : {"insert"}, link : NewLink, attempt : 1..CreateAttempts]

CreateTypeOK ==
    /\ creates \in [Creators -> {NoCreate} \cup Inserting]
    /\ createSuccess \in Nat
    /\ createFailed \in Nat

CreateInit ==
    /\ creates = [c \in Creators |-> NoCreate]
    /\ createSuccess = 0
    /\ createFailed = 0

-----------------------------------------------------------------------------
InsertsInFlight == {c \in Creators : creates[c].step = "insert"}

(* Bounds: the links inserted and the failures counted. *)
RoomForCreate ==
    /\ inserted + Cardinality(InsertsInFlight) < MaxLinks
    /\ createFailed < MaxFailed

(* The request cannot be decoded, or validate refuses it. *)
CreateReject(c) ==
    /\ creates[c] = NoCreate
    /\ createFailed < MaxFailed
    /\ \E req \in Requests : ~Valid(req, clock)
    /\ createFailed' = createFailed + 1
    /\ UNCHANGED <<creates, createSuccess, tableVars>>

(* The link to insert, and when it expires, are settled. *)
CreateAccept(c) ==
    /\ creates[c] = NoCreate
    /\ RoomForCreate
    /\ \E req \in Requests :
        /\ Valid(req, clock)
        /\ creates' = [creates EXCEPT ![c] =
                [step |-> "insert", link |-> newSwosh(req, clock), attempt |-> 1]]
    /\ UNCHANGED <<createSuccess, createFailed, tableVars>>

StoresNewLink(c, id) ==
    CreateSwosh(id, creates[c].link.content, creates[c].link.editable, creates[c].link.expires)

CreateDone(c) == creates' = [creates EXCEPT ![c] = NoCreate]

CreateStored(c, id) ==
    /\ creates[c].step = "insert"
    /\ StoresNewLink(c, id)
    /\ CreateDone(c)
    /\ createSuccess' = createSuccess + 1
    /\ UNCHANGED createFailed

(* Wrong: running out of attempts counts as a success. *)
TakenAtLastSucceeds(c, id) ==
    /\ creates[c].step = "insert"
    /\ id \in Stored
    /\ IF creates[c].attempt < CreateAttempts
       THEN /\ creates' = [creates EXCEPT ![c].attempt = @ + 1]
            /\ UNCHANGED createSuccess
       ELSE /\ CreateDone(c)
            /\ createSuccess' = createSuccess + 1
    /\ UNCHANGED <<createFailed, tableVars>>

(* Wrong: insert tries until an id is free. *)
TakenTriesForever(c, id) ==
    /\ creates[c].step = "insert"
    /\ id \in Stored
    /\ creates' = [creates EXCEPT ![c].attempt = (@ % CreateAttempts) + 1]
    /\ UNCHANGED <<createSuccess, createFailed, tableVars>>

(* The id is taken (23505): draw another, unless this was the last attempt. *)
CreateTaken(c, id) ==
    /\ creates[c].step = "insert"
    /\ id \in Stored
    /\ IF creates[c].attempt < CreateAttempts
       THEN /\ creates' = [creates EXCEPT ![c].attempt = @ + 1]
            /\ UNCHANGED createFailed
       ELSE /\ CreateDone(c)
            /\ createFailed' = createFailed + 1
    /\ UNCHANGED <<createSuccess, tableVars>>

(* Any other error ends the request, and may hide an insert that was made. *)
CreateError(c, id) ==
    /\ creates[c].step = "insert"
    /\ \/ "error" \in Faults /\ UNCHANGED tableVars
       \/ "lost" \in Faults /\ StoresNewLink(c, id)
    /\ CreateDone(c)
    /\ createFailed' = createFailed + 1
    /\ UNCHANGED createSuccess

CreateInsert(c) ==
    \E id \in RandomIds : CreateStored(c, id) \/ CreateTaken(c, id) \/ CreateError(c, id)

CreateStep(c) == CreateReject(c) \/ CreateAccept(c) \/ CreateInsert(c)
=============================================================================
