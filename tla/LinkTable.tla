------------------------------ MODULE LinkTable ------------------------------
(***************************************************************************)
(* The swosh table: one row per link, found by its id, and the statements  *)
(* of internal/db/sqlc/swosh.sql.go.  Each is one SQL statement, so one    *)
(* step: PostgreSQL applies it to the rows it names or not at all.         *)
(*                                                                         *)
(* A statement is an operator that fixes links' (and inserted').  What the *)
(* caller learns of it is up to the caller: see Faults.                    *)
(***************************************************************************)
EXTENDS Columns, FiniteSets

CONSTANTS
    Ids,            \* the ids that come up, generated or typed
    Contents,       \* payee, amount and description, always written together
    NoRow,          \* no row has the id
    StartTables,    \* the tables the service may find when it starts
    StartInserted,  \* how many rows those tables have ever been given
    MaxLinks,       \* bound on the rows ever inserted
    MaxTime,        \* bound on the clock
    Faults          \* which failures the environment may cause

VARIABLES
    links,      \* the table
    inserted,   \* rows ever inserted; the n-th has serial number n
    clock       \* the time every time.Now and s.now reads

tableVars == <<links, inserted>>

(* "serial" stands for created_at: set by the database on insert and never *)
(* by a statement afterwards, and it tells one link from every other.      *)
Row == [content : Contents, editable : SUBSET Fields, expires : Time,
        serial : Nat \ {0}, accessed : Time]

Table == [Ids -> Row \cup {NoRow}]

(* error: a statement fails and changes nothing.                           *)
(* lost:  a statement takes effect, but its answer never arrives.          *)
(* user:  looking up the user of a session fails.                          *)
(* crash: the process stops and is started again.                          *)
AllFaults == {"error", "lost", "user", "crash"}

StoredIn(table) == {i \in Ids : table[i] # NoRow}

Stored == StoredIn(links)

Serials == {links[i].serial : i \in Stored}

-----------------------------------------------------------------------------
\* What is assumed of the constants.

(* An id is a short text, of which there are only so many. *)
ASSUME IdsAssumption == IsFiniteSet(Ids)

ASSUME NoRowAssumption == NoRow \notin Row

(* A table the service finds has a link at most once. *)
ASSUME StartAssumption ==
    /\ StartInserted \in Nat
    /\ StartTables \subseteq Table
    /\ \A table \in StartTables :
        /\ \A i \in StoredIn(table) : table[i].serial <= StartInserted
        /\ \A i, j \in StoredIn(table) : table[i].serial = table[j].serial => i = j

ASSUME FaultsAssumption == Faults \subseteq AllFaults

ASSUME BoundsAssumption == MaxLinks \in Nat /\ MaxTime \in Nat

-----------------------------------------------------------------------------
\* Expiry, by the two comparisons the code makes.

(* Wrong: a link is still served at the moment it expires. *)
LiveAtExpiry(row, now) == row.expires = Null \/ row.expires >= now

(* lookup serves a link whose expires_on is after now. *)
Live(row, now) == row.expires = Null \/ row.expires > now

(* Wrong: expires_on <= now. *)
LapsedAtExpiry(row, now) == row.expires # Null /\ row.expires <= now

(* DeleteExpiredSwoshes takes a link whose expires_on is before now. *)
Lapsed(row, now) == row.expires # Null /\ row.expires < now

LapsedIds(now) == {i \in Stored : Lapsed(links[i], now)}

-----------------------------------------------------------------------------
\* The statements.

CreateSwosh(id, content, editable, expires) ==
    /\ id \notin Stored
    /\ inserted' = inserted + 1
    /\ links' = [links EXCEPT ![id] =
            [content |-> content, editable |-> editable, expires |-> expires,
             serial |-> inserted + 1, accessed |-> Null]]

DeleteIds(ids) ==
    /\ links' = [i \in Ids |-> IF i \in ids THEN NoRow ELSE links[i]]
    /\ UNCHANGED inserted

DeleteExpiredSwoshes(now) == DeleteIds(LapsedIds(now))

TouchSwosh(id, now) ==
    /\ links' = IF id \in Stored THEN [links EXCEPT ![id].accessed = now] ELSE links
    /\ UNCHANGED inserted

(* Wrong: the old id keeps its row. *)
UpdateCopies(id, newId, content, expires) ==
    /\ id \in Stored
    /\ newId = id \/ newId \notin Stored
    /\ links' = [links EXCEPT ![newId] =
            [links[id] EXCEPT !.content = content, !.expires = expires]]
    /\ UNCHANGED inserted

UpdatedRow(row, content, expires) ==
    [row EXCEPT !.content = content, !.expires = expires]

(* Wrong: a rename overwrites, as the Kotlin service did. *)
ConflictOverwrites(id, newId) == FALSE

(* UpdateSwosh breaks the primary key: the new id is another link's. *)
UpdateConflicts(id, newId) == id \in Stored /\ newId # id /\ newId \in Stored

UpdateSwosh(id, newId, content, expires) ==
    /\ id \in Stored
    /\ ~UpdateConflicts(id, newId)
    /\ links' = [i \in Ids |->
            CASE i = newId -> UpdatedRow(links[id], content, expires)
              [] i = id /\ i # newId -> NoRow
              [] OTHER -> links[i]]
    /\ UNCHANGED inserted

-----------------------------------------------------------------------------
TableInit ==
    /\ links \in StartTables
    /\ inserted = StartInserted
    /\ clock = 0

Tick ==
    /\ clock < MaxTime
    /\ clock' = clock + 1

TableTypeOK ==
    /\ links \in Table
    /\ inserted \in Nat
    /\ clock \in 0..MaxTime
=============================================================================
