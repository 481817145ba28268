------------------------------- MODULE Columns -------------------------------
(***************************************************************************)
(* The values of the swosh table's columns (internal/db/sqlc/models.go).   *)
(*                                                                         *)
(* A time is a number of ticks.  A second has Second of them, so that a    *)
(* time can have a fraction of a second, which forms do not show.          *)
(***************************************************************************)
EXTENDS Integers

CONSTANTS
    Null,       \* SQL NULL and Go's nil: never expires, never accessed, no text
    Second      \* ticks in a second

(* NULL is not a time, and a second has a length. *)
ASSUME ColumnsAssumption == Null \notin Int /\ Second \in Nat \ {0}

Time == Nat \cup {Null}

(* The fields a payer may be let to change in Swish. *)
Fields == {"payee", "amount", "message"}

(* Time.Truncate(time.Second), for times that are not NULL. *)
WholeSeconds(t) == Second * (t \div Second)
=============================================================================
