------------------------------ MODULE MCSwosh ------------------------------
(***************************************************************************)
(* Small instances of the service for TLC.  A second is two ticks, so that *)
(* a link can expire within a second or at a whole one.                    *)
(***************************************************************************)
EXTENDS Swosh, TLC

CONSTANTS
    a, b, c,    \* ids
    p, q,       \* payees
    m           \* a message

-----------------------------------------------------------------------------
\* The links there are to begin with.

Plain(payee) == [payee |-> payee, amount |-> 1, description |-> Null]

Described == [payee |-> p, amount |-> 1, description |-> m]

MCContents == {Plain(p), Plain(q), Described}

StoredRow(expires, serial) ==
    [content |-> Plain(p), editable |-> {"message"}, expires |-> expires,
     serial |-> serial, accessed |-> Null]

NoLinks == [i \in Ids |-> NoRow]

(* A link that expires within a second, and one that does not expire. *)
TwoLinks == {[NoLinks EXCEPT ![a] = StoredRow(1, 1), ![b] = StoredRow(Null, 2)]}

OneLink == {[NoLinks EXCEPT ![a] = StoredRow(1, 1)]}

-----------------------------------------------------------------------------
\* What is asked of the service.

FormOf(newId, content, expires) ==
    [originalId |-> Null, newId |-> newId, content |-> content, expiresOn |-> expires]

(* Renames and plain edits, with and without an expiry to set. *)
Renames == {FormOf(id, Plain(p), expires) : id \in Ids, expires \in {Missing, 2}}

(* One form for each thing params looks at. *)
AllForms == {
    FormOf(a, Plain(p), Missing),
    FormOf(c, Plain(q), Null),
    FormOf(b, Plain(p), 2),
    [FormOf(b, Plain(p), 0) EXCEPT !.originalId = a],
    FormOf(Null, Plain(p), Malformed)}

Request(text, expire) ==
    [amount |-> Number(1), phone |-> [kind |-> "mobile", payee |-> p],
     message |-> [units |-> 1, text |-> text],
     editable |-> [f \in Fields |-> Null], expire |-> expire]

(* A link for the default time, one forever, a bad request and no request. *)
MCRequests == {Request(Null, Absent), Request(m, Empty), Request(m, Number(0 - 1)), Null}

-----------------------------------------------------------------------------
EditorSymmetry == Permutations(Editors)
=============================================================================
