----------------------------- MODULE MCQRCache -----------------------------
(***************************************************************************)
(* Two links, four rows for as many payments of which two differ only in   *)
(* what the payer may change, and a cache that holds two codes.            *)
(***************************************************************************)
EXTENDS QRCache

CONSTANTS p, q, m

Row(payee, description, editable) ==
    [payee |-> payee, amount |-> 1, description |-> description, editable |-> editable]

MCRows == {Row(p, m, {}), Row(p, m, {"message"}), Row(q, Null, {"message"}),
           Row(q, m, {"message"})}
=============================================================================
