---------------------------- MODULE MCCreateForm ----------------------------
(***************************************************************************)
(* Four numbers of which two are the same written in two ways, and forms   *)
(* that are right, that the page refuses, and that only the server does.   *)
(***************************************************************************)
EXTENDS CreateForm

CONSTANTS p, q, r, m

Phone(text, key, kind) == [text |-> text, key |-> key, kind |-> kind, payee |-> key]

Form(phone, amount, message, expire) ==
    [phone |-> phone, amount |-> amount, message |-> message, expire |-> expire]

Spaced == Phone(0, p, "mobile")
Plain == Phone(1, p, "mobile")
Other == Phone(2, q, "swish")
Third == Phone(3, r, "mobile")
Abroad == Phone(4, r, "other")
Nothing == Phone(5, Null, "blank")

MCEmptyForm == Form(Nothing, Null, Null, DefaultExpiry)

Right == {
    Form(Spaced, MaxAmount, Null, DefaultExpiry),
    Form(Plain, 1, m, Null),
    Form(Other, 1, m, LongExpiry)}

MCForms == Right \cup {
    MCEmptyForm,
    Form(Third, 1, Null, DefaultExpiry),
    Form(Other, 1, Null, LongExpiry),
    Form(Abroad, 1, m, DefaultExpiry),
    Form(Spaced, MaxAmount + 1, m, DefaultExpiry),
    Form(Plain, 0, m, DefaultExpiry)}

(* What two tabs need to get in each other's way. *)
TwoForms == {MCEmptyForm} \cup Right
=============================================================================
