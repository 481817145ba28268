----------------------------- MODULE QRPromise -----------------------------
(***************************************************************************)
(* What the QR page of a link promises, with nothing said of a cache: who  *)
(* asks is shown the code of the payment that the link stood for when they *)
(* asked, in all that Swish puts into a code, or is told that there is     *)
(* none to be had.                                                         *)
(***************************************************************************)
CONSTANTS
    Calls,      \* the requests that can be in progress at a time
    Payments,   \* all that a code can show
    Failed      \* the answer that there is no code

VARIABLES
    current,    \* by link, what its rows stand for
    asked       \* by request, the payment it is about and the answer it got

NobodyAsked == [payment |-> Failed, answer |-> Failed, state |-> "none"]

Init == asked = [c \in Calls |-> NobodyAsked]

(* c asks for the code of a link. *)
Ask(c) ==
    /\ asked[c].state = "none"
    /\ \E link \in DOMAIN current : asked' =
        [asked EXCEPT ![c] = [payment |-> current[link], answer |-> Failed, state |-> "waiting"]]
    /\ UNCHANGED current

(* c is answered, with the code it asked for or with none. *)
Answer(c) ==
    /\ asked[c].state = "waiting"
    /\ \E answer \in {asked[c].payment, Failed} :
        asked' = [asked EXCEPT ![c] =
            [payment |-> asked[c].payment, answer |-> answer, state |-> "answered"]]
    /\ UNCHANGED current

Leave(c) ==
    /\ asked[c].state = "answered"
    /\ asked' = [asked EXCEPT ![c] = NobodyAsked]
    /\ UNCHANGED current

(* An admin edits links. *)
Edit == UNCHANGED asked

Next == Edit \/ \E c \in Calls : Ask(c) \/ Answer(c) \/ Leave(c)

Spec == Init /\ [][Next]_<<asked, current>>
=============================================================================
