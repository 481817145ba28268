--------------------------- MODULE MCCreateRequest ---------------------------
(***************************************************************************)
(* validate on every combination of field values around its limits, with   *)
(* the limits of create.go, against the rules as the API promises them.    *)
(* An hour stands for a second, since all three lengths of time are whole  *)
(* hours and in seconds the longest is beyond TLC's integers.              *)
(***************************************************************************)
EXTENDS CreateRequest

CONSTANTS
    Numbers,    \* the phone numbers
    Texts       \* the messages that are not blank

VARIABLES
    request,    \* the decoded body
    now,        \* when it is validated
    result      \* what is stored, the problem reported, or nothing yet

vars == <<request, now, result>>

Amounts == {Absent, Empty} \cup {Number(n) : n \in {-1, 0, 1, MaxAmount, MaxAmount + 1}}

Phones == [kind : PhoneKinds, payee : Numbers]

Messages ==
    [units : {0, MaxMessageLength, MaxMessageLength + 1}, text : {Null}]
        \cup [units : {1, MaxMessageLength, MaxMessageLength + 1}, text : Texts]

Expiries == {Absent, Empty} \cup {Number(n) : n \in
    {-1, 0, 1, DefaultExpiry, LongExpiry - 1, LongExpiry, MaxExpiry, MaxExpiry + 1}}

Flags == {[f \in Fields |-> Null], [f \in Fields |-> f # "message"]}

Bodies == [amount : Amounts, phone : Phones, message : Messages,
           expire : Expiries, editable : Flags] \cup {Null}

Init ==
    /\ request \in Bodies
    /\ now \in {0, 7}
    /\ result = Null

Validate ==
    /\ result = Null
    /\ result' = IF Valid(request, now) THEN newSwosh(request, now)
                 ELSE [problem |-> IF request = Null THEN "api.badinput" ELSE Problem(request, now)]
    /\ UNCHANGED <<request, now>>

Spec == Init /\ [][Validate]_vars

-----------------------------------------------------------------------------
Stored == result # Null /\ "content" \in DOMAIN result

Refused == result # Null /\ "problem" \in DOMAIN result

(* How long the request wants the link to last, however it says so. *)
Lifetime ==
    CASE request.expire = Absent -> DefaultExpiry
      [] request.expire \in {Empty, Number(0)} -> Null
      [] OTHER -> request.expire.value

(* A stored link can be paid, expires after it is made and when it was     *)
(* asked to, and can be told apart: without a message it lasts less than   *)
(* half a year (create.go, validate and expiresOn).                        *)
StoredLinkIsSound == Stored =>
    /\ result.content.amount \in 1..MaxAmount
    /\ request.phone.kind \in {"swish", "mobile"}
    /\ result.expires = IF Lifetime = Null THEN Null ELSE now + Second * Lifetime
    /\ result.expires # Null => result.expires > now
    /\ result.content.description = Null =>
            result.expires # Null /\ result.expires < now + Second * LongExpiry
    /\ result.editable \in {{"message"}, {"payee", "amount"}}

(* Nothing is refused that the rules allow: for every combination that is  *)
(* refused, one of them is broken.                                         *)
RefusedWithReason == Refused =>
    \/ request = Null
    \/ ~request.amount.valid
    \/ request.amount.value \notin 1..MaxAmount
    \/ request.phone.kind \notin {"swish", "mobile"}
    \/ request.message.units > MaxMessageLength
    \/ Lifetime # Null /\ Lifetime \notin 1..MaxExpiry
    \/ request.message.text = Null /\ (Lifetime = Null \/ Lifetime >= LongExpiry)
=============================================================================
