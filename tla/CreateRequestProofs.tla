------------------------- MODULE CreateRequestProofs -------------------------
(***************************************************************************)
(* For any limits, numbers and messages: what validate lets through is     *)
(* sound, and what it refuses breaks one of the rules.                     *)
(***************************************************************************)
EXTENDS MCCreateRequest, TLAPS

IntField == {Absent, Empty} \cup {Number(n) : n \in Int}

(* What is reported is about the request that was read. *)
IInv ==
    /\ request \in Bodies
    /\ now \in Nat
    /\ result # Null =>
        \/ Valid(request, now) /\ result = newSwosh(request, now)
        \/ ~Valid(request, now) /\ \E problem : result = [problem |-> problem]

LEMMA InitInv == Init => IInv
BY DEF Init, IInv

LEMMA StepInv == IInv /\ [Validate]_vars => IInv'
<1> SUFFICES ASSUME IInv, [Validate]_vars PROVE IInv'
    OBVIOUS
<1>1. CASE Validate
    <2>1. request' = request /\ now' = now
        BY <1>1 DEF Validate
    <2>2. \/ Valid(request, now) /\ result' = newSwosh(request, now)
          \/ ~Valid(request, now) /\ \E problem : result' = [problem |-> problem]
        BY <1>1, Zenon DEF Validate
    <2>3. \/ Valid(request, now)' /\ result' = newSwosh(request, now)'
          \/ ~Valid(request, now)' /\ \E problem : result' = [problem |-> problem]
        BY <2>1, <2>2
    <2> QED BY <2>1, <2>3 DEF IInv
<1>2. CASE UNCHANGED vars
    BY <1>2 DEF vars, IInv
<1> QED BY <1>1, <1>2

(* What was read and what was made of it go together (create). *)
THEOREM Invariant == Spec => []IInv
BY InitInv, StepInv, PTL DEF Spec

-----------------------------------------------------------------------------
\* The parts of a request.

LEMMA BodyFields ==
    ASSUME IInv, request # Null
    PROVE  /\ request.amount \in IntField /\ request.expire \in IntField
           /\ request.phone.kind \in PhoneKinds
           /\ request.editable \in Flags
<1>1. /\ request.amount \in Amounts /\ request.expire \in Expiries
      /\ request.phone \in Phones /\ request.editable \in Flags
    BY DEF IInv, Bodies
<1>2. MaxAmount \in Int /\ DefaultExpiry \in Int /\ LongExpiry \in Int /\ MaxExpiry \in Int
    BY LimitsAssumption
<1>3. Amounts \subseteq IntField /\ Expiries \subseteq IntField
    BY <1>2 DEF Amounts, Expiries, IntField
<1> QED BY <1>1, <1>3 DEF Phones

(* The ways to say how long a link is to last, and what is made of each. *)
LEMMA ExpiryCases ==
    ASSUME request.expire \in IntField
    PROVE  \/ /\ ~AskedForever(request) /\ ExpireAfter(request) \in Int \ {0}
              /\ Lifetime = ExpireAfter(request)
              /\ request.expire = Absent => ExpireAfter(request) = DefaultExpiry
           \/ AskedForever(request) /\ Lifetime = Null
<1>1. CASE request.expire = Absent
    <2>1. ~AskedForever(request) /\ ExpireAfter(request) = DefaultExpiry
        BY <1>1 DEF AskedForever, ExpireAfter, Absent
    <2>2. request.expire \notin {Empty, Number(0)}
        BY <1>1 DEF Absent, Empty, Number
    <2>3. Lifetime = DefaultExpiry
        BY <1>1, <2>2 DEF Lifetime
    <2> QED BY <2>1, <2>3, LimitsAssumption
<1>2. CASE request.expire \in {Empty, Number(0)}
    <2>1. AskedForever(request) /\ request.expire # Absent
        BY <1>2 DEF AskedForever, Empty, Number, Absent
    <2> QED BY <1>2, <2>1 DEF Lifetime
<1>3. CASE request.expire \notin {Absent, Empty, Number(0)}
    <2>1. PICK n \in Int : request.expire = Number(n)
        BY <1>3 DEF IntField
    <2>2. n # 0 /\ request.expire # Absent
        BY <1>3, <2>1
    <2>3. ~AskedForever(request) /\ ExpireAfter(request) = n
        BY <2>1, <2>2 DEF AskedForever, ExpireAfter, Number
    <2>4. request.expire.value = n
        BY <2>1 DEF Number
    <2>5. Lifetime = n
        BY <1>3, <2>4 DEF Lifetime
    <2> QED BY <2>2, <2>3, <2>5
<1> QED BY <1>1, <1>2, <1>3

LEMMA PhoneCases ==
    ASSUME request.phone.kind \in PhoneKinds
    PROVE  PhoneProblem(request.phone) = "none" <=> request.phone.kind \in {"swish", "mobile"}
BY DEF PhoneProblem, PhoneKinds

LEMMA AmountCases ==
    ASSUME request.amount \in IntField, request.amount.valid
    PROVE  request.amount.value \in Int
BY DEF IntField, Absent, Empty, Number

(* When a link expires, and whether that is long from now. *)
LEMMA ExpiryTimes ==
    ASSUME IInv, request # Null
    PROVE  /\ Lifetime = Null => expiresOn(request, now) = Null
           /\ Lifetime # Null =>
                /\ Lifetime \in Int \ {0}
                /\ expiresOn(request, now) = now + Second * Lifetime
                /\ expiresOn(request, now) \in Int
           /\ Lasts(expiresOn(request, now), now) <=> Lifetime = Null \/ Lifetime >= LongExpiry
<1>1. now \in Int /\ Second \in Nat \ {0} /\ LongExpiry \in Nat /\ Null \notin Int
    BY ColumnsAssumption, LimitsAssumption DEF IInv
<1>2. CASE AskedForever(request) /\ Lifetime = Null
    BY <1>2 DEF expiresOn, Lasts
<1>3. CASE ~AskedForever(request) /\ ExpireAfter(request) \in Int \ {0} /\ Lifetime = ExpireAfter(request)
    <2>1. PICK n \in Int \ {0} : n = Lifetime
        BY <1>3
    <2>2. PICK span \in Int : span = Second * n
        BY <1>1
    <2>3. expiresOn(request, now) = now + span
        BY <1>3, <2>1, <2>2 DEF expiresOn
    <2>4. expiresOn(request, now) # Null /\ expiresOn(request, now) - now = span
        BY <1>1, <2>3
    <2>5. span >= Second * LongExpiry <=> n >= LongExpiry
        BY <1>1, <2>2
    <2>6. Lasts(expiresOn(request, now), now) <=> n >= LongExpiry
        BY <2>4, <2>5 DEF Lasts
    <2> QED BY <1>1, <2>1, <2>2, <2>3, <2>6
<1> QED BY <1>2, <1>3, BodyFields, ExpiryCases

LEMMA InvSound == IInv => StoredLinkIsSound
<1> SUFFICES ASSUME IInv, Stored
             PROVE  /\ result.content.amount \in 1..MaxAmount
                    /\ request.phone.kind \in {"swish", "mobile"}
                    /\ result.expires = IF Lifetime = Null THEN Null ELSE now + Second * Lifetime
                    /\ result.expires # Null => result.expires > now
                    /\ result.content.description = Null =>
                            result.expires # Null /\ result.expires < now + Second * LongExpiry
                    /\ result.editable \in {{"message"}, {"payee", "amount"}}
    BY DEF StoredLinkIsSound
<1>1. Valid(request, now) /\ result = newSwosh(request, now)
    <2>1. ASSUME NEW problem, result = [problem |-> problem] PROVE FALSE
        <3>1. DOMAIN result = {"problem"}
            BY <2>1
        <3> QED BY <3>1 DEF Stored
    <2> QED BY <2>1 DEF IInv, Stored
<1>2. request # Null /\ Problem(request, now) = "none"
    BY <1>1 DEF Valid
<1>3. /\ request.amount.valid
      /\ ~(request.amount.value < 1) /\ ~(request.amount.value > MaxAmount)
      /\ PhoneProblem(request.phone) = "none"
      /\ ~BadExpiry(request)
      /\ ~(request.message.text = Null /\ Lasts(expiresOn(request, now), now))
    BY <1>2 DEF Problem
<1>4. /\ result.content.amount = request.amount.value
      /\ result.content.description = request.message.text
      /\ result.expires = expiresOn(request, now)
      /\ result.editable = EditableIn(request)
    BY <1>1 DEF newSwosh, ContentOf
<1>5. result.content.amount \in 1..MaxAmount
    BY <1>2, <1>3, <1>4, BodyFields, AmountCases, LimitsAssumption
<1>6. request.phone.kind \in {"swish", "mobile"}
    BY <1>2, <1>3, BodyFields, PhoneCases
<1>7. result.expires = IF Lifetime = Null THEN Null ELSE now + Second * Lifetime
    BY <1>2, <1>4, ExpiryTimes
<1>8. Lifetime # Null => Lifetime \in 1..MaxExpiry
    BY <1>2, <1>3, BodyFields, ExpiryCases, LimitsAssumption DEF BadExpiry
<1>9. result.expires # Null => result.expires > now
    <2>1. ASSUME Lifetime # Null PROVE now + Second * Lifetime > now
        <3>1. PICK n \in Nat \ {0} : n = Lifetime
            BY <1>8, <2>1, LimitsAssumption
        <3>2. Second * n > 0
            BY ColumnsAssumption
        <3> QED BY <3>1, <3>2, ColumnsAssumption DEF IInv
    <2> QED BY <1>7, <2>1
<1>10. ASSUME result.content.description = Null
       PROVE  result.expires # Null /\ result.expires < now + Second * LongExpiry
    <2>1. Lifetime # Null /\ ~(Lifetime >= LongExpiry)
        BY <1>2, <1>3, <1>4, <1>10, ExpiryTimes
    <2>2. PICK n \in Nat : n = Lifetime /\ n < LongExpiry
        BY <1>8, <2>1, LimitsAssumption
    <2>3. Second * n < Second * LongExpiry /\ Second * n \in Int /\ Second * LongExpiry \in Int
        BY <2>2, ColumnsAssumption, LimitsAssumption
    <2>4. result.expires = now + Second * n
        BY <1>7, <2>1, <2>2
    <2> QED BY <2>3, <2>4, ColumnsAssumption DEF IInv
<1>11. result.editable \in {{"message"}, {"payee", "amount"}}
    <2>1. request.editable \in Flags
        BY <1>2, BodyFields
    <2>2. \/ request.editable = [f \in Fields |-> Null]
          \/ request.editable = [f \in Fields |-> f # "message"]
        BY <2>1 DEF Flags
    <2>3. CASE request.editable = [f \in Fields |-> Null]
        <3>1. EditableIn(request) = {"message"}
            BY <2>3 DEF EditableIn, orDefault, Fields
        <3> QED BY <1>4, <3>1
    <2>4. CASE request.editable = [f \in Fields |-> f # "message"]
        <3>1. EditableIn(request) = {"payee", "amount"}
            BY <2>4, FlagsAssumption DEF EditableIn, orDefault, Fields
        <3> QED BY <1>4, <3>1
    <2> QED BY <2>2, <2>3, <2>4
<1> QED BY <1>5, <1>6, <1>7, <1>9, <1>10, <1>11

(* A link that is stored is within the limits, expires when it was asked    *)
(* to, and has a message if it lasts, for every choice of the limits        *)
(* (validate, newSwosh).                                                    *)
THEOREM StoredLinksAreSound == Spec => []StoredLinkIsSound
BY Invariant, InvSound, PTL

LEMMA InvReason == IInv => RefusedWithReason
<1> SUFFICES ASSUME IInv, Refused, request # Null, request.amount.valid,
                    request.amount.value \in 1..MaxAmount,
                    request.phone.kind \in {"swish", "mobile"},
                    ~(request.message.units > MaxMessageLength),
                    ~(Lifetime # Null /\ Lifetime \notin 1..MaxExpiry),
                    ~(request.message.text = Null /\ (Lifetime = Null \/ Lifetime >= LongExpiry))
             PROVE  FALSE
    BY DEF RefusedWithReason
<1>1. ~Valid(request, now)
    <2>1. ASSUME result = newSwosh(request, now) PROVE FALSE
        <3>1. DOMAIN result = {"content", "editable", "expires"}
            BY <2>1 DEF newSwosh
        <3> QED BY <3>1 DEF Refused
    <2> QED BY <2>1 DEF IInv, Refused
<1>2. request.phone.kind # "blank" /\ PhoneProblem(request.phone) = "none"
    BY BodyFields, PhoneCases
<1>3. ~(request.amount.value < 1) /\ ~(request.amount.value > MaxAmount)
    BY LimitsAssumption
<1>4. ~BadExpiry(request)
    BY BodyFields, ExpiryCases, LimitsAssumption, ColumnsAssumption DEF BadExpiry
<1>5. ~(request.message.text = Null /\ Lasts(expiresOn(request, now), now))
    BY ExpiryTimes
<1>6. Problem(request, now) = "none"
    BY <1>2, <1>3, <1>4, <1>5 DEF Problem
<1> QED BY <1>1, <1>6 DEF Valid

(* Nothing is refused that keeps every rule, for every choice of the limits *)
(* (validate).                                                              *)
THEOREM RefusalsHaveReasons == Spec => []RefusedWithReason
BY Invariant, InvReason, PTL
=============================================================================
