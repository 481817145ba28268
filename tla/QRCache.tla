------------------------------ MODULE QRCache ------------------------------
(***************************************************************************)
(* The QR codes of src/internal/swish/qr.go and the page that shows them   *)
(* (qr in src/internal/web/web.go): the codes that Swish makes are kept in *)
(* memory, by payment, and the least recently used one goes when there is  *)
(* no more room.  Requests overlap, links are edited meanwhile, and Swish  *)
(* answers with errors, breaks off or does not answer at all.              *)
(*                                                                         *)
(* A picture is modelled by the payment that it shows.                     *)
(***************************************************************************)
EXTENDS Integers, SequencesExt

CONSTANTS
    Links,      \* ids of links
    Rows,       \* the rows that links can have
    Calls,      \* the requests that can be in progress at a time
    CacheSize,  \* qrCacheSize
    Null,       \* no description in a row
    Blank,      \* the message of a payment without a description
    NoCode,     \* a body that is no code: an error page, or part of a picture
    Failed      \* the page's answer that it could not get a code

(* Payment.  editable are the fields that the payer may change. *)
Payment(payee, amount, message, editable) ==
    [payee |-> payee, amount |-> amount, message |-> message, editable |-> editable]

(* payment: a row without a description has an empty message. *)
payment(row) ==
    Payment(row.payee, row.amount,
            IF row.description = Null THEN Blank ELSE row.description, row.editable)

Payments == {payment(row) : row \in Rows}

ASSUME QRAssumption ==
    /\ CacheSize \in Nat \ {0}
    /\ {NoCode, Failed} \cap Payments = {}
    /\ NoCode # Failed

VARIABLES
    rows,       \* the links, as lookup finds them
    cache,      \* the codes in memory, the most recently used first
    calls       \* the requests in progress

vars == <<rows, cache, calls>>

Idle == [step |-> "idle", payment |-> Failed, png |-> Failed]

(* What a response's body can be. *)
Bodies == Payments \cup {NoCode}

(* A request: first at the cache, then at Swish, then with its answer.      *)
Asking ==
    [step : {"get", "fetch", "serve"}, payment : Payments, png : Bodies \cup {Failed}]

(* What can come back from Swish for a payment: a status, a body, and       *)
(* whether the body could be read to its end.  It is the code if all went   *)
(* well.                                                                    *)
Responses(p) ==
    {response \in [status : {"OK", "other"}, body : {p, NoCode}, whole : BOOLEAN] :
        response.body = p <=> response.status = "OK" /\ response.whole}

Init ==
    /\ rows \in [Links -> Rows]
    /\ cache = <<>>
    /\ calls = [c \in Calls |-> Idle]

-----------------------------------------------------------------------------
\* The cache, golang-lru's.

Entries == [key : Payments, png : Bodies]

(* Wrong: what the payer may change is not in the key. *)
KeyWithoutFlags(p) == [p EXCEPT !.editable = {}]

(* The key of the cache: a payment as a whole. *)
CacheKey(p) == p

Position(key) == CHOOSE i \in DOMAIN cache : cache[i].key = key

Cached(key) == \E i \in DOMAIN cache : cache[i].key = key

(* What is left if the entry of the key, if there is one, is taken out. *)
Without(key) == IF Cached(key) THEN RemoveAt(cache, Position(key)) ELSE cache

(* Wrong: takes the key for a new one. *)
InFront(entry) ==
    LET all == <<entry>> \o cache
    IN  IF Len(all) > CacheSize THEN SubSeq(all, 1, CacheSize) ELSE all

(* The entry in front, in the place of an older one of its key, and the     *)
(* last one gone if they are too many.                                      *)
Fronted(entry) ==
    LET all == <<entry>> \o Without(entry.key)
    IN  IF Len(all) > CacheSize THEN SubSeq(all, 1, CacheSize) ELSE all

-----------------------------------------------------------------------------
\* A request for the code of a link.

Served(call, png) == [step |-> "serve", payment |-> call.payment, png |-> png]

Move(c, call) == calls' = [calls EXCEPT ![c] = call]

(* qr: the link is looked up and its payment made of the row. *)
QRLookup(c) ==
    /\ calls[c] = Idle
    /\ \E link \in Links :
        Move(c, [step |-> "get", payment |-> payment(rows[link]), png |-> Failed])
    /\ UNCHANGED <<rows, cache>>

(* PNG: the cache has the code, which becomes its most recently used. *)
QRHit(c) ==
    /\ calls[c].step = "get"
    /\ LET key == CacheKey(calls[c].payment) IN
        /\ Cached(key)
        /\ Move(c, Served(calls[c], cache[Position(key)].png))
        /\ cache' = Fronted(cache[Position(key)])
    /\ UNCHANGED rows

(* PNG: it does not, and Swish is asked. *)
QRMiss(c) ==
    /\ calls[c].step = "get"
    /\ ~Cached(CacheKey(calls[c].payment))
    /\ Move(c, [calls[c] EXCEPT !.step = "fetch"])
    /\ UNCHANGED <<rows, cache>>

(* Wrong: takes any answer for a code. *)
AcceptsAnyStatus(response) == response.whole

(* The response is a code. *)
Accepts(response) == response.status = "OK" /\ response.whole

(* PNG: Swish answered with the code, which is kept.  Another request may   *)
(* have stored it meanwhile.                                                *)
QRFetched(c) ==
    /\ calls[c].step = "fetch"
    /\ \E response \in Responses(calls[c].payment) :
        /\ Accepts(response)
        /\ Move(c, Served(calls[c], response.body))
        /\ cache' = Fronted([key |-> CacheKey(calls[c].payment), png |-> response.body])
    /\ UNCHANGED rows

(* Wrong: asks again. *)
Retries(c) ==
    /\ calls[c].step = "fetch"
    /\ Move(c, [calls[c] EXCEPT !.step = "get"])
    /\ UNCHANGED <<rows, cache>>

(* PNG: Swish answered with an error or broke off, the client of ours gave  *)
(* up after its Timeout, or the visitor went away.                          *)
QRFailed(c) ==
    /\ calls[c].step = "fetch"
    /\ Move(c, Served(calls[c], Failed))
    /\ UNCHANGED <<rows, cache>>

QRServe(c) ==
    /\ calls[c].step = "serve"
    /\ Move(c, Idle)
    /\ UNCHANGED <<rows, cache>>

(* PNG after the lookup. *)
QRGoesOn(c) == QRHit(c) \/ QRMiss(c) \/ QRFetched(c) \/ QRFailed(c) \/ QRServe(c)

(* An admin edits a link. *)
EditLink ==
    /\ \E link \in Links, row \in Rows : rows' = [rows EXCEPT ![link] = row]
    /\ UNCHANGED <<cache, calls>>

Next == EditLink \/ \E c \in Calls : QRLookup(c) \/ QRGoesOn(c)

(* A goroutine goes on; what asks Swish ends by its Timeout.                *)
Fairness == \A c \in Calls : WF_vars(QRGoesOn(c))

Spec == Init /\ [][Next]_vars

FairSpec == Spec /\ Fairness

-----------------------------------------------------------------------------
\* Properties.

(* Rows, cache and requests keep their shape. *)
TypeOK ==
    /\ rows \in [Links -> Rows]
    /\ cache \in Seq(Entries)
    /\ calls \in [Calls -> Asking \cup {Idle}]

(* Whatever requests overlap and however Swish fails, PNG keeps each code   *)
(* at most once, no more than qrCacheSize of them, and under the payment    *)
(* that it shows in everything, what the payer may change included.         *)
CacheIsSound ==
    /\ Len(cache) <= CacheSize
    /\ \A i \in DOMAIN cache : cache[i].key = cache[i].png
    /\ \A i, j \in DOMAIN cache : cache[i].key = cache[j].key => i = j

(* The links and the requests as QRPromise sees them. *)
current == [link \in Links |-> payment(rows[link])]

Asked(call) ==
    [payment |-> call.payment,
     answer |-> IF call.step = "serve" THEN call.png ELSE Failed,
     state |-> CASE call.step = "idle" -> "none"
               [] call.step = "serve" -> "answered"
               [] OTHER -> "waiting"]

asked == [c \in Calls |-> Asked(calls[c])]

Promise == INSTANCE QRPromise

(* The QR page, cache and all, implements QRPromise: a code shown is the    *)
(* one of the payment that the link stood for when lookup found it, however *)
(* often the link and the cache changed.                                    *)
KeepsPromise == Promise!Spec

(* Every request for a code is answered, whatever Swish does. *)
CallsEnd == \A c \in Calls : calls[c].step = "get" ~> calls[c] = Idle
=============================================================================
