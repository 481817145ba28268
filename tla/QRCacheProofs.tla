--------------------------- MODULE QRCacheProofs ---------------------------
(***************************************************************************)
(* For any links, rows, number of requests and size of the cache: the      *)
(* cache is sound, and the page implements QRPromise.                      *)
(***************************************************************************)
EXTENDS QRCache, SequenceTheorems, TLAPS

(* A sequence without its i-th element. *)
LEMMA WithoutOne ==
    ASSUME NEW S, NEW s \in Seq(S), NEW i \in DOMAIN s
    PROVE  /\ RemoveAt(s, i) \in Seq(S)
           /\ Len(RemoveAt(s, i)) = Len(s) - 1
           /\ \A k \in 1 .. Len(s) - 1 :
                RemoveAt(s, i)[k] = IF k < i THEN s[k] ELSE s[k + 1]
<1> DEFINE front == SubSeq(s, 1, i - 1)
           back == SubSeq(s, i + 1, Len(s))
<1>1. i \in 1 .. Len(s) /\ Len(s) \in Nat
    OBVIOUS
<1>2. /\ front \in Seq(S) /\ Len(front) = i - 1
      /\ \A k \in 1 .. i - 1 : front[k] = s[k]
    BY <1>1
<1>3. /\ back \in Seq(S) /\ Len(back) = Len(s) - i
      /\ \A k \in 1 .. Len(s) - i : back[k] = s[i + k]
    BY <1>1
<1> HIDE DEF front, back
<1>4. RemoveAt(s, i) = front \o back
    BY DEF RemoveAt, front, back
<1>5. /\ front \o back \in Seq(S)
      /\ Len(front \o back) = Len(s) - 1
      /\ \A k \in 1 .. Len(s) - 1 : (front \o back)[k] =
            IF k <= i - 1 THEN front[k] ELSE back[k - (i - 1)]
    <2>1. Len(front) + Len(back) = Len(s) - 1
        BY <1>1, <1>2, <1>3
    <2>2. /\ front \o back \in Seq(S)
          /\ Len(front \o back) = Len(front) + Len(back)
          /\ \A k \in 1 .. Len(front) + Len(back) : (front \o back)[k] =
                IF k <= Len(front) THEN front[k] ELSE back[k - Len(front)]
        BY <1>2, <1>3, ConcatProperties
    <2>3. Len(front) = i - 1
        BY <1>2
    <2> QED
        BY <2>1, <2>2, <2>3
<1>6. ASSUME NEW k \in 1 .. Len(s) - 1
      PROVE  (front \o back)[k] = IF k < i THEN s[k] ELSE s[k + 1]
    <2>1. CASE k < i
        BY <2>1, <1>1, <1>2, <1>5
    <2>2. CASE ~(k < i)
        <3> DEFINE j == k - (i - 1)
        <3>1. j \in 1 .. Len(s) - i /\ i + j = k + 1
            BY <2>2, <1>1
        <3>2. (front \o back)[k] = back[j]
            BY <2>2, <1>1, <1>5
        <3> QED
            BY <3>1, <3>2, <2>2, <1>3
    <2> QED
        BY <2>1, <2>2
<1> QED
    BY <1>4, <1>5, <1>6

-----------------------------------------------------------------------------
\* The cache after a use.

(* What is left has entries of the cache only, each where it was or one     *)
(* place further in front, and none of the key.                             *)
LEMMA WithoutKey ==
    ASSUME cache \in Seq(Entries), CacheIsSound, NEW key
    PROVE  /\ Without(key) \in Seq(Entries)
           /\ Len(Without(key)) <= Len(cache)
           /\ \A k \in DOMAIN Without(key) :
                /\ Without(key)[k].key # key
                /\ \E l \in DOMAIN cache : Without(key)[k] = cache[l]
           /\ \A k, l \in DOMAIN Without(key) :
                Without(key)[k].key = Without(key)[l].key => k = l
<1>1. CASE ~Cached(key)
    BY <1>1 DEF Without, Cached, CacheIsSound
<1>2. CASE Cached(key)
    <2> DEFINE i == Position(key)
               rest == RemoveAt(cache, i)
    <2>1. i \in DOMAIN cache /\ cache[i].key = key
        BY <1>2 DEF Cached, Position
    <2>2. Without(key) = rest
        BY <1>2 DEF Without
    <2> HIDE DEF i
    <2>3. /\ rest \in Seq(Entries)
          /\ Len(rest) = Len(cache) - 1
          /\ \A k \in 1 .. Len(cache) - 1 :
                rest[k] = IF k < i THEN cache[k] ELSE cache[k + 1]
        BY <2>1, WithoutOne
    <2> HIDE DEF rest
    <2> DEFINE Was(k) == IF k < i THEN k ELSE k + 1
    <2>4. /\ DOMAIN rest = 1 .. Len(cache) - 1
          /\ DOMAIN cache = 1 .. Len(cache)
          /\ Len(cache) \in Nat
        BY <2>3
    <2>5. ASSUME NEW k \in DOMAIN rest
          PROVE  Was(k) \in DOMAIN cache /\ Was(k) # i /\ rest[k] = cache[Was(k)]
        BY <2>1, <2>3, <2>4
    <2>6. ASSUME NEW k \in DOMAIN rest, NEW l \in DOMAIN rest, Was(k) = Was(l)
          PROVE  k = l
        BY <2>1, <2>4, <2>6
    <2> HIDE DEF Was
    <2>7. ASSUME NEW k \in DOMAIN rest
          PROVE  rest[k].key # key /\ \E l \in DOMAIN cache : rest[k] = cache[l]
        BY <2>1, <2>5 DEF CacheIsSound
    <2>8. ASSUME NEW k \in DOMAIN rest, NEW l \in DOMAIN rest, rest[k].key = rest[l].key
          PROVE  k = l
        BY <2>5, <2>6, <2>8 DEF CacheIsSound
    <2> QED
        BY <2>2, <2>3, <2>4, <2>7, <2>8
<1> QED
    BY <1>1, <1>2

(* A sound cache with a right entry in front is sound. *)
LEMMA FrontedIsSound ==
    ASSUME cache \in Seq(Entries), CacheIsSound,
           NEW entry \in Entries, entry.key = entry.png
    PROVE  /\ Fronted(entry) \in Seq(Entries)
           /\ cache' = Fronted(entry) => CacheIsSound'
<1> DEFINE rest == Without(entry.key)
           all == <<entry>> \o rest
<1>1. CacheSize \in Nat \ {0}
    BY QRAssumption
<1>2. /\ rest \in Seq(Entries)
      /\ \A k \in DOMAIN rest :
            /\ rest[k].key # entry.key
            /\ \E l \in DOMAIN cache : rest[k] = cache[l]
      /\ \A k, l \in DOMAIN rest : rest[k].key = rest[l].key => k = l
    BY WithoutKey
<1> HIDE DEF rest
<1>3. /\ all \in Seq(Entries)
      /\ Len(all) = Len(rest) + 1
      /\ DOMAIN all = 1 .. Len(rest) + 1
      /\ DOMAIN rest = 1 .. Len(rest)
      /\ Len(rest) \in Nat
      /\ \A k \in 1 .. Len(rest) + 1 :
            all[k] = IF k = 1 THEN entry ELSE rest[k - 1]
    BY <1>2
<1> HIDE DEF all
<1>4. \A k \in DOMAIN all : all[k].key = all[k].png
    <2> TAKE k \in DOMAIN all
    <2>1. CASE k = 1
        BY <2>1, <1>3
    <2>2. CASE k # 1
        <3>1. k - 1 \in DOMAIN rest /\ all[k] = rest[k - 1]
            BY <2>2, <1>3
        <3> QED
            BY <3>1, <1>2 DEF CacheIsSound
    <2> QED
        BY <2>1, <2>2
<1>5. \A k, l \in DOMAIN all : all[k].key = all[l].key => k = l
    <2> SUFFICES ASSUME NEW k \in DOMAIN all, NEW l \in DOMAIN all,
                        all[k].key = all[l].key
                 PROVE  k = l
        OBVIOUS
    <2>1. ASSUME NEW j \in DOMAIN all, j # 1
          PROVE  j - 1 \in DOMAIN rest /\ all[j] = rest[j - 1]
        BY <2>1, <1>3
    <2>2. all[1] = entry
        BY <1>3
    <2>3. CASE k = 1 /\ l # 1
        BY <2>1, <2>2, <2>3, <1>2
    <2>4. CASE k # 1 /\ l = 1
        BY <2>1, <2>2, <2>4, <1>2
    <2>5. CASE k # 1 /\ l # 1
        <3>1. k - 1 = l - 1
            BY <2>1, <2>5, <1>2
        <3> QED
            BY <3>1, <1>3
    <2> QED
        BY <2>3, <2>4, <2>5
<1>6. CASE Len(all) <= CacheSize
    <2>1. Fronted(entry) = all
        BY <1>6, <1>1, <1>3 DEF Fronted, all, rest
    <2> QED
        BY <2>1, <1>3, <1>4, <1>5, <1>6 DEF CacheIsSound
<1>7. CASE ~(Len(all) <= CacheSize)
    <2> DEFINE kept == SubSeq(all, 1, CacheSize)
    <2>1. Fronted(entry) = kept
        BY <1>7, <1>1, <1>3 DEF Fronted, all, rest
    <2>2. /\ kept \in Seq(Entries)
          /\ Len(kept) = CacheSize
          /\ DOMAIN kept = 1 .. CacheSize
          /\ \A k \in 1 .. CacheSize : k \in DOMAIN all /\ kept[k] = all[k]
        BY <1>7, <1>1, <1>3
    <2> HIDE DEF kept
    <2> QED
        BY <2>1, <2>2, <1>1, <1>4, <1>5 DEF CacheIsSound
<1> QED
    BY <1>6, <1>7

-----------------------------------------------------------------------------
\* Type and soundness.

IInv == TypeOK /\ CacheIsSound

(* A code that is served and is not Failed shows the payment asked for. *)
ServedRight ==
    \A c \in Calls : calls[c].step # "idle" => calls[c].png \in {calls[c].payment, Failed}

LEMMA InitSound == Init => IInv /\ ServedRight
<1> SUFFICES ASSUME Init PROVE IInv /\ ServedRight
    OBVIOUS
<1>1. cache \in Seq(Entries) /\ Len(cache) = 0 /\ DOMAIN cache = {}
    BY DEF Init
<1>2. CacheIsSound
    BY <1>1, QRAssumption DEF CacheIsSound
<1> QED
    BY <1>1, <1>2 DEF Init, IInv, TypeOK, ServedRight, Idle

(* A call moved to another place in the handler keeps the shape of calls. *)
LEMMA MoveShape ==
    ASSUME calls \in [Calls -> Asking \cup {Idle}], NEW c \in Calls,
           NEW call \in Asking \cup {Idle}, Move(c, call)
    PROVE  calls' \in [Calls -> Asking \cup {Idle}]
BY DEF Move

LEMMA CallShape ==
    ASSUME calls \in [Calls -> Asking \cup {Idle}], NEW c \in Calls,
           calls[c].step # "idle"
    PROVE  calls[c] \in Asking
BY DEF Idle

LEMMA NextSound == IInv /\ ServedRight /\ [Next]_vars => (IInv /\ ServedRight)'
<1> SUFFICES ASSUME IInv, ServedRight, [Next]_vars PROVE (IInv /\ ServedRight)'
    OBVIOUS
<1> USE DEF IInv
<1>1. CASE UNCHANGED vars
    BY <1>1 DEF vars, TypeOK, CacheIsSound, ServedRight
<1>2. CASE EditLink
    BY <1>2 DEF EditLink, TypeOK, CacheIsSound, ServedRight
<1>3. ASSUME NEW c \in Calls, QRLookup(c)
      PROVE  (IInv /\ ServedRight)'
    <2>1. PICK link \in Links :
            Move(c, [step |-> "get", payment |-> payment(rows[link]), png |-> Failed])
        BY <1>3 DEF QRLookup
    <2>2. payment(rows[link]) \in Payments
        BY DEF TypeOK, Payments
    <2>3. calls' \in [Calls -> Asking \cup {Idle}]
        BY <2>1, <2>2, MoveShape DEF TypeOK, Asking
    <2> QED
        BY <1>3, <2>1, <2>3 DEF QRLookup, Move, TypeOK, CacheIsSound, ServedRight
<1>4. ASSUME NEW c \in Calls, QRHit(c)
      PROVE  (IInv /\ ServedRight)'
    <2> DEFINE i == Position(calls[c].payment)
    <2>1. calls[c] \in Asking
        BY <1>4, CallShape DEF QRHit, TypeOK
    <2>2. i \in DOMAIN cache /\ cache[i].key = calls[c].payment
        BY <1>4 DEF QRHit, CacheKey, Cached, Position
    <2>3. /\ calls' = [calls EXCEPT ![c] = Served(calls[c], cache[i].png)]
          /\ cache' = Fronted(cache[i]) /\ rows' = rows
        BY <1>4 DEF QRHit, CacheKey, Move
    <2> HIDE DEF i
    <2>4. cache[i] \in Entries /\ cache[i].key = cache[i].png
        BY <2>2 DEF TypeOK, CacheIsSound
    <2>5. cache' \in Seq(Entries) /\ CacheIsSound'
        BY <2>3, <2>4, FrontedIsSound DEF TypeOK
    <2>6. Served(calls[c], cache[i].png) \in Asking
        BY <2>1, <2>2, <2>4 DEF Served, Asking, Bodies, Entries
    <2> QED
        BY <2>1, <2>2, <2>3, <2>4, <2>5, <2>6 DEF TypeOK, ServedRight, Served, Asking
<1>5. ASSUME NEW c \in Calls, QRMiss(c)
      PROVE  (IInv /\ ServedRight)'
    <2>1. calls[c] \in Asking
        BY <1>5, CallShape DEF QRMiss, TypeOK
    <2> QED
        BY <1>5, <2>1 DEF QRMiss, Move, TypeOK, CacheIsSound, ServedRight, Served, Asking
<1>6. ASSUME NEW c \in Calls, QRFetched(c)
      PROVE  (IInv /\ ServedRight)'
    <2> DEFINE p == calls[c].payment
    <2>1. calls[c] \in Asking
        BY <1>6, CallShape DEF QRFetched, TypeOK
    <2>2. /\ calls' = [calls EXCEPT ![c] = Served(calls[c], p)]
          /\ cache' = Fronted([key |-> p, png |-> p]) /\ rows' = rows
        BY <1>6 DEF QRFetched, Responses, Accepts, CacheKey, Move
    <2>3. p \in Payments
        BY <2>1 DEF Asking
    <2> HIDE DEF p
    <2>4. cache' \in Seq(Entries) /\ CacheIsSound'
        BY <2>2, <2>3, FrontedIsSound DEF TypeOK, Entries, Bodies
    <2>5. Served(calls[c], p) \in Asking
        BY <2>1, <2>3 DEF Served, Asking, Bodies
    <2> QED
        BY <2>1, <2>2, <2>3, <2>4, <2>5 DEF TypeOK, ServedRight, Served, Asking, p
<1>7. ASSUME NEW c \in Calls, QRFailed(c)
      PROVE  (IInv /\ ServedRight)'
    <2>1. calls[c] \in Asking
        BY <1>7, CallShape DEF QRFailed, TypeOK
    <2> QED
        BY <1>7, <2>1 DEF QRFailed, Move, TypeOK, CacheIsSound, ServedRight, Served, Asking
<1>8. ASSUME NEW c \in Calls, QRServe(c)
      PROVE  (IInv /\ ServedRight)'
    BY <1>8 DEF QRServe, Move, TypeOK, CacheIsSound, ServedRight, Idle
<1> QED
    BY <1>1, <1>2, <1>3, <1>4, <1>5, <1>6, <1>7, <1>8 DEF Next, QRGoesOn

LEMMA AlwaysSound == Spec => [](IInv /\ ServedRight)
BY InitSound, NextSound, PTL DEF Spec

(* Rows, cache and requests keep their shape. *)
THEOREM TypeCorrect == Spec => []TypeOK
BY AlwaysSound, PTL DEF IInv

(* PNG keeps a code once, under the payment that it shows in everything,    *)
(* and no more than qrCacheSize of them.                                    *)
THEOREM SoundCache == Spec => []CacheIsSound
BY AlwaysSound, PTL DEF IInv
-----------------------------------------------------------------------------
\* The refinement.

LEMMA MovedAsked ==
    ASSUME calls \in [Calls -> Asking \cup {Idle}], NEW c \in Calls, NEW call, Move(c, call)
    PROVE  asked' = [asked EXCEPT ![c] = Asked(call)]
BY DEF Move, asked, Asked

LEMMA NobodyIsIdle == Asked(Idle) = Promise!NobodyAsked
BY DEF Asked, Idle, Promise!NobodyAsked

LEMMA InitRefines == Init => Promise!Init
BY NobodyIsIdle DEF Init, Promise!Init, asked

LEMMA StepRefines ==
    ASSUME IInv, ServedRight, (IInv /\ ServedRight)', [Next]_vars
    PROVE  [Promise!Next]_<<asked, current>>
<1> USE DEF IInv
<1>1. CASE UNCHANGED vars
    BY <1>1 DEF vars, asked, Asked, current
<1>2. CASE EditLink
    BY <1>2 DEF EditLink, asked, Asked, Promise!Next, Promise!Edit
<1>3. ASSUME NEW c \in Calls, QRLookup(c)
      PROVE  Promise!Ask(c)
    <2>1. PICK link \in Links :
            Move(c, [step |-> "get", payment |-> payment(rows[link]), png |-> Failed])
        BY <1>3 DEF QRLookup
    <2>2. asked' = [asked EXCEPT ![c] =
            [payment |-> current[link], answer |-> Failed, state |-> "waiting"]]
        BY <2>1, MovedAsked DEF TypeOK, Asked, current
    <2>3. asked[c] = Promise!NobodyAsked
        BY <1>3, NobodyIsIdle DEF QRLookup, asked
    <2>4. current' = current /\ link \in DOMAIN current
        BY <1>3 DEF QRLookup, current
    <2>5. asked[c].state = "none"
        BY <2>3 DEF Promise!NobodyAsked
    <2> QED
        BY <2>2, <2>4, <2>5 DEF Promise!Ask
<1>4. ASSUME NEW c \in Calls, calls[c].step \in {"get", "fetch"}, rows' = rows,
             NEW png, Move(c, Served(calls[c], png))
      PROVE  Promise!Answer(c)
    <2>1. calls[c] \in Asking
        BY <1>4, CallShape DEF TypeOK
    <2>2. png \in {calls[c].payment, Failed}
        BY <1>4 DEF ServedRight, Move, Served, TypeOK
    <2>3. asked' = [asked EXCEPT ![c] = Asked(Served(calls[c], png))]
        BY <1>4, MovedAsked DEF TypeOK
    <2>4. Asked(Served(calls[c], png)) =
            [payment |-> calls[c].payment, answer |-> png, state |-> "answered"]
        BY DEF Asked, Served
    <2>5. asked[c] = [payment |-> calls[c].payment, answer |-> Failed, state |-> "waiting"]
        BY <1>4 DEF asked, Asked
    <2>6. asked' = [asked EXCEPT ![c] =
            [payment |-> asked[c].payment, answer |-> png, state |-> "answered"]]
        BY <2>3, <2>4, <2>5
    <2>7. UNCHANGED current
        BY <1>4 DEF current
    <2>8. asked[c].state = "waiting" /\ png \in {asked[c].payment, Failed}
        BY <2>2, <2>5
    <2> QED
        BY <2>6, <2>7, <2>8 DEF Promise!Answer
<1>5. ASSUME NEW c \in Calls, QRHit(c)
      PROVE  Promise!Answer(c)
    BY <1>4, <1>5 DEF QRHit
<1>6. ASSUME NEW c \in Calls, QRMiss(c)
      PROVE  UNCHANGED <<asked, current>>
    <2>1. calls[c] \in Asking
        BY <1>6, CallShape DEF QRMiss, TypeOK
    <2>2. Asked([calls[c] EXCEPT !.step = "fetch"]) = Asked(calls[c])
        BY <1>6, <2>1 DEF QRMiss, Asked, Asking
    <2>3. asked' = [asked EXCEPT ![c] = Asked(calls[c])]
        BY <1>6, <2>2, MovedAsked DEF QRMiss, TypeOK
    <2> QED
        BY <1>6, <2>3 DEF QRMiss, asked, current
<1>7. ASSUME NEW c \in Calls, QRFetched(c)
      PROVE  Promise!Answer(c)
    BY <1>4, <1>7 DEF QRFetched
<1>8. ASSUME NEW c \in Calls, QRFailed(c)
      PROVE  Promise!Answer(c)
    BY <1>4, <1>8 DEF QRFailed
<1>9. ASSUME NEW c \in Calls, QRServe(c)
      PROVE  Promise!Leave(c)
    <2>1. calls[c] \in Asking
        BY <1>9, CallShape DEF QRServe, TypeOK
    <2>2. asked' = [asked EXCEPT ![c] = Promise!NobodyAsked]
        BY <1>9, NobodyIsIdle, MovedAsked DEF QRServe, TypeOK
    <2>3. asked[c].state = "answered"
        BY <1>9 DEF QRServe, asked, Asked
    <2> QED
        BY <1>9, <2>2, <2>3 DEF QRServe, Promise!Leave, current
<1> QED
    BY <1>1, <1>2, <1>3, <1>5, <1>6, <1>7, <1>8, <1>9
        DEF Next, QRGoesOn, Promise!Next, Promise!Edit

(* The QR page implements QRPromise: a code shown is the one of the payment *)
(* that the link stood for when lookup found it.                            *)
THEOREM ImplementsPromise == Spec => KeepsPromise
<1>1. IInv /\ ServedRight /\ (IInv /\ ServedRight)' /\ [Next]_vars
        => [Promise!Next]_<<asked, current>>
    BY StepRefines
<1> QED
    BY <1>1, InitRefines, AlwaysSound, PTL DEF Spec, KeepsPromise, Promise!Spec
=============================================================================
