---------------------------- MODULE NumbersProofs ----------------------------
(***************************************************************************)
(* For any forms, any tabs and any storage that fails: pages, stored       *)
(* numbers and links keep their shape, and no list of numbers has a number *)
(* twice.  What filter leaves of a list is a recursive function, about     *)
(* which the least number that refutes a claim stands for induction.       *)
(***************************************************************************)
EXTENDS CreateFormProofs, WellFoundedInduction

-----------------------------------------------------------------------------
\* Induction.

Smaller == {p \in Nat \X Nat : p[1] < p[2]}

LEMMA LeastNatural ==
    ASSUME NEW S \in SUBSET Nat, S # {}
    PROVE  \E n \in S : \A m \in S : n <= m
<1>1. IsWellFoundedOn(Smaller, Nat)
    BY NatLessThanWellFounded DEF OpToRel, Smaller
<1>2. PICK n \in S : \A m \in S : ~(<<m, n>> \in Smaller)
    BY <1>1, WFMin
<1>3. \A m \in S : ~(m < n)
    BY <1>2 DEF Smaller
<1> QED BY <1>3

(* A set of numbers with 0, and with n + 1 if it has n, has all up to N. *)
LEMMA UpTo ==
    ASSUME NEW N \in Nat, NEW S, 0 \in S,
           \A n \in 0 .. N : n \in S /\ n < N => n + 1 \in S
    PROVE  0 .. N \subseteq S
<1> DEFINE Refuting == {n \in 0 .. N : n \notin S}
<1>1. SUFFICES ASSUME Refuting # {} PROVE FALSE
    OBVIOUS
<1>2. PICK n \in Refuting : \A m \in Refuting : n <= m
    <2>1. Refuting \in SUBSET Nat
        OBVIOUS
    <2> HIDE DEF Refuting
    <2> QED BY <1>1, <2>1, LeastNatural
<1>3. n # 0 /\ n - 1 \in 0 .. N /\ n - 1 < N
    BY <1>2
<1>4. n - 1 \in S
    BY <1>2, <1>3
<1> QED BY <1>2, <1>3, <1>4

-----------------------------------------------------------------------------
\* What filter leaves.

(* What is left of the first n numbers, given what is left of fewer. *)
Left(numbers, key, among, n) ==
    IF n = 0 THEN <<>>
    ELSE IF numbers[n].key = key THEN among[n - 1]
    ELSE Append(among[n - 1], numbers[n])

LEMMA AmongExists ==
    ASSUME NEW S, NEW numbers \in Seq(S), NEW key
    PROVE  \E among : among = [n \in 0 .. Len(numbers) |-> Left(numbers, key, among, n)]
<1> DEFINE Defined(N) == \E among : among = [n \in 0 .. N |-> Left(numbers, key, among, n)]
           All == {N \in 0 .. Len(numbers) : Defined(N)}
<1>1. Len(numbers) \in Nat
    OBVIOUS
<1>2. Defined(0)
    <2> DEFINE none == [n \in 0 .. 0 |-> <<>>]
    <2>1. none = [n \in 0 .. 0 |-> Left(numbers, key, none, n)]
        BY DEF Left
    <2> QED BY <2>1
<1>3. ASSUME NEW N \in 0 .. Len(numbers), Defined(N), N < Len(numbers)
      PROVE  Defined(N + 1)
    <2>1. PICK among : among = [n \in 0 .. N |-> Left(numbers, key, among, n)]
        BY <1>3
    <2> DEFINE more == [n \in 0 .. N + 1 |->
                    IF n = N + 1 THEN Left(numbers, key, among, N + 1) ELSE among[n]]
    <2>2. ASSUME NEW n \in 0 .. N + 1 PROVE more[n] = Left(numbers, key, more, n)
        <3>1. n # 0 => n - 1 \in 0 .. N /\ more[n - 1] = among[n - 1]
            OBVIOUS
        <3>2. Left(numbers, key, more, n) = Left(numbers, key, among, n)
            BY <3>1 DEF Left
        <3>3. n # N + 1 => n \in 0 .. N /\ among[n] = Left(numbers, key, among, n)
            BY <2>1
        <3> QED BY <3>2, <3>3
    <2>3. more = [n \in 0 .. N + 1 |-> Left(numbers, key, more, n)]
        BY <2>2
    <2> QED BY <2>3
<1> HIDE DEF Defined
<1>4. 0 .. Len(numbers) \subseteq All
    <2>1. 0 \in All
        BY <1>1, <1>2
    <2>2. \A n \in 0 .. Len(numbers) : n \in All /\ n < Len(numbers) => n + 1 \in All
        BY <1>1, <1>3
    <2> QED BY <1>1, <2>1, <2>2, UpTo
<1>5. Defined(Len(numbers))
    BY <1>1, <1>4
<1> QED BY <1>5 DEF Defined

(* The k-th of the rest is the place[k]-th of all, for places that rise.    *)
IsRest(rest, numbers, key, n) ==
    \E place \in [1 .. Len(rest) -> 1 .. n] :
        /\ \A j, k \in 1 .. Len(rest) : j < k => place[j] < place[k]
        /\ \A k \in 1 .. Len(rest) : rest[k] = numbers[place[k]] /\ rest[k].key # key

(* Others leaves numbers of another key, in their order, and at most as     *)
(* many as there were (rememberNumber, numberChip).                         *)
LEMMA OthersIsRest ==
    ASSUME NEW S, NEW numbers \in Seq(S), NEW key
    PROVE  /\ Others(numbers, key) \in Seq(S)
           /\ Len(Others(numbers, key)) <= Len(numbers)
           /\ IsRest(Others(numbers, key), numbers, key, Len(numbers))
<1> DEFINE among == CHOOSE f : f = [n \in 0 .. Len(numbers) |-> Left(numbers, key, f, n)]
           Good == {n \in 0 .. Len(numbers) :
                        /\ among[n] \in Seq(S)
                        /\ Len(among[n]) <= n
                        /\ IsRest(among[n], numbers, key, n)}
<1>1. among = [n \in 0 .. Len(numbers) |-> Left(numbers, key, among, n)]
    BY AmongExists
<1>2. Others(numbers, key) = among[Len(numbers)]
    BY DEF Others, Left
<1>7. ASSUME NEW n \in 0 .. Len(numbers)
      PROVE  among[n] = Left(numbers, key, among, n)
    <2> HIDE DEF among
    <2> QED BY <1>1
<1> HIDE DEF among
<1>3. Len(numbers) \in Nat /\ \A n \in 1 .. Len(numbers) : numbers[n] \in S
    OBVIOUS
<1>4. 0 \in Good
    <2>1. among[0] = <<>>
        BY <1>3, <1>7 DEF Left
    <2>2. IsRest(<<>>, numbers, key, 0)
        <3> DEFINE place == [k \in 1 .. 0 |-> k]
        <3>1. place \in [1 .. 0 -> 1 .. 0]
            OBVIOUS
        <3>2. Len(<<>>) = 0 /\ \A k : k \notin 1 .. 0
            OBVIOUS
        <3> HIDE DEF place
        <3> QED BY <3>1, <3>2 DEF IsRest
    <2>3. <<>> \in Seq(S) /\ Len(<<>>) = 0
        OBVIOUS
    <2>4. among[0] \in Seq(S) /\ Len(among[0]) <= 0
        BY <2>1, <2>3
    <2>5. IsRest(among[0], numbers, key, 0)
        BY <2>1, <2>2
    <2> QED BY <1>3, <2>4, <2>5
<1>5. ASSUME NEW n \in 0 .. Len(numbers), n \in Good, n < Len(numbers)
      PROVE  n + 1 \in Good
    <2>1. /\ n + 1 \in 1 .. Len(numbers) /\ numbers[n + 1] \in S
          /\ among[n] \in Seq(S) /\ Len(among[n]) <= n
          /\ IsRest(among[n], numbers, key, n)
        BY <1>3, <1>5
    <2>2. among[n + 1] = Left(numbers, key, among, n + 1)
        BY <1>7, <2>1
    <2>3. PICK place \in [1 .. Len(among[n]) -> 1 .. n] :
            /\ \A j, k \in 1 .. Len(among[n]) : j < k => place[j] < place[k]
            /\ \A k \in 1 .. Len(among[n]) :
                among[n][k] = numbers[place[k]] /\ among[n][k].key # key
        BY <2>1 DEF IsRest
    <2>4. CASE numbers[n + 1].key = key
        <3>1. among[n + 1] = among[n]
            BY <2>1, <2>2, <2>4 DEF Left
        <3>2. place \in [1 .. Len(among[n]) -> 1 .. n + 1]
            BY <2>1
        <3>3. IsRest(among[n], numbers, key, n + 1)
            BY <2>3, <3>2 DEF IsRest
        <3> QED BY <1>5, <2>1, <3>1, <3>3
    <2>5. CASE numbers[n + 1].key # key
        <3> DEFINE rest == Append(among[n], numbers[n + 1])
                   places == [k \in 1 .. Len(rest) |-> IF k = Len(rest) THEN n + 1 ELSE place[k]]
        <3>1. among[n + 1] = rest
            BY <2>1, <2>2, <2>5 DEF Left
        <3>2. /\ rest \in Seq(S) /\ Len(rest) = Len(among[n]) + 1
              /\ rest[Len(rest)] = numbers[n + 1]
              /\ \A k \in 1 .. Len(among[n]) : rest[k] = among[n][k]
            BY <2>1, AppendProperties
        <3> HIDE DEF rest
        <3>3. places \in [1 .. Len(rest) -> 1 .. n + 1]
            BY <2>1, <3>2
        <3>4. \A j, k \in 1 .. Len(rest) : j < k => places[j] < places[k]
            <4> SUFFICES ASSUME NEW j \in 1 .. Len(rest), NEW k \in 1 .. Len(rest), j < k
                         PROVE  places[j] < places[k]
                OBVIOUS
            <4>0. Len(among[n]) \in Nat /\ Len(rest) \in Nat
                BY <2>1, <3>2
            <4>1. j \in 1 .. Len(among[n]) /\ places[j] = place[j] /\ place[j] \in 1 .. n
                <5>1. j \in 1 .. Len(among[n]) /\ j # Len(rest)
                    BY <3>2, <4>0
                <5>2. places[j] = place[j] /\ place[j] \in 1 .. n
                    BY <5>1
                <5> QED BY <5>1, <5>2
            <4>2. CASE k = Len(rest)
                BY <2>1, <4>1, <4>2
            <4>3. CASE k # Len(rest)
                <5>1. k \in 1 .. Len(among[n]) /\ places[k] = place[k]
                    BY <2>1, <3>2, <4>3
                <5> QED BY <2>3, <4>1, <5>1
            <4> QED BY <4>2, <4>3
        <3>5. ASSUME NEW k \in 1 .. Len(rest)
              PROVE  rest[k] = numbers[places[k]] /\ rest[k].key # key
            <4>1. CASE k = Len(rest)
                BY <2>5, <3>2, <4>1
            <4>2. CASE k # Len(rest)
                <5>1. k \in 1 .. Len(among[n]) /\ places[k] = place[k] /\ rest[k] = among[n][k]
                    BY <2>1, <3>2, <4>2
                <5> QED BY <2>3, <5>1
            <4> QED BY <4>1, <4>2
        <3>6. IsRest(rest, numbers, key, n + 1)
            BY <3>3, <3>4, <3>5 DEF IsRest
        <3> QED BY <1>3, <2>1, <3>1, <3>2, <3>6
    <2> QED BY <2>4, <2>5
<1>6. 0 .. Len(numbers) \subseteq Good
    <2> HIDE DEF Good
    <2> QED BY <1>3, <1>4, <1>5, UpTo
<1> QED BY <1>2, <1>3, <1>6
-----------------------------------------------------------------------------
\* Lists of numbers.

OnceEach(numbers) ==
    /\ numbers \in Seq(Phones)
    /\ Len(numbers) <= MaxNumbers
    /\ \A i, j \in 1 .. Len(numbers) : numbers[i].key = numbers[j].key => i = j

LEMMA OthersOnce ==
    ASSUME NEW numbers, OnceEach(numbers), NEW key
    PROVE  /\ OnceEach(Others(numbers, key))
           /\ \A k \in 1 .. Len(Others(numbers, key)) : Others(numbers, key)[k].key # key
<1>1. PICK rest : rest = Others(numbers, key)
    OBVIOUS
<1>2. /\ rest \in Seq(Phones) /\ Len(rest) <= Len(numbers)
      /\ IsRest(rest, numbers, key, Len(numbers))
    BY <1>1, OthersIsRest DEF OnceEach
<1>3. Len(rest) \in Nat /\ Len(numbers) \in Nat /\ MaxNumbers \in Nat
    BY <1>2, LenProperties, FormAssumption DEF OnceEach
<1>4. PICK place \in [1 .. Len(rest) -> 1 .. Len(numbers)] :
        /\ \A j, k \in 1 .. Len(rest) : j < k => place[j] < place[k]
        /\ \A k \in 1 .. Len(rest) : rest[k] = numbers[place[k]] /\ rest[k].key # key
    BY <1>2 DEF IsRest
<1>5. ASSUME NEW i \in 1 .. Len(rest), NEW j \in 1 .. Len(rest), rest[i].key = rest[j].key
      PROVE  i = j
    <2>1. place[i] \in 1 .. Len(numbers) /\ place[j] \in 1 .. Len(numbers)
        BY Zenon
    <2>2. numbers[place[i]].key = numbers[place[j]].key
        BY <1>4, <1>5, Zenon
    <2>3. place[i] = place[j]
        BY <1>1, <2>1, <2>2, Zenon DEF OnceEach
    <2>4. PICK p \in 1 .. Len(numbers) : p = place[i] /\ p = place[j]
        BY <2>1, <2>3, Zenon
    <2>5. ~(p < p) /\ i \in Int /\ j \in Int
        BY <1>3, SMT
    <2>6. ~(i < j) /\ ~(j < i)
        BY <1>4, <2>4, <2>5, Zenon
    <2> QED BY <2>5, <2>6, SMT
<1> QED BY <1>1, <1>2, <1>3, <1>4, <1>5 DEF OnceEach

LEMMA RememberOnce ==
    ASSUME NEW numbers, OnceEach(numbers), NEW number \in Phones
    PROVE  OnceEach(Remember(numbers, number))
<1>1. PICK rest : rest = Others(numbers, number.key)
    OBVIOUS
<1>2. OnceEach(rest) /\ \A k \in 1 .. Len(rest) : rest[k].key # number.key
    BY <1>1, OthersOnce
<1>3. PICK all : all = <<number>> \o rest
    OBVIOUS
<1>4. /\ MaxNumbers \in Nat \ {0} /\ Len(rest) \in Nat
      /\ all \in Seq(Phones) /\ Len(all) = Len(rest) + 1
      /\ all[1] = number /\ \A k \in 2 .. Len(all) : all[k] = rest[k - 1]
    BY <1>2, <1>3, LenProperties, FormAssumption DEF OnceEach
<1>5. ASSUME NEW i \in 1 .. Len(all), NEW j \in 1 .. Len(all), all[i].key = all[j].key
      PROVE  i = j
    <2>1. CASE i = 1 /\ j = 1
        BY <2>1
    <2>2. CASE i = 1 /\ j # 1
        <3>1. all[j] = rest[j - 1] /\ j - 1 \in 1 .. Len(rest)
            BY <1>4, <2>2
        <3> QED BY <1>2, <1>4, <1>5, <2>2, <3>1
    <2>3. CASE i # 1 /\ j = 1
        <3>1. all[i] = rest[i - 1] /\ i - 1 \in 1 .. Len(rest)
            BY <1>4, <2>3
        <3> QED BY <1>2, <1>4, <1>5, <2>3, <3>1
    <2>4. CASE i # 1 /\ j # 1
        <3>1. /\ all[i] = rest[i - 1] /\ i - 1 \in 1 .. Len(rest)
              /\ all[j] = rest[j - 1] /\ j - 1 \in 1 .. Len(rest)
            BY <1>4, <2>4
        <3>2. i - 1 = j - 1
            BY <1>2, <1>5, <3>1 DEF OnceEach
        <3> QED BY <1>4, <3>2
    <2> QED BY <2>1, <2>2, <2>3, <2>4
<1>6. CASE Len(all) > MaxNumbers
    <2>1. PICK kept : kept = SubSeq(all, 1, MaxNumbers)
        OBVIOUS
    <2>2. /\ kept \in Seq(Phones) /\ Len(kept) = MaxNumbers
          /\ \A k \in 1 .. MaxNumbers : k \in 1 .. Len(all) /\ kept[k] = all[k]
        BY <1>4, <1>6, <2>1, SubSeqProperties
    <2>3. ASSUME NEW i \in 1 .. Len(kept), NEW j \in 1 .. Len(kept), kept[i].key = kept[j].key
          PROVE  i = j
        BY <1>5, <2>2, <2>3
    <2>4. OnceEach(kept)
        <3>1. kept \in Seq(Phones) /\ Len(kept) <= MaxNumbers
            BY <1>4, <2>2
        <3> QED BY <2>3, <3>1 DEF OnceEach
    <2> QED BY <1>1, <1>3, <1>6, <2>1, <2>4 DEF Remember
<1>7. CASE ~(Len(all) > MaxNumbers)
    <2>1. OnceEach(all)
        BY <1>4, <1>5, <1>7 DEF OnceEach
    <2> QED BY <1>1, <1>3, <1>7, <2>1 DEF Remember
<1> QED BY <1>6, <1>7

-----------------------------------------------------------------------------
\* Pages, storage and links.

ShapeInv ==
    /\ tabs \in [Tabs -> Shown]
    /\ OnceEach(storage)
    /\ \A t \in Tabs : OnceEach(tabs[t].numbers)
    /\ created \in Seq(Forms)
    /\ Len(created) <= MaxCreated

LEMMA FormShape == EmptyForm \in Forms /\ Null \in Reasons \cup {Null}
                    /\ MaxCreated \in Nat /\ \A form \in Forms : form.phone \in Phones
BY FormAssumption DEF Phones

LEMMA NewPageShape ==
    ASSUME NEW numbers, OnceEach(numbers)
    PROVE  NewPage(numbers) \in Shown /\ NewPage(numbers).numbers = numbers
<1>1. numbers # <<>> => numbers[1] \in Phones
    BY DEF OnceEach
<1>2. numbers \in Seq(Phones)
    BY DEF OnceEach
<1> QED BY <1>1, <1>2, FormShape DEF NewPage, Shown

LEMMA NoNumbers == OnceEach(<<>>)
<1>1. <<>> \in Seq(Phones) /\ Len(<<>>) = 0
    OBVIOUS
<1> QED BY <1>1, FormAssumption DEF OnceEach

LEMMA InitShape == Init => ShapeInv
<1> SUFFICES ASSUME Init PROVE ShapeInv
    OBVIOUS
<1>1. created \in Seq(Forms) /\ Len(created) = 0 /\ OnceEach(storage)
    BY NoNumbers DEF Init
<1>2. ASSUME NEW t \in Tabs PROVE tabs[t] \in Shown /\ OnceEach(tabs[t].numbers)
    <2>1. tabs[t] = NewPage(<<>>)
        BY DEF Init
    <2> QED BY <2>1, NoNumbers, NewPageShape
<1> QED BY <1>1, <1>2, FormAssumption DEF Init, ShapeInv

LEMMA PageShape ==
    ASSUME ShapeInv, NEW t \in Tabs, NEW page \in Shown, Page(t, page),
           OnceEach(page.numbers), storage' \in {storage, page.numbers},
           created' \in Seq(Forms), Len(created') <= MaxCreated
    PROVE  ShapeInv'
<1>1. tabs' = [tabs EXCEPT ![t] = page]
    BY DEF Page
<1>2. tabs' \in [Tabs -> Shown]
    BY <1>1 DEF ShapeInv
<1>3. OnceEach(storage)'
    BY DEF ShapeInv, OnceEach
<1>4. ASSUME NEW s \in Tabs PROVE OnceEach(tabs'[s].numbers)
    BY <1>1 DEF ShapeInv
<1> QED BY <1>2, <1>3, <1>4 DEF ShapeInv, OnceEach

LEMMA FormShapes ==
    ASSUME ShapeInv, NEW t \in Tabs,
           Fill(t) \/ Reset(t) \/ Open(t) \/ SubmitRefused(t) \/ Submit(t) \/ Forget(t)
    PROVE  ShapeInv'
<1>1. PICK old \in Shown : old = tabs[t] /\ OnceEach(old.numbers)
    BY DEF ShapeInv
<1>2. created' = created
    BY DEF Fill, Reset, Open, SubmitRefused, Submit, Forget
<1>3. created' \in Seq(Forms) /\ Len(created') <= MaxCreated
    BY <1>2 DEF ShapeInv
<1>4. ASSUME NEW page \in Shown, Page(t, page), page.numbers = old.numbers, UNCHANGED storage
      PROVE  ShapeInv'
    BY <1>1, <1>3, <1>4, PageShape
<1>5. CASE Fill(t)
    <2>1. PICK form \in Forms : Page(t, [old EXCEPT !.form = form]) /\ UNCHANGED storage
        BY <1>1, <1>5 DEF Fill
    <2>2. /\ [old EXCEPT !.form = form] \in Shown
          /\ [old EXCEPT !.form = form].numbers = old.numbers
        BY DEF Shown
    <2> QED BY <1>4, <2>1, <2>2
<1>6. CASE Reset(t)
    <2> DEFINE page == [old EXCEPT !.form = EmptyForm, !.error = Null, !.result = Null]
    <2>1. Page(t, page) /\ UNCHANGED storage
        BY <1>1, <1>6 DEF Reset
    <2>2. page \in Shown /\ page.numbers = old.numbers
        BY FormShape DEF Shown
    <2> QED BY <1>4, <2>1, <2>2
<1>7. CASE Open(t)
    <2>1. Page(t, NewPage(storage)) /\ UNCHANGED storage /\ OnceEach(storage)
        BY <1>7 DEF Open, ShapeInv
    <2>2. NewPage(storage) \in Shown /\ NewPage(storage).numbers = storage
        BY <2>1, NewPageShape
    <2> QED BY <1>3, <2>1, <2>2, PageShape
<1>8. CASE SubmitRefused(t)
    <2> DEFINE page == WithError(old, "page")
    <2>1. Page(t, page) /\ UNCHANGED storage
        BY <1>1, <1>8 DEF SubmitRefused
    <2>2. page \in Shown /\ page.numbers = old.numbers
        BY DEF Shown, WithError, Reasons
    <2> QED BY <1>4, <2>1, <2>2
<1>9. CASE Submit(t)
    <2> DEFINE flight == [req |-> old.form, state |-> "sent", id |-> 0]
               page == [old EXCEPT !.disabled = TRUE, !.error = Null, !.flights = @ \cup {flight}]
    <2>1. Page(t, page) /\ UNCHANGED storage /\ old.form.amount # Null
        BY <1>1, <1>9 DEF Submit, Filled
    <2>2. old.form \in Forms
        <3>1. ASSUME NEW phone PROVE [EmptyForm EXCEPT !.phone = phone].amount = Null
            BY FormAssumption
        <3> QED BY <2>1, <3>1 DEF Shown
    <2>3. flight \in Flight
        BY <2>2, FormShape DEF Flight
    <2>4. page \in Shown /\ page.numbers = old.numbers
        BY <2>3 DEF Shown
    <2> QED BY <1>4, <2>1, <2>4
<1>10. CASE Forget(t)
    <2>1. PICK number \in ToSet(old.numbers) :
            /\ Page(t, [old EXCEPT !.numbers = Others(old.numbers, number.key)])
            /\ Save(Others(old.numbers, number.key))
        BY <1>1, <1>10 DEF Forget
    <2>2. PICK left : left = Others(old.numbers, number.key) /\ OnceEach(left)
        BY <1>1, OthersOnce
    <2>3. [old EXCEPT !.numbers = left] \in Shown /\ [old EXCEPT !.numbers = left].numbers = left
        BY <2>2 DEF Shown, OnceEach
    <2>4. storage' \in {storage, left}
        BY <2>1, <2>2 DEF Save
    <2> QED BY <1>3, <2>1, <2>2, <2>3, <2>4, PageShape
<1> QED BY <1>5, <1>6, <1>7, <1>8, <1>9, <1>10

LEMMA ServeShape ==
    ASSUME IInv, ShapeInv, NEW t \in Tabs, Serve(t)
    PROVE  ShapeInv'
<1>1. PICK old \in Shown : old = tabs[t] /\ OnceEach(old.numbers)
    BY DEF ShapeInv
<1>2. UNCHANGED storage /\ created \in Seq(Forms) /\ Len(created) \in Nat
    BY LenProperties DEF Serve, ShapeInv
<1>3. ASSUME NEW flight \in old.flights, NEW state \in {"stored", "refused"},
             NEW id \in 0 .. MaxCreated,
             Page(t, [old EXCEPT !.flights = (@ \ {flight})
                    \cup {[flight EXCEPT !.state = state, !.id = id]}]),
             created' \in Seq(Forms), Len(created') <= MaxCreated
      PROVE  ShapeInv'
    <2>1. flight \in Flight
        BY DEF Shown
    <2>2. [flight EXCEPT !.state = state, !.id = id] \in Flight
        BY <2>1 DEF Flight
    <2> DEFINE page == [old EXCEPT !.flights = (@ \ {flight})
                    \cup {[flight EXCEPT !.state = state, !.id = id]}]
    <2>3. page \in Shown /\ page.numbers = old.numbers
        BY <2>2 DEF Shown
    <2> HIDE DEF page
    <2> QED BY <1>1, <1>2, <1>3, <2>3, PageShape DEF page
<1>4. PICK flight \in old.flights :
        \/ /\ Page(t, [old EXCEPT !.flights = (@ \ {flight})
                    \cup {[flight EXCEPT !.state = "refused", !.id = 0]}])
           /\ UNCHANGED created
        \/ /\ Len(created) < MaxCreated /\ created' = Append(created, flight.req)
           /\ Page(t, [old EXCEPT !.flights = (@ \ {flight})
                    \cup {[flight EXCEPT !.state = "stored", !.id = Len(created) + 1]}])
    BY <1>1 DEF Serve
<1>5. CASE UNCHANGED created /\ Page(t, [old EXCEPT !.flights = (@ \ {flight})
                    \cup {[flight EXCEPT !.state = "refused", !.id = 0]}])
    <2>1. 0 \in 0 .. MaxCreated /\ created' \in Seq(Forms) /\ Len(created') <= MaxCreated
        BY <1>5, FormShape DEF ShapeInv
    <2> QED BY <1>3, <1>5, <2>1
<1>6. CASE /\ Len(created) < MaxCreated /\ created' = Append(created, flight.req)
           /\ Page(t, [old EXCEPT !.flights = (@ \ {flight})
                    \cup {[flight EXCEPT !.state = "stored", !.id = Len(created) + 1]}])
    <2>1. flight.req \in Forms
        BY DEF Shown, Flight
    <2>2. /\ Len(created) + 1 \in 0 .. MaxCreated
          /\ created' \in Seq(Forms) /\ Len(created') <= MaxCreated
        BY <1>2, <1>6, <2>1, AppendProperties, FormShape
    <2> QED BY <1>3, <1>6, <2>2
<1> QED BY <1>4, <1>5, <1>6

LEMMA EndShapes ==
    ASSUME IInv, ShapeInv, NEW t \in Tabs, FlightEnds(t)
    PROVE  ShapeInv'
<1>1. PICK old \in Shown : old = tabs[t] /\ OnceEach(old.numbers)
    BY DEF ShapeInv
<1>2. created' = created /\ created' \in Seq(Forms) /\ Len(created') <= MaxCreated
    BY DEF FlightEnds, Created, CreatedUnread, Refused, Lost, ShapeInv
<1>3. ASSUME NEW flight \in old.flights
      PROVE  /\ flight \in Flight
             /\ flight.state = "stored" =>
                    flight.id \in 1 .. Len(created) /\ created[flight.id] = flight.req
             /\ OnceEach(Remember(old.numbers, flight.req.phone))
    <2>1. flight \in Flight /\ flight.req.phone \in Phones
        BY FormShape DEF Shown, Flight
    <2> QED BY <1>1, <2>1, TheFlight, RememberOnce
<1>4. ASSUME NEW flight \in old.flights,
             Page(t, WithError(Landed(old, flight), "request")), UNCHANGED storage
      PROVE  ShapeInv'
    <2> DEFINE page == WithError(Landed(old, flight), "request")
    <2>1. page \in Shown /\ page.numbers = old.numbers
        BY DEF Shown, WithError, Landed, Reasons
    <2> HIDE DEF page
    <2> QED BY <1>1, <1>2, <1>4, <2>1, PageShape DEF page
<1>5. ASSUME NEW flight \in old.flights, NEW numbers,
             OnceEach(numbers), storage' \in {storage, numbers},
             Page(t, [WithError(Landed(old, flight), "request") EXCEPT !.numbers = numbers])
      PROVE  ShapeInv'
    <2> DEFINE page == [WithError(Landed(old, flight), "request") EXCEPT !.numbers = numbers]
    <2>1. page \in Shown /\ page.numbers = numbers
        BY <1>5 DEF Shown, WithError, Landed, Reasons, OnceEach
    <2> HIDE DEF page
    <2> QED BY <1>1, <1>2, <1>5, <2>1, PageShape DEF page
<1>6. ASSUME NEW flight \in old.flights, NEW numbers, flight.state = "stored",
             OnceEach(numbers), storage' \in {storage, numbers},
             Page(t, [Landed(old, flight) EXCEPT !.numbers = numbers, !.result = ResultOf(t, flight)])
      PROVE  ShapeInv'
    <2> DEFINE page == [Landed(old, flight) EXCEPT
                            !.numbers = numbers, !.result = ResultOf(t, flight)]
    <2>1. flight \in Flight /\ flight.id \in 1 .. Len(created) /\ Len(created) \in Nat
        BY <1>3, <1>6, LenProperties DEF ShapeInv
    <2>2. flight.id \in 1 .. MaxCreated
        BY <2>1, FormShape DEF ShapeInv
    <2>3. ResultOf(t, flight) \in Link
        BY <2>1, <2>2 DEF ResultOf, Link, Flight
    <2>4. page \in Shown /\ page.numbers = numbers
        BY <1>6, <2>3 DEF Shown, Landed, OnceEach
    <2> HIDE DEF page
    <2> QED BY <1>1, <1>2, <1>6, <2>4, PageShape DEF page
<1>7. CASE Created(t)
    <2>1. PICK flight \in old.flights :
            /\ flight.state = "stored"
            /\ Page(t, [Landed(old, flight) EXCEPT
                    !.numbers = Remember(old.numbers, flight.req.phone),
                    !.result = ResultOf(t, flight)])
            /\ Save(Remember(old.numbers, flight.req.phone))
        BY <1>1, <1>7 DEF Created
    <2> QED BY <1>3, <1>6, <2>1 DEF Save
<1>8. CASE CreatedUnread(t)
    <2>1. PICK flight \in old.flights :
            /\ Page(t, [WithError(Landed(old, flight), "request") EXCEPT
                    !.numbers = Remember(old.numbers, flight.req.phone)])
            /\ Save(Remember(old.numbers, flight.req.phone))
        BY <1>1, <1>8 DEF CreatedUnread
    <2> QED BY <1>3, <1>5, <2>1 DEF Save
<1>9. CASE Refused(t) \/ Lost(t)
    BY <1>1, <1>4, <1>9 DEF Refused, Lost
<1> QED BY <1>7, <1>8, <1>9 DEF FlightEnds

LEMMA StepShape == IInv /\ ShapeInv /\ [Next]_vars => ShapeInv'
<1> SUFFICES ASSUME IInv, ShapeInv, [Next]_vars PROVE ShapeInv'
    OBVIOUS
<1>1. CASE UNCHANGED vars
    BY <1>1 DEF vars, ShapeInv, OnceEach
<1> QED BY <1>1, FormShapes, ServeShape, EndShapes DEF Next

-----------------------------------------------------------------------------
\* The theorems.

(* Pages, stored numbers and links keep their shape, with at most as many   *)
(* links as the bound and numbers as maxNumbers (swosh.js).                 *)
THEOREM ShapesKept == Spec => []ShapeInv
BY InitShape, StepShape, Invariant, PTL DEF Spec

(* The pages, the numbers and the links are of their types (swosh.js).      *)
THEOREM TypeCorrect == Spec => []TypeOK
<1>1. ShapeInv => TypeOK
    BY DEF ShapeInv, OnceEach, TypeOK
<1> QED BY <1>1, ShapesKept, PTL

(* However a number is written, and however many tabs write their lists     *)
(* over each other's, no list has a number twice, nor more than maxNumbers  *)
(* (rememberNumber, numberChip, saveNumbers).                               *)
THEOREM NumbersAreOnce == Spec => []NumbersOnce
<1>1. ASSUME NEW numbers, OnceEach(numbers)
      PROVE  /\ Len(numbers) <= MaxNumbers
             /\ \A i, j \in DOMAIN numbers : numbers[i].key = numbers[j].key => i = j
    <2>1. DOMAIN numbers = 1 .. Len(numbers)
        BY <1>1, LenProperties DEF OnceEach
    <2> QED BY <1>1, <2>1 DEF OnceEach
<1>2. ShapeInv => NumbersOnce
    <2> SUFFICES ASSUME ShapeInv, NEW numbers \in {storage} \cup {tabs[t].numbers : t \in Tabs}
                 PROVE  /\ Len(numbers) <= MaxNumbers
                        /\ \A i, j \in DOMAIN numbers : numbers[i].key = numbers[j].key => i = j
        BY DEF NumbersOnce
    <2>1. OnceEach(numbers)
        BY DEF ShapeInv
    <2> QED BY <1>1, <2>1
<1> QED BY <1>2, ShapesKept, PTL

-----------------------------------------------------------------------------
\* A single tab.

(* What one page offers is what is kept, if everything is kept.             *)
InSync == \A t \in Tabs : tabs[t].numbers = storage

(* Only a link that was made brings a key to what is kept.                  *)
NewKeysAreOf(t) == \A key \in Keys(storage') \ Keys(storage) :
    \E flight \in tabs[t].flights \ tabs'[t].flights :
        flight.state = "stored" /\ flight.req.phone.key = key

LEMMA KeysOf ==
    ASSUME NEW numbers, OnceEach(numbers)
    PROVE  Keys(numbers) = {numbers[k].key : k \in 1 .. Len(numbers)}
<1>1. DOMAIN numbers = 1 .. Len(numbers)
    BY LenProperties DEF OnceEach
<1> QED BY <1>1 DEF Keys, ToSet

LEMMA OthersKeys ==
    ASSUME NEW numbers, OnceEach(numbers), NEW key
    PROVE  Keys(Others(numbers, key)) \subseteq Keys(numbers)
<1>1. PICK rest : rest = Others(numbers, key) /\ OnceEach(rest)
    BY OthersOnce
<1>2. IsRest(rest, numbers, key, Len(numbers))
    BY <1>1, OthersIsRest DEF OnceEach
<1>3. \A k \in 1 .. Len(rest) : \E n \in 1 .. Len(numbers) : rest[k] = numbers[n]
    BY <1>2 DEF IsRest
<1>4. Keys(rest) \subseteq Keys(numbers)
    BY <1>1, <1>3, KeysOf
<1> QED BY <1>1, <1>4

LEMMA RememberKeys ==
    ASSUME NEW numbers, OnceEach(numbers), NEW number \in Phones
    PROVE  Keys(Remember(numbers, number)) \subseteq Keys(numbers) \cup {number.key}
<1>1. PICK rest : rest = Others(numbers, number.key) /\ OnceEach(rest)
    BY OthersOnce
<1>2. PICK all : all = <<number>> \o rest
    OBVIOUS
<1>3. PICK kept : kept = Remember(numbers, number) /\ OnceEach(kept)
    BY RememberOnce
<1>4. /\ MaxNumbers \in Nat \ {0} /\ Len(rest) \in Nat
      /\ all \in Seq(Phones) /\ Len(all) = Len(rest) + 1
      /\ all[1] = number /\ \A k \in 2 .. Len(all) : k - 1 \in 1 .. Len(rest) /\ all[k] = rest[k - 1]
    BY <1>1, <1>2, LenProperties, FormAssumption DEF OnceEach
<1>5. \A k \in 1 .. Len(kept) : k \in 1 .. Len(all) /\ kept[k] = all[k]
    <2>1. CASE Len(all) > MaxNumbers
        <3>1. kept = SubSeq(all, 1, MaxNumbers)
            BY <1>1, <1>2, <1>3, <2>1 DEF Remember
        <3>2. /\ Len(kept) = MaxNumbers
              /\ \A k \in 1 .. MaxNumbers : k \in 1 .. Len(all) /\ kept[k] = all[k]
            BY <1>4, <2>1, <3>1, SubSeqProperties
        <3> QED BY <3>2
    <2>2. CASE ~(Len(all) > MaxNumbers)
        <3>1. kept = all
            BY <1>1, <1>2, <1>3, <2>2 DEF Remember
        <3> QED BY <3>1
    <2> QED BY <2>1, <2>2
<1>6. ASSUME NEW k \in 1 .. Len(kept)
      PROVE  kept[k].key \in Keys(numbers) \cup {number.key}
    <2>1. k \in 1 .. Len(all) /\ kept[k] = all[k]
        BY <1>5
    <2>2. CASE k = 1
        BY <1>4, <2>1, <2>2
    <2>3. CASE k # 1
        <3>1. k - 1 \in 1 .. Len(rest) /\ kept[k] = rest[k - 1]
            BY <1>4, <2>1, <2>3
        <3>2. kept[k].key \in Keys(rest)
            BY <1>1, <3>1, KeysOf
        <3> QED BY <1>1, <3>2, OthersKeys
    <2> QED BY <2>2, <2>3
<1> QED BY <1>3, <1>6, KeysOf

LEMMA SyncStep ==
    ASSUME IInv, ShapeInv, InSync, ~StorageMayFail, NEW t \in Tabs,
           Fill(t) \/ Reset(t) \/ Open(t) \/ SubmitRefused(t) \/ Submit(t)
               \/ Serve(t) \/ FlightEnds(t) \/ Forget(t)
    PROVE  tabs'[t].numbers = storage' /\ NewKeysAreOf(t)
<1>1. PICK old \in Shown : old = tabs[t] /\ OnceEach(old.numbers) /\ old.numbers = storage
    BY DEF ShapeInv, InSync
<1>2. ASSUME NEW page, Page(t, page) PROVE tabs'[t] = page
    BY <1>2 DEF Page, ShapeInv
<1>3. ASSUME NEW page, Page(t, page), page.numbers = old.numbers, UNCHANGED storage
      PROVE  tabs'[t].numbers = storage' /\ NewKeysAreOf(t)
    BY <1>1, <1>2, <1>3 DEF NewKeysAreOf
<1>4. CASE Fill(t)
    <2>1. PICK form : Page(t, [old EXCEPT !.form = form]) /\ UNCHANGED storage
        BY <1>1, <1>4 DEF Fill
    <2>2. [old EXCEPT !.form = form].numbers = old.numbers
        BY DEF Shown
    <2> QED BY <1>3, <2>1, <2>2
<1>5. CASE Reset(t)
    <2>1. [old EXCEPT !.form = EmptyForm, !.error = Null, !.result = Null].numbers = old.numbers
        BY DEF Shown
    <2> QED BY <1>1, <1>3, <1>5, <2>1 DEF Reset
<1>6. CASE Open(t)
    <2>1. Page(t, NewPage(storage)) /\ UNCHANGED storage
        BY <1>6 DEF Open
    <2>2. NewPage(storage).numbers = old.numbers
        BY <1>1, NewPageShape
    <2> QED BY <1>3, <2>1, <2>2
<1>7. CASE SubmitRefused(t)
    <2>1. WithError(old, "page").numbers = old.numbers
        BY DEF Shown, WithError
    <2> QED BY <1>1, <1>3, <1>7, <2>1 DEF SubmitRefused
<1>8. CASE Submit(t)
    <2>1. PICK flights :
            /\ Page(t, [old EXCEPT !.disabled = TRUE, !.error = Null, !.flights = flights])
            /\ UNCHANGED storage
        BY <1>1, <1>8 DEF Submit
    <2>2. [old EXCEPT !.disabled = TRUE, !.error = Null, !.flights = flights].numbers = old.numbers
        BY DEF Shown
    <2> QED BY <1>3, <2>1, <2>2
<1>9. CASE Serve(t)
    <2>1. PICK flights : Page(t, [old EXCEPT !.flights = flights]) /\ UNCHANGED storage
        BY <1>1, <1>9 DEF Serve
    <2>2. [old EXCEPT !.flights = flights].numbers = old.numbers
        BY DEF Shown
    <2> QED BY <1>3, <2>1, <2>2
<1>10. CASE Refused(t) \/ Lost(t)
    <2>1. PICK flight : Page(t, WithError(Landed(old, flight), "request")) /\ UNCHANGED storage
        BY <1>1, <1>10 DEF Refused, Lost
    <2>2. WithError(Landed(old, flight), "request").numbers = old.numbers
        BY DEF Shown, WithError, Landed
    <2> QED BY <1>3, <2>1, <2>2
<1>11. CASE Forget(t)
    <2>1. PICK number \in ToSet(old.numbers) :
            /\ Page(t, [old EXCEPT !.numbers = Others(old.numbers, number.key)])
            /\ Save(Others(old.numbers, number.key))
        BY <1>1, <1>11 DEF Forget
    <2>2. PICK left : left = Others(old.numbers, number.key)
        OBVIOUS
    <2>3. [old EXCEPT !.numbers = left].numbers = left /\ storage' = left
        BY <2>1, <2>2 DEF Shown, Save
    <2>4. Keys(storage') \subseteq Keys(storage)
        BY <1>1, <2>2, <2>3, OthersKeys
    <2> QED BY <1>2, <2>1, <2>2, <2>3, <2>4 DEF NewKeysAreOf
<1>12. CASE Created(t) \/ CreatedUnread(t)
    <2>1. PICK flight, page :
            /\ flight \in old.flights /\ flight.state = "stored"
            /\ Page(t, page) /\ Save(Remember(old.numbers, flight.req.phone))
            /\ \/ page = [Landed(old, flight) EXCEPT
                            !.numbers = Remember(old.numbers, flight.req.phone),
                            !.result = ResultOf(t, flight)]
               \/ page = [WithError(Landed(old, flight), "request") EXCEPT
                            !.numbers = Remember(old.numbers, flight.req.phone)]
        BY <1>1, <1>12 DEF Created, CreatedUnread
    <2>2. PICK numbers : numbers = Remember(old.numbers, flight.req.phone)
        OBVIOUS
    <2>3. page.numbers = numbers /\ page.flights = old.flights \ {flight}
        BY <2>1, <2>2 DEF Shown, Landed, WithError
    <2>4. storage' = numbers
        BY <2>1, <2>2 DEF Save
    <2>5. flight.req.phone \in Phones
        <3>1. flight \in Flight
            BY <2>1 DEF Shown
        <3> QED BY <3>1, FormShape DEF Flight
    <2>6. Keys(storage') \subseteq Keys(storage) \cup {flight.req.phone.key}
        BY <1>1, <2>2, <2>4, <2>5, RememberKeys
    <2>7. flight \in tabs[t].flights \ tabs'[t].flights
        BY <1>1, <1>2, <2>1, <2>3
    <2> QED BY <1>2, <2>1, <2>3, <2>4, <2>6, <2>7 DEF NewKeysAreOf
<1> QED BY <1>4, <1>5, <1>6, <1>7, <1>8, <1>9, <1>10, <1>11, <1>12 DEF FlightEnds

(* With a single tab and a storage that works, a number that was forgotten  *)
(* stays so until a link is made with it again (numberChip, saveNumbers).   *)
THEOREM OneTabForgets ==
    ASSUME \A s, t \in Tabs : s = t, ~StorageMayFail
    PROVE  Spec => ForgottenIsGone
<1>1. Init => InSync
    <2> SUFFICES ASSUME Init, NEW t \in Tabs PROVE tabs[t].numbers = storage
        BY DEF InSync
    <2>1. tabs[t] = NewPage(<<>>) /\ storage = <<>>
        BY DEF Init
    <2> QED BY <2>1, NoNumbers, NewPageShape
<1>2. IInv /\ ShapeInv /\ InSync /\ [Next]_vars =>
        InSync' /\ [\A key \in Keys(storage') \ Keys(storage) :
            \E t \in Tabs : \E flight \in tabs[t].flights \ tabs'[t].flights :
                flight.state = "stored" /\ flight.req.phone.key = key]_vars
    <2> SUFFICES ASSUME IInv, ShapeInv, InSync, [Next]_vars
                 PROVE  InSync' /\ [\A key \in Keys(storage') \ Keys(storage) :
                    \E t \in Tabs : \E flight \in tabs[t].flights \ tabs'[t].flights :
                        flight.state = "stored" /\ flight.req.phone.key = key]_vars
        OBVIOUS
    <2>1. CASE UNCHANGED vars
        BY <2>1 DEF vars, InSync
    <2>2. CASE Next
        <3>1. PICK t \in Tabs : tabs'[t].numbers = storage' /\ NewKeysAreOf(t)
            BY <2>2, SyncStep DEF Next
        <3>2. InSync'
            BY <3>1 DEF InSync
        <3> QED BY <3>1, <3>2 DEF NewKeysAreOf
    <2> QED BY <2>1, <2>2
<1> QED BY <1>1, <1>2, Invariant, ShapesKept, PTL DEF Spec, ForgottenIsGone
=============================================================================
