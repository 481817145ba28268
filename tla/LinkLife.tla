------------------------------ MODULE LinkLife ------------------------------
(***************************************************************************)
(* What the service promises its users about links, with no requests, no   *)
(* rows and no failures in it: a link is published once, under an id that  *)
(* no other link has; it can be moved to a free id and its expiry can be   *)
(* changed; and it goes only when an admin has asked for what is at its id *)
(* to be deleted, or when it has expired.  A link that is gone stays gone. *)
(***************************************************************************)
EXTENDS Integers

CONSTANTS
    Ids,    \* the ids a link can have
    Never   \* the expiry of a link that does not expire

VARIABLES
    published,  \* how many links there have ever been
    held,       \* the links there are now
    asked,      \* the ids that deletions under way name
    now         \* the time

lifeVars == <<published, held, asked, now>>

Link == [serial : Nat \ {0}, id : Ids, expires : Nat \cup {Never}]

(* No two of them are one link, or share an id. *)
Distinct(set) ==
    \A l, m \in set : l.serial = m.serial \/ l.id = m.id => l = m

LifeInit ==
    /\ published \in Nat
    /\ held \subseteq Link
    /\ Distinct(held)
    /\ \A l \in held : l.serial <= published
    /\ asked = {}
    /\ now = 0

-----------------------------------------------------------------------------
Free(id) == \A l \in held : l.id # id

Publish(l) ==
    /\ l.serial = published + 1
    /\ Free(l.id)
    /\ published' = published + 1
    /\ held' = held \cup {l}

(* l becomes m, the same link. *)
Change(l, m) ==
    /\ m.serial = l.serial
    /\ m.id = l.id \/ Free(m.id)
    /\ held' = (held \ {l}) \cup {m}
    /\ UNCHANGED published

Withdraw(ids) ==
    /\ ids \subseteq asked
    /\ held' = {l \in held : l.id \notin ids}
    /\ UNCHANGED published

(* Some sweep takes what had expired before a time that has come. *)
Expire(time) ==
    /\ held' = {l \in held : l.expires = Never \/ l.expires >= time}
    /\ UNCHANGED published

LinksChange ==
    \/ \E l \in held' : l \in Link /\ Publish(l)
    \/ \E l \in held, m \in held' : m \in Link /\ Change(l, m)
    \/ \E ids \in SUBSET asked : Withdraw(ids)
    \/ \E time \in 0..now : Expire(time)

(* Admins ask as they like. *)
LifeNext ==
    \/ /\ LinksChange \/ UNCHANGED <<published, held>>
       /\ asked' \in SUBSET Ids
       /\ UNCHANGED now
    \/ /\ now' = now + 1
       /\ UNCHANGED <<published, held, asked>>

LifeSpec == LifeInit /\ [][LifeNext]_lifeVars

LifeTypeOK ==
    /\ published \in Nat
    /\ held \subseteq Link
    /\ asked \subseteq Ids
    /\ now \in Nat
=============================================================================
