----------------------------- MODULE MCSessions -----------------------------
(***************************************************************************)
(* Small instances of Sessions for TLC: a second is two ticks.             *)
(***************************************************************************)
EXTENDS Sessions

UserWith(password) ==
    [hash |-> [password |-> password, salt |-> 0], enabled |-> TRUE,
     authorities |-> Authorities]

(* Nobody yet, or the provisioned admin alone. *)
AtMostAdmin == {[n \in Names |-> NoUser],
    [n \in Names |-> IF n = AdminUsername THEN UserWith(AdminPassword) ELSE NoUser]}

Everybody == {[n \in Names |-> UserWith(AdminPassword)]}

FullOrNone == {Authorities, {"ROLE_ADMIN"}}
=============================================================================
