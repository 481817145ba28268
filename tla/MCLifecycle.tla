---------------------------- MODULE MCLifecycle ----------------------------
(***************************************************************************)
(* Two instances, of an older build and of a newer one, with a request of  *)
(* the public at a time in the newer.                                      *)
(***************************************************************************)
EXTENDS Lifecycle

CONSTANTS older, newer, public, actuator

MCInstances == {older, newer}

MCBuild == [i \in MCInstances |-> IF i = older THEN 1 ELSE 2]

MCServers == {public, actuator}

MCMaxRequests == [i \in MCInstances |-> [s \in MCServers |->
    IF i = newer /\ s = public THEN 1 ELSE 0]]
=============================================================================
