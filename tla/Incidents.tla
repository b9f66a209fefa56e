------------------------------ MODULE Incidents ------------------------------
(***************************************************************************)
(* What the Alertmanager receiver promises of an alert, whatever is lost   *)
(* or repeated on the way: for each fingerprint at most one incident is    *)
(* open, an incident that was closed stays closed, and a firing alert is   *)
(* acknowledged only when its incident has been announced.  Announcing     *)
(* twice is allowed: the promise is at least once.                         *)
(***************************************************************************)
EXTENDS Naturals

CONSTANT Fingerprints

VARIABLES open,       \* the open incident of each fingerprint, 0 for none
          used,       \* the incidents there have been
          announced,  \* those that were announced in their channel
          acked       \* those whose firing was acknowledged

vars == <<open, used, announced, acked>>

Init == /\ open = [f \in Fingerprints |-> 0]
        /\ used = {} /\ announced = {} /\ acked = {}

\* Under an id of its own.
Open(f) ==
    /\ open[f] = 0
    /\ open' = [open EXCEPT ![f] = open'[f]]
    /\ open'[f] \notin used \cup {0}
    /\ used' = used \cup {open'[f]}
    /\ UNCHANGED <<announced, acked>>

Close(f) == /\ open[f] # 0
            /\ open' = [open EXCEPT ![f] = 0]
            /\ UNCHANGED <<used, announced, acked>>

Announce == \E i \in used :
    /\ announced' = announced \cup {i}
    /\ UNCHANGED <<open, used, acked>>

\* One answer acknowledges every alert of its batch.
Acknowledge == \E S \in SUBSET announced :
    /\ acked' = acked \cup S
    /\ UNCHANGED <<open, used, announced>>

Next == \/ \E f \in Fingerprints : Open(f) \/ Close(f)
        \/ Announce \/ Acknowledge

Spec == Init /\ [][Next]_vars
=============================================================================
