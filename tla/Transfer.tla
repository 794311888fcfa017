------------------------------ MODULE Transfer ------------------------------
(***************************************************************************)
(* What a stored transfer promises to its sender and its receivers, with   *)
(* no files, locks, sweeps or counters: it is offered, grows part by part, *)
(* is published once it has a part, is then delivered whole to one reader  *)
(* at a time and never more often than its budget, and once it is over it  *)
(* is never offered, extended or opened again.                             *)
(***************************************************************************)
EXTENDS Naturals

CONSTANTS Ids

VARIABLES
    phase,      \* "absent", "uploading", "ready" or "over"
    parts,      \* parts held, 0 outside of uploading and ready
    budget,     \* deliveries allowed
    readers,    \* deliveries under way
    delivered   \* deliveries completed

vars == <<phase, parts, budget, readers, delivered>>

Init ==
    /\ phase = [id \in Ids |-> "absent"]
    /\ parts = [id \in Ids |-> 0]
    /\ budget = [id \in Ids |-> 0]
    /\ readers = [id \in Ids |-> 0]
    /\ delivered = [id \in Ids |-> 0]

Offer(id) ==
    /\ phase[id] = "absent"
    /\ phase' = [phase EXCEPT ![id] = "uploading"]
    /\ budget'[id] \in Nat \ {0}
    /\ budget' = [budget EXCEPT ![id] = budget'[id]]
    /\ UNCHANGED <<parts, readers, delivered>>

Extend(id) ==
    /\ phase[id] = "uploading"
    /\ parts' = [parts EXCEPT ![id] = @ + 1]
    /\ UNCHANGED <<phase, budget, readers, delivered>>

Publish(id) ==
    /\ phase[id] = "uploading"
    /\ parts[id] > 0
    /\ phase' = [phase EXCEPT ![id] = "ready"]
    /\ UNCHANGED <<parts, budget, readers, delivered>>

Open(id) ==
    /\ phase[id] = "ready"
    /\ readers[id] = 0
    /\ delivered[id] < budget[id]
    /\ readers' = [readers EXCEPT ![id] = 1]
    /\ UNCHANGED <<phase, parts, budget, delivered>>

Abandon(id) ==
    /\ readers[id] = 1
    /\ readers' = [readers EXCEPT ![id] = 0]
    /\ UNCHANGED <<phase, parts, budget, delivered>>

\* Revoked or expired; a reader may still be finishing.
Retire(id) ==
    /\ phase[id] \in {"uploading", "ready"}
    /\ phase' = [phase EXCEPT ![id] = "over"]
    /\ parts' = [parts EXCEPT ![id] = 0]
    /\ UNCHANGED <<budget, readers, delivered>>

\* The last delivery of the budget ends the transfer if nothing else has.
Deliver(id) ==
    /\ readers[id] = 1
    /\ readers' = [readers EXCEPT ![id] = 0]
    /\ delivered' = [delivered EXCEPT ![id] = @ + 1]
    /\ IF delivered[id] + 1 = budget[id]
       THEN /\ phase' = [phase EXCEPT ![id] = "over"]
            /\ parts' = [parts EXCEPT ![id] = 0]
       ELSE UNCHANGED <<phase, parts>>
    /\ UNCHANGED budget

Next == \E id \in Ids :
    \/ Offer(id) \/ Extend(id) \/ Publish(id)
    \/ Open(id) \/ Abandon(id) \/ Deliver(id) \/ Retire(id)

Spec == Init /\ [][Next]_vars
=============================================================================
