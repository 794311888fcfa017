---------------------------- MODULE StoreRestart ----------------------------
(***************************************************************************)
(* The store across restarts: at any moment the process may end, by a      *)
(* crash or by the shutdown of server/index.js, which waits for no file    *)
(* operation.  Memory and suspended handlers are lost, disk stays, and     *)
(* store.init reads the sidecars back before the server listens again.     *)
(***************************************************************************)
EXTENDS Store

CONSTANTS MaxCrashes   \* bound: how often the process ends

ASSUME MaxCrashesAssumption == MaxCrashes \in Nat

VARIABLES
    boot,     \* whether init is running, the sidecars it has still to read,
              \* and the record whose removal it awaits
    crashes,
    ended     \* history: the records destroyed before the last restart

rvars == <<vars, boot, crashes, ended>>

Running == [on |-> FALSE, todo |-> {}, at |-> None]

RTypeOK ==
    /\ TypeOK
    /\ boot \in [on : BOOLEAN, todo : SUBSET Ids, at : Ids \cup {None}]
    /\ crashes \in 0..MaxCrashes
    /\ ended \subseteq Ids

RInit == Init /\ boot = Running /\ crashes = 0 /\ ended = {}

----------------------------------------------------------------------------

\* An id that was given out is not given out again; none names a record until
\* init has read its sidecar.
Crash ==
    /\ crashes < MaxCrashes
    /\ crashes' = crashes + 1
    /\ ended' = ended \cup {id \in Ids : rec[id].deleted}
    /\ rec' = [id \in Ids |-> Blank]
    /\ byId' = {}
    /\ byCode' = [c \in Codes |-> None]
    /\ registry' = [c \in Codes |-> None]
    /\ uncommittedByIp' = [ip \in Ips |-> 0]
    /\ bytesOnDisk' = 0
    /\ creation' = [id \in Ids |-> IF creation[id] = "none" THEN "none" ELSE "failed"]
    /\ saves' = {}
    /\ queue' = [id \in Ids |-> <<>>]
    /\ appending' = [id \in Ids |-> "idle"]
    /\ removing' = [id \in Ids |-> "no"]
    /\ streams' = [id \in Ids |-> [opening |-> 0, whole |-> 0]]
    /\ sweeping' = {}
    /\ boot' = [on |-> TRUE, todo |-> {id \in Ids : meta[id] # None}, at |-> None]
    /\ UNCHANGED <<disk, env>>

\* The record object init makes of a sidecar.  Its size is what the blob has.
LoadedDeleted(id) ==
    [Blank EXCEPT !.code = meta[id].code, !.owner = Restored, !.deleted = TRUE]
LoadedAnew(id) ==
    [Blank EXCEPT !.code = meta[id].code, !.owner = Restored,
                  !.maxReads = meta[id].maxReads]
Loaded(id) ==
    [code |-> meta[id].code, owner |-> Restored,
     maxReads |-> meta[id].maxReads, reads |-> meta[id].reads,
     size |-> IF blob[id] = None THEN meta[id].size ELSE Len(blob[id]),
     nextIndex |-> meta[id].nextIndex, committed |-> meta[id].committed,
     reading |-> FALSE, deleted |-> FALSE, cleared |-> FALSE]

\* init takes up the next sidecar.
Takes(id) ==
    /\ boot.on
    /\ boot.at = None
    /\ id \in boot.todo

\* Files init must not keep: no blob, expired, or a code that is taken.
UnservableAlone(id) == blob[id] = None \/ isExpired(Loaded(id), age[id])
Unservable(id) ==
    \/ blob[id] = None
    \/ isExpired(Loaded(id), age[id])
    \/ registry[meta[id].code] # None

\* A sidecar that says deleted: its record is over, only its files are removed.
BootDebris(id) ==
    /\ Takes(id)
    /\ meta[id].deleted
    /\ rec' = [rec EXCEPT ![id].deleted = TRUE]
    /\ creation' = [creation EXCEPT ![id] = "done"]
    /\ removing' = [removing EXCEPT ![id] = "blob"]
    /\ boot' = [boot EXCEPT !.todo = @ \ {id}, !.at = id]
    /\ UNCHANGED <<maps, disk, saves, locks, streams, sweeping, env, crashes, ended>>

BootDestroys(id) ==
    /\ Takes(id)
    /\ ~meta[id].deleted
    /\ Unservable(id)
    /\ Destroy(id, Loaded(id))
    /\ creation' = [creation EXCEPT ![id] = "done"]
    /\ boot' = [boot EXCEPT !.todo = @ \ {id}, !.at = id]
    /\ UNCHANGED <<disk, saves, locks, streams, sweeping, env, crashes, ended>>

BootRestores(id) ==
    /\ Takes(id)
    /\ ~meta[id].deleted
    /\ ~Unservable(id)
    /\ rec' = [rec EXCEPT ![id] = Loaded(id)]
    /\ byId' = byId \cup {id}
    /\ byCode' = [byCode EXCEPT ![meta[id].code] = id]
    /\ registry' = [registry EXCEPT ![meta[id].code] = id]
    /\ bytesOnDisk' = bytesOnDisk + Len(blob[id])
    /\ creation' = [creation EXCEPT ![id] = "done"]
    /\ boot' = [boot EXCEPT !.todo = @ \ {id}]
    /\ UNCHANGED <<uncommittedByIp, disk, saves, locks, others, env, crashes, ended>>

\* A sidecar that cannot be read or parsed is removed, and its blob is not.
BootDrops(id) ==
    /\ Takes(id)
    /\ Fails("load")
    /\ meta' = [meta EXCEPT ![id] = None]
    /\ boot' = [boot EXCEPT !.todo = @ \ {id}]
    /\ UNCHANGED <<rec, maps, blob, creation, saves, locks, others, age, delivered, stuck,
                   crashes, ended>>

\* The awaited removal is over, or every sidecar is read and the server listens.
BootResumes ==
    /\ boot.on
    /\ IF boot.at # None
       THEN removing[boot.at] = "no" /\ boot' = [boot EXCEPT !.at = None]
       ELSE boot.todo = {} /\ boot' = Running
    /\ UNCHANGED <<vars, crashes, ended>>

RNext ==
    \/ ~boot.on /\ Next /\ UNCHANGED <<boot, crashes, ended>>
    \/ boot.on /\ UNCHANGED <<boot, crashes, ended>> /\ \E id \in Ids : Remove(id) \/ RemoveFails(id)
    \/ \E id \in Ids : BootDebris(id) \/ BootDestroys(id) \/ BootRestores(id) \/ BootDrops(id)
    \/ BootResumes
    \/ Crash

RSpec == RInit /\ [][RNext]_rvars

----------------------------------------------------------------------------
(* Properties *)

\* From the moment a sidecar says committed, no crash, retry or restart makes the
\* blob anything but what it is, or nothing.
PublishedNeverRewritten ==
    [][\A id \in Ids : meta[id] # None =>
           (meta[id].committed => blob'[id] \in {blob[id], None})]_rvars

\* A transfer that still has both of its files, whose sidecar does not say
\* deleted and of which no removal was given up, is in the maps whenever the
\* server is up: init has found it again.  A blob whose sidecar is gone, or was
\* never written, is not spoken of: no start finds it (the readdir of init).
BothFilesFound ==
    \A id \in Ids \ stuck :
        /\ ~boot.on
        /\ blob[id] # None
        /\ meta[id] # None
        /\ removing[id] = "no"
        => meta[id].deleted \/ id \in byId

\* A transfer that was revoked, expired or used up does not come back.
StaysOver == ended \cap byId = {}

\* Such a transfer is gone for good: no restart serves it again, and once its
\* files were removed nothing writes them a second time (the comments on the
\* debris of init and on removeFile).
GoneForGood == StaysOver /\ RemovedFromDisk

\* A server that is up never counts fewer bytes than its records hold, whatever
\* init found on disk (the comment on destroy).
CountedAfterBoot == ~boot.on => NeverUndercounted
=============================================================================
