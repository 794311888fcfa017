------------------------------- MODULE Store -------------------------------
(***************************************************************************)
(* The store-and-forward half of the server: server/store.js together with *)
(* the code registry of server/codes.js that it shares with live rooms.     *)
(*                                                                         *)
(* The process is one Node event loop, so code between two awaits is one   *)
(* atomic step, and every await is a point where any other request, the    *)
(* sweeper or a connection-close callback may run.  Each handler is cut at *)
(* its awaits: the part of it still to come is kept in the task variables. *)
(*                                                                         *)
(* Abstractions.  All parts are one unit long and stand for their index.   *)
(* A request with a wrong token, and a request that is refused, changes    *)
(* nothing and is not a step.  The clock is the four ages isExpired tells  *)
(* apart.  A system call and the code its completion resumes are one step. *)
(*                                                                         *)
(* A definition directly above one with the same parameters, and named for *)
(* what it gets wrong, is a defect the properties are tried against.       *)
(***************************************************************************)
EXTENDS Naturals, Sequences, FiniteSets, Functions

CONSTANTS
    Ids,              \* record ids; generateId never returns one twice
    Codes,            \* the six-digit codes
    Ips,              \* client addresses
    None,             \* no id, no code, no file
    Live,             \* the registry entry of a code held by a live room
    Restored,         \* ownerIp of a record read back from disk
    MaxReadsLimit,    \* config.maxReadsLimit
    MaxFile,          \* config.maxFileBytes, in parts
    Quota,            \* config.storageQuotaBytes, in parts
    MaxUncommitted,   \* config.maxUncommittedPerIp
    MaxQueue,         \* bound: calls waiting on one record's append lock
    Ages,             \* bound: the ages beyond "active" a record reaches
    LiveCodes,        \* bound: the codes live rooms draw
    Faults,           \* which file operations may fail: FaultKinds
    MaxFaults         \* bound: how many of them do

FaultKinds == {"create", "append", "save", "remove", "load"}

ASSUME ConstAssumption ==
    /\ None \notin Ids \cup Codes \cup Seq(Nat)
    /\ Live \notin Ids \cup {None}
    /\ Restored \notin Ips
    /\ IsFiniteSet(Ids)
    /\ MaxReadsLimit \in Nat \ {0}
    /\ MaxFile \in Nat \ {0}
    /\ Quota \in Nat
    /\ MaxUncommitted \in Nat \ {0}
    /\ MaxQueue \in Nat
    /\ Ages \subseteq {"idle", "stale", "past"}
    /\ LiveCodes \subseteq Codes
    /\ Faults \subseteq FaultKinds
    /\ MaxFaults \in Nat

VARIABLES
    \* memory of the process
    rec,              \* the record object of each id
    byId,             \* domain of the map id -> record
    byCode,           \* map code -> id
    registry,         \* codes.js: code -> None, Live or the id it names
    uncommittedByIp,  \* reservations per address
    bytesOnDisk,      \* the counter the quota is checked against
    \* disk
    blob,             \* the parts in <id>.bin in order, or None
    meta,             \* the sidecar <id>.json, or None
    \* handlers suspended at an await
    creation,         \* createUpload of each id
    saves,            \* writeMeta calls whose rename has not landed
    queue,            \* calls waiting on a record's append lock, in order
    appending,        \* what the call at the head of the queue is doing
    removing,         \* the file destroy removes next
    streams,          \* downloads of each record: unopened, and certain to be whole
    sweeping,         \* records the sweeps' snapshots have still to come to
    \* the environment
    age,              \* how old each record is to isExpired
    faults,           \* file operations failed so far
    delivered,        \* history: complete deliveries of each id
    stuck             \* history: the ids of which removeFile gave up on a file

maps   == <<byId, byCode, registry, uncommittedByIp, bytesOnDisk>>
disk   == <<blob, meta>>
locks  == <<queue, appending>>
others == <<removing, streams, sweeping>>
env    == <<age, faults, delivered, stuck>>
vars   == <<rec, maps, disk, creation, saves, locks, others, env>>

----------------------------------------------------------------------------
(* Types *)

Record == [code : Codes \cup {None}, owner : Ips \cup {None, Restored},
           maxReads : Nat, reads : Nat, size : Nat, nextIndex : Nat,
           committed : BOOLEAN, reading : BOOLEAN, deleted : BOOLEAN,
           cleared : BOOLEAN]

Sidecar == [code : Codes \cup {None}, maxReads : Nat, reads : Nat, size : Nat,
            nextIndex : Nat, committed : BOOLEAN, deleted : BOOLEAN]

\* The fields writeMeta persists.
Persisted(r) == [code |-> r.code, maxReads |-> r.maxReads, reads |-> r.reads,
                 size |-> r.size, nextIndex |-> r.nextIndex,
                 committed |-> r.committed, deleted |-> r.deleted]

Blank == [code |-> None, owner |-> None, maxReads |-> 0, reads |-> 0,
          size |-> 0, nextIndex |-> 0, committed |-> FALSE, reading |-> FALSE,
          deleted |-> FALSE, cleared |-> FALSE]

SaveCall == [id : Ids, by : {"create", "append", "commit", "read"}, data : Sidecar]

Call == [op : {"part", "commit"}, index : Nat]

Torn == MaxFile + 1   \* what a failed append may leave: a piece of a part

TypeOK ==
    /\ rec \in [Ids -> Record]
    /\ byId \subseteq Ids
    /\ byCode \in [Codes -> Ids \cup {None}]
    /\ registry \in [Codes -> Ids \cup {None, Live}]
    /\ uncommittedByIp \in [Ips -> Nat]
    /\ bytesOnDisk \in Nat
    /\ blob \in [Ids -> Seq(Nat) \cup {None}]
    /\ meta \in [Ids -> Sidecar \cup {None}]
    /\ creation \in [Ids -> {"none", "blob", "meta", "done", "failed"}]
    /\ saves \subseteq SaveCall
    /\ queue \in [Ids -> Seq(Call)]
    /\ appending \in [Ids -> {"idle", "write", "save", "destroy"}]
    /\ removing \in [Ids -> {"no", "blob", "meta"}]
    /\ streams \in [Ids -> [opening : Nat, whole : Nat]]
    /\ sweeping \subseteq Ids
    /\ age \in [Ids -> {"active", "idle", "stale", "past"}]
    /\ faults \in Nat
    /\ delivered \in [Ids -> Nat]
    /\ stuck \subseteq Ids

Init ==
    /\ rec = [id \in Ids |-> Blank]
    /\ byId = {}
    /\ byCode = [c \in Codes |-> None]
    /\ registry = [c \in Codes |-> None]
    /\ uncommittedByIp = [ip \in Ips |-> 0]
    /\ bytesOnDisk = 0
    /\ blob = [id \in Ids |-> None]
    /\ meta = [id \in Ids |-> None]
    /\ creation = [id \in Ids |-> "none"]
    /\ saves = {}
    /\ queue = [id \in Ids |-> <<>>]
    /\ appending = [id \in Ids |-> "idle"]
    /\ removing = [id \in Ids |-> "no"]
    /\ streams = [id \in Ids |-> [opening |-> 0, whole |-> 0]]
    /\ sweeping = {}
    /\ age = [id \in Ids |-> "active"]
    /\ faults = 0
    /\ delivered = [id \in Ids |-> 0]
    /\ stuck = {}

----------------------------------------------------------------------------
(* Helpers *)

\* The read budget is spent.
ExhaustedLate(r) == r.reads > r.maxReads
Exhausted(r) == r.reads >= r.maxReads

\* The age a of a record: "idle" - no part for incompleteUploadIdleSeconds;
\* "stale" - older than incompleteUploadTtlSeconds; "past" - beyond expiresAt.
ExpiredUnlessStale(r, a) ==
    r.deleted \/ a = "past" \/ (r.committed /\ Exhausted(r)) \/ (~r.committed /\ a = "idle")
isExpired(r, a) ==
    \/ r.deleted
    \/ a = "past"
    \/ r.committed /\ Exhausted(r)
    \/ ~r.committed /\ a \in {"idle", "stale"}

Fails(kind) ==
    /\ kind \in Faults
    /\ faults < MaxFaults
    /\ faults' = faults + 1

Save(id, by, r) == [id |-> id, by |-> by, data |-> Persisted(r)]

\* clearUncommitted: the slots once record r has given up its own.
SlotsTwice(r) ==
    IF r.owner \notin Ips THEN uncommittedByIp
    ELSE [uncommittedByIp EXCEPT ![r.owner] = @ - 1]
SlotsKept(r) == uncommittedByIp
SlotsWithout(r) ==
    IF r.cleared \/ r.committed \/ r.owner \notin Ips
    THEN uncommittedByIp
    ELSE [uncommittedByIp EXCEPT ![r.owner] = IF @ = 0 THEN 0 ELSE @ - 1]

\* The record once a part is in, once committed, once a read is counted, and
\* once destroyed; the last and the second give the slot back.
Grown(r, part) == [r EXCEPT !.size = @ + 1, !.nextIndex = part + 1]
Published(r) == [r EXCEPT !.committed = TRUE, !.cleared = @ \/ ~r.committed]
Served(r) == [r EXCEPT !.reading = FALSE, !.reads = @ + 1]
Ended(r) == [r EXCEPT !.deleted = TRUE, !.cleared = @ \/ ~r.committed]

\* The code of record r is given back if it still leads to id.
ForgetCode(id, r) ==
    /\ byCode' = [byCode EXCEPT ![r.code] = IF @ = id THEN None ELSE @]
    /\ UNCHANGED registry
ReleaseCode(id, r) ==
    IF byCode[r.code] = id
    THEN /\ byCode' = [byCode EXCEPT ![r.code] = None]
         /\ registry' = [registry EXCEPT ![r.code] = None]
    ELSE UNCHANGED <<byCode, registry>>

\* destroy returns at once for a record it has been through before.
NeverDestroyed(r) == FALSE
Destroyed(r) == r.deleted

\* The part of destroy before its first await, for the record object r.
Destroy(id, r) ==
    IF Destroyed(r)
    THEN rec' = [rec EXCEPT ![id] = r] /\ UNCHANGED <<maps, removing>>
    ELSE /\ rec' = [rec EXCEPT ![id] = Ended(r)]
         /\ byId' = byId \ {id}
         /\ ReleaseCode(id, r)
         /\ uncommittedByIp' = SlotsWithout(r)
         /\ bytesOnDisk' = IF bytesOnDisk >= r.size THEN bytesOnDisk - r.size ELSE 0
         /\ removing' = [removing EXCEPT ![id] = "blob"]

----------------------------------------------------------------------------
(* createUpload *)

\* Checks, code allocation and the first write.
CreateUpload(id, ip, code, maxReads) ==
    /\ creation[id] = "none"
    /\ \E declared \in 0..MaxFile : bytesOnDisk + declared <= Quota
    /\ uncommittedByIp[ip] < MaxUncommitted
    /\ registry[code] = None
    /\ registry' = [registry EXCEPT ![code] = id]
    /\ rec' = [rec EXCEPT ![id] = [Blank EXCEPT !.code = code, !.owner = ip,
                                                !.maxReads = maxReads]]
    /\ creation' = [creation EXCEPT ![id] = "blob"]
    /\ UNCHANGED <<byId, byCode, uncommittedByIp, bytesOnDisk, disk, saves, locks,
                   others, env>>

\* The empty blob is on disk; writeMeta begins.
CreateBlob(id) ==
    /\ creation[id] = "blob"
    /\ blob' = [blob EXCEPT ![id] = <<>>]
    /\ creation' = [creation EXCEPT ![id] = "meta"]
    /\ saves' = saves \cup {Save(id, "create", rec[id])}
    /\ UNCHANGED <<rec, maps, meta, locks, others, env>>

\* Writing the blob failed, with or without a file left behind.
CreateBlobFails(id) ==
    /\ creation[id] = "blob"
    /\ Fails("create")
    /\ \/ blob' = [blob EXCEPT ![id] = <<>>]
       \/ UNCHANGED blob
    /\ registry' = [registry EXCEPT ![rec[id].code] = None]
    /\ creation' = [creation EXCEPT ![id] = "failed"]
    /\ UNCHANGED <<rec, byId, byCode, uncommittedByIp, bytesOnDisk, meta, saves, locks,
                   others, age, delivered, stuck>>

----------------------------------------------------------------------------
(* writeMeta: the data was captured at the call, the rename lands later and *)
(* in any order with the other calls.                                       *)

\* createUpload resumes: the record becomes visible.
CreateDone(s) ==
    /\ s.by = "create"
    /\ byId' = byId \cup {s.id}
    /\ byCode' = [byCode EXCEPT ![rec[s.id].code] = s.id]
    /\ uncommittedByIp' = [uncommittedByIp EXCEPT ![rec[s.id].owner] = @ + 1]
    /\ creation' = [creation EXCEPT ![s.id] = "done"]
    /\ UNCHANGED <<rec, registry, bytesOnDisk, locks>>

\* createUpload resumes in its catch: only the code is given back.
CreateFailed(s) ==
    /\ s.by = "create"
    /\ registry' = [registry EXCEPT ![rec[s.id].code] = None]
    /\ creation' = [creation EXCEPT ![s.id] = "failed"]
    /\ UNCHANGED <<rec, byId, byCode, uncommittedByIp, bytesOnDisk, locks>>

\* appendPartLocked resumes, returns or throws, and frees the append lock.
AppendSettled(s) ==
    /\ s.by = "append"
    /\ queue' = [queue EXCEPT ![s.id] = Tail(@)]
    /\ appending' = [appending EXCEPT ![s.id] = "idle"]
    /\ UNCHANGED <<rec, maps, creation>>

\* commitUpload and finish only report the outcome.
OtherSettled(s) ==
    /\ s.by \in {"commit", "read"}
    /\ UNCHANGED <<rec, maps, creation, locks>>

SaveLands(s) ==
    /\ s \in saves
    /\ saves' = saves \ {s}
    /\ meta' = [meta EXCEPT ![s.id] = s.data]
    /\ CreateDone(s) \/ AppendSettled(s) \/ OtherSettled(s)
    /\ UNCHANGED <<blob, others, env>>

SaveFails(s) ==
    /\ s \in saves
    /\ Fails("save")
    /\ saves' = saves \ {s}
    /\ CreateFailed(s) \/ AppendSettled(s) \/ OtherSettled(s)
    /\ UNCHANGED <<disk, others, age, delivered, stuck>>

----------------------------------------------------------------------------
(* appendPart, commitUpload, revoke.  Both of the first two wait for the   *)
(* appends queued before them; a commit resumes before an append that was  *)
(* queued after it, since its reaction was registered first.               *)

AppendPart(id, index) ==
    /\ id \in byId
    /\ Len(queue[id]) < MaxQueue
    /\ queue' = [queue EXCEPT ![id] = Append(@, [op |-> "part", index |-> index])]
    /\ UNCHANGED <<rec, maps, disk, creation, saves, appending, others, env>>

CommitUpload(id) ==
    /\ id \in byId
    /\ rec[id].size > 0
    /\ Len(queue[id]) < MaxQueue
    /\ queue' = [queue EXCEPT ![id] = Append(@, [op |-> "commit", index |-> 0])]
    /\ UNCHANGED <<rec, maps, disk, creation, saves, appending, others, env>>

\* The call that holds the append lock and has not started.
Turn(id, op) ==
    /\ appending[id] = "idle"
    /\ queue[id] # <<>>
    /\ Head(queue[id]).op = op

\* Revoked, committed, the part just acknowledged, or out of order: no effect.
RefusedByState(id) == rec[id].deleted \/ rec[id].committed
RefusedByIndex(id) == rec[id].deleted \/ Head(queue[id]).index # rec[id].nextIndex
Refused(id) ==
    \/ rec[id].deleted
    \/ rec[id].committed
    \/ Head(queue[id]).index # rec[id].nextIndex

AppendRefused(id) ==
    /\ Turn(id, "part")
    /\ Refused(id)
    /\ queue' = [queue EXCEPT ![id] = Tail(@)]
    /\ UNCHANGED <<rec, maps, disk, creation, saves, appending, others, env>>

TooBig(id) ==
    \/ rec[id].size + 1 > MaxFile
    \/ bytesOnDisk + 1 > Quota

\* The upload is destroyed and the lock kept until its files are gone.
AppendDestroys(id) ==
    /\ Turn(id, "part")
    /\ ~Refused(id)
    /\ TooBig(id)
    /\ Destroy(id, rec[id])
    /\ appending' = [appending EXCEPT ![id] = "destroy"]
    /\ UNCHANGED <<disk, creation, saves, queue, streams, sweeping, env>>

AppendThrows(id) ==
    /\ appending[id] = "destroy"
    /\ removing[id] = "no"
    /\ queue' = [queue EXCEPT ![id] = Tail(@)]
    /\ appending' = [appending EXCEPT ![id] = "idle"]
    /\ UNCHANGED <<rec, maps, disk, creation, saves, others, env>>

AppendStarts(id) ==
    /\ Turn(id, "part")
    /\ ~Refused(id)
    /\ ~TooBig(id)
    /\ appending' = [appending EXCEPT ![id] = "write"]
    /\ UNCHANGED <<rec, maps, disk, creation, saves, queue, others, env>>

\* appendFile creates a file that is missing.
Appended(id, part) == IF blob[id] = None THEN <<part>> ELSE Append(blob[id], part)

\* appendFile is done: counters move, whatever happened to the record since.
AppendWrites(id) ==
    LET part == Head(queue[id]).index
        r == Grown(rec[id], part)
    IN  /\ appending[id] = "write"
        /\ blob' = [blob EXCEPT ![id] = Appended(id, part)]
        /\ rec' = [rec EXCEPT ![id] = r]
        /\ age' = [age EXCEPT ![id] = IF @ = "idle" THEN "active" ELSE @]
        /\ bytesOnDisk' = bytesOnDisk + 1
        /\ saves' = saves \cup {Save(id, "append", r)}
        /\ appending' = [appending EXCEPT ![id] = "save"]
        /\ UNCHANGED <<byId, byCode, registry, uncommittedByIp, meta, creation, queue,
                       others, faults, delivered, stuck>>

\* appendFile failed; a piece of the part may be in the file.
AppendWriteFails(id) ==
    /\ appending[id] = "write"
    /\ Fails("append")
    /\ \/ blob' = [blob EXCEPT ![id] = Appended(id, Torn)]
       \/ UNCHANGED blob
    /\ queue' = [queue EXCEPT ![id] = Tail(@)]
    /\ appending' = [appending EXCEPT ![id] = "idle"]
    /\ UNCHANGED <<rec, maps, meta, creation, saves, others, age, delivered, stuck>>

\* commitUpload after its await.
CommitRuns(id) ==
    LET r == Published(rec[id])
    IN  /\ Turn(id, "commit")
        /\ queue' = [queue EXCEPT ![id] = Tail(@)]
        /\ IF rec[id].deleted
           THEN UNCHANGED <<rec, maps, saves>>
           ELSE /\ rec' = [rec EXCEPT ![id] = r]
                /\ uncommittedByIp' = SlotsWithout(rec[id])
                /\ saves' = saves \cup {Save(id, "commit", r)}
                /\ UNCHANGED <<byId, byCode, registry, bytesOnDisk>>
        /\ UNCHANGED <<disk, creation, appending, others, env>>

Revoke(id) ==
    /\ id \in byId
    /\ Destroy(id, rec[id])
    /\ UNCHANGED <<disk, creation, saves, locks, streams, sweeping, env>>

----------------------------------------------------------------------------
(* destroy after its first await: one removeFile, then the other.  A       *)
(* removal that fails five times over is given up.                         *)

NextRemoval(id) == [removing EXCEPT ![id] = IF @ = "blob" THEN "meta" ELSE "no"]

Remove(id) ==
    /\ removing[id] # "no"
    /\ removing' = NextRemoval(id)
    /\ IF removing[id] = "blob"
       THEN blob' = [blob EXCEPT ![id] = None] /\ UNCHANGED meta
       ELSE meta' = [meta EXCEPT ![id] = None] /\ UNCHANGED blob
    /\ UNCHANGED <<rec, maps, creation, saves, locks, streams, sweeping, env>>

RemoveFails(id) ==
    /\ removing[id] # "no"
    /\ Fails("remove")
    /\ removing' = NextRemoval(id)
    /\ stuck' = stuck \cup {id}
    /\ UNCHANGED <<rec, maps, disk, creation, saves, locks, streams, sweeping, age,
                   delivered>>

----------------------------------------------------------------------------
(* Downloads: peek, beginRead and finish, as routes.js drives them.        *)

PeekableUncommitted(id) == id \in byId /\ ~isExpired(rec[id], age[id])
Peekable(id) == id \in byId /\ rec[id].committed /\ ~isExpired(rec[id], age[id])

NeverBusy(id) == FALSE
Busy(id) == rec[id].reading

BeginRead(code) ==
    LET id == byCode[code]
    IN  /\ id # None
        /\ Peekable(id)
        /\ ~Busy(id)
        /\ rec' = [rec EXCEPT ![id].reading = TRUE]
        /\ streams' = [streams EXCEPT ![id].opening = @ + 1]
        /\ UNCHANGED <<maps, disk, creation, saves, locks, removing, sweeping, env>>

\* The stream opens the file.  From then on its removal does not disturb the
\* reader; a missing file, or one that is not session.size long, never gets
\* further than "opening".
OpenBlob(id) ==
    /\ streams[id].opening > 0
    /\ blob[id] # None
    /\ Len(blob[id]) = rec[id].size
    /\ streams' = [streams EXCEPT ![id] = [opening |-> @.opening - 1, whole |-> @.whole + 1]]
    /\ UNCHANGED <<rec, maps, disk, creation, saves, locks, removing, sweeping, env>>

\* finish(false): a dropped connection, a missing file, or a wrong length.
FinishShort(id) ==
    /\ \/ /\ streams[id].opening > 0
          /\ streams' = [streams EXCEPT ![id].opening = @ - 1]
       \/ /\ streams[id].whole > 0
          /\ streams' = [streams EXCEPT ![id].whole = @ - 1]
    /\ rec' = [rec EXCEPT ![id].reading = FALSE]
    /\ UNCHANGED <<maps, disk, creation, saves, locks, removing, sweeping, env>>

\* finish(true): the read is counted and may be the last.
FinishComplete(id) ==
    LET r == Served(rec[id])
    IN  /\ streams[id].whole > 0
        /\ streams' = [streams EXCEPT ![id].whole = @ - 1]
        /\ delivered' = [delivered EXCEPT ![id] = @ + 1]
        /\ IF Exhausted(r)
           THEN Destroy(id, r) /\ UNCHANGED saves
           ELSE /\ rec' = [rec EXCEPT ![id] = r]
                /\ saves' = saves \cup {Save(id, "read", r)}
                /\ UNCHANGED <<maps, removing>>
        /\ UNCHANGED <<disk, creation, locks, sweeping, age, faults, stuck>>

----------------------------------------------------------------------------
(* sweep: each pass walks a snapshot of the map, in the order of insertion, *)
(* and waits for every removal.  The timer starts a pass whether or not the *)
(* last one is through, so a record may be come to at any time: before,    *)
(* between and after the others.                                           *)

SweepStart ==
    /\ ~(byId \subseteq sweeping)
    /\ sweeping' = sweeping \cup byId
    /\ UNCHANGED <<rec, maps, disk, creation, saves, locks, removing, streams, env>>

SweepableRead(id) == isExpired(rec[id], age[id])
Sweepable(id) == ~rec[id].reading /\ isExpired(rec[id], age[id])

SweepSkips(id) ==
    /\ id \in sweeping
    /\ ~Sweepable(id)
    /\ sweeping' = sweeping \ {id}
    /\ UNCHANGED <<rec, maps, disk, creation, saves, locks, removing, streams, env>>

SweepDestroys(id) ==
    /\ id \in sweeping
    /\ Sweepable(id)
    /\ Destroy(id, rec[id])
    /\ sweeping' = sweeping \ {id}
    /\ UNCHANGED <<disk, creation, saves, locks, streams, env>>

----------------------------------------------------------------------------
(* The environment: time passes, live rooms use the same registry.          *)

Older == [active |-> {"idle", "stale", "past"}, idle |-> {"stale", "past"},
          stale |-> {"past"}, past |-> {}]

GrowOlder(id) ==
    /\ creation[id] = "done"
    /\ \E a \in Older[age[id]] \cap Ages : age' = [age EXCEPT ![id] = a]
    /\ UNCHANGED <<rec, maps, disk, creation, saves, locks, others, faults, delivered,
                   stuck>>

\* live:host allocates a code and closeRoom releases it (server/live.js).
LiveCode(code) ==
    /\ \/ registry[code] = None /\ registry' = [registry EXCEPT ![code] = Live]
       \/ registry[code] = Live /\ registry' = [registry EXCEPT ![code] = None]
    /\ UNCHANGED <<rec, byId, byCode, uncommittedByIp, bytesOnDisk, disk, creation,
                   saves, locks, others, env>>

----------------------------------------------------------------------------

\* What a client can ask of the store.
Requests ==
    \/ \E id \in Ids, ip \in Ips, code \in Codes, n \in 1..MaxReadsLimit :
           CreateUpload(id, ip, code, n)
    \/ \E id \in Ids, index \in 0..MaxFile : AppendPart(id, index)
    \/ \E id \in Ids : CommitUpload(id) \/ Revoke(id)
    \/ \E code \in Codes : BeginRead(code)

\* The calls waiting on one record's append lock.
LockStep(id) ==
    \/ AppendRefused(id) \/ AppendDestroys(id) \/ AppendThrows(id)
    \/ AppendStarts(id) \/ AppendWrites(id)
    \/ CommitRuns(id)

Reading(id) == OpenBlob(id) \/ FinishShort(id) \/ FinishComplete(id)

Swept(id) == SweepSkips(id) \/ SweepDestroys(id)

FileFaults ==
    \/ \E id \in Ids : CreateBlobFails(id) \/ AppendWriteFails(id) \/ RemoveFails(id)
    \/ \E s \in saves : SaveFails(s)

Next ==
    \/ Requests
    \/ \E id \in Ids :
           \/ CreateBlob(id) \/ LockStep(id) \/ Remove(id) \/ Reading(id)
           \/ Swept(id) \/ GrowOlder(id)
    \/ \E s \in saves : SaveLands(s)
    \/ SweepStart
    \/ FileFaults
    \/ \E code \in LiveCodes : LiveCode(code)

Spec == Init /\ [][Next]_vars

\* The event loop runs every ready continuation, the timer goes on starting
\* sweeps, and each of them comes to every record of its snapshot.
Fairness ==
    /\ \A id \in Ids :
           /\ WF_vars(CreateBlob(id)) /\ WF_vars(LockStep(id)) /\ WF_vars(Remove(id))
           /\ WF_vars(Swept(id))
    /\ WF_vars(\E s \in saves : SaveLands(s))
    /\ WF_vars(SweepStart)

FairSpec == Spec /\ Fairness

----------------------------------------------------------------------------
(* Properties *)

\* The three maps that name a transfer agree: a code in byCode leads to a live
\* record that carries it and is the registry's entry; a live record is found
\* under its code; and the registry holds a code for an id only while that
\* record is live or still being created (store.js byId/byCode, codes.js).
CodesConsistent ==
    /\ \A c \in Codes : byCode[c] # None =>
           /\ byCode[c] \in byId
           /\ rec[byCode[c]].code = c
           /\ registry[c] = byCode[c]
    /\ \A id \in byId : ~rec[id].deleted /\ byCode[rec[id].code] = id
    /\ \A c \in Codes : registry[c] \in Ids =>
           \/ byCode[c] = registry[c]
           \/ creation[registry[c]] \in {"blob", "meta"} /\ rec[registry[c]].code = c

\* An address is charged for exactly its live uncommitted records: every path
\* that ends a reservation - commit, revoke, oversize, quota, sweep - returns
\* its slot once (clearUncommitted).
Reserved(ip) == {id \in byId : rec[id].owner = ip /\ ~rec[id].committed}

SlotExact == \A ip \in Ips : uncommittedByIp[ip] = Cardinality(Reserved(ip))

\* The parts 0 .. n-1, each once and in order.
Parts(n) == [i \in 1..n |-> i - 1]

\* While no append has failed, the blob of a live upload between two appends is
\* the parts it acknowledged, each once, whatever the client sent concurrently
\* (the append lock and the index check of appendPartLocked).
BlobExact ==
    "append" \notin Faults =>
        \A id \in byId :
            /\ blob[id] = Parts(rec[id].nextIndex)
            /\ rec[id].size = rec[id].nextIndex

\* What commit published never changes: no append queued before or after the
\* commit moves the blob or its size until the record is destroyed.
CommittedFrozen ==
    [][\A id \in Ids : rec[id].committed /\ ~rec'[id].deleted =>
           /\ rec'[id].committed
           /\ rec'[id].size = rec[id].size
           /\ rec'[id].nextIndex = rec[id].nextIndex
           /\ blob'[id] = blob[id]]_vars

\* A transfer is never delivered whole more often than its read budget, even
\* when a delivery completes after a revocation or an expiry (beginRead).
ReadBudget == \A id \in Ids : delivered[id] <= rec[id].maxReads

\* Only its sender takes a transfer away from a reader: no sweep, and no other
\* record's handler, destroys a record while it is being read (sweep).
ReaderUndisturbed ==
    [][\A id \in Ids : streams'[id] # [opening |-> 0, whole |-> 0]
                        /\ ~rec[id].deleted /\ rec'[id].deleted
           => Revoke(id)]_vars

\* A transfer that was published and is over leaves no ciphertext behind, unless
\* removeFile gave up: no handler still under way writes its blob again.
CollectedIsGone ==
    \A id \in Ids \ stuck :
        rec[id].deleted /\ rec[id].committed /\ removing[id] = "no" => blob[id] = None

\* The same for every transfer, published or not.
RemovedFromDisk ==
    \A id \in Ids \ stuck :
        rec[id].deleted /\ removing[id] = "no" /\ queue[id] = <<>> => blob[id] = None

\* The store is an implementation of the transfers of module Transfer: the
\* phase is read off the maps and flags, and an upload still being created, or
\* a part still being written, is not yet part of it.
Phase(id) ==
    IF id \in byId THEN IF rec[id].committed THEN "ready" ELSE "uploading"
    ELSE IF rec[id].deleted THEN "over" ELSE "absent"

Promise == INSTANCE Transfer WITH
    phase   <- [id \in Ids |-> Phase(id)],
    parts   <- [id \in Ids |-> IF id \in byId THEN rec[id].size ELSE 0],
    budget  <- [id \in Ids |-> IF Phase(id) = "absent" THEN 0 ELSE rec[id].maxReads],
    readers <- [id \in Ids |-> streams[id].opening + streams[id].whole]

\* Every handler of the store is one of those transfers' steps or none.
ImplementsTransfer == Promise!Spec

\* The counter behind the quota never reads lower than the bytes of the live
\* records, however often destroy is reached (the comment on destroy).
TotalSize(S) == FoldFunctionOnSet(+, 0, [id \in Ids |-> rec[id].size], S)
NeverUndercounted == bytesOnDisk >= TotalSize(byId)

\* What has run out goes: a record past its deadline leaves the maps unless
\* someone is reading it, and an upload its sender left, idle or too old, moves
\* on, commits or is destroyed, so its address gets the slot back.
ExpiryEnforced(id) ==
    id \in byId /\ age[id] = "past" ~> id \notin byId \/ rec[id].reading

AbandonedReleased(id) ==
    id \in byId /\ ~rec[id].committed /\ age[id] = "stale"
        ~> id \notin byId \/ rec[id].committed

TimeEndsThem == \A id \in Ids : ExpiryEnforced(id) /\ AbandonedReleased(id)
=============================================================================
