------------------------- MODULE StoreRestartProofs -------------------------
(***************************************************************************)
(* Theorems about module StoreRestart: what survives a process that may    *)
(* end at any step, with file operations that may fail before and after.   *)
(*                                                                         *)
(* The invariants of module Store that speak of one life of the process    *)
(* are those of StoreSafety, and their steps are reused here.  What is new *)
(* is what init may rely on when it reads the disk back, and therefore     *)
(* what every handler must leave there at each of its awaits.              *)
(***************************************************************************)
EXTENDS StoreRestart, StoreSafety

----------------------------------------------------------------------------
(* The disk *)

\* The content of id is settled: createUpload is over, no part is being written,
\* and no record of it would let one in.
Sealed(id) ==
    /\ creation[id] \in {"done", "failed"}
    /\ appending[id] # "write"
    /\ id \in byId => rec[id].committed

\* A record that may be served: it has a code, and a budget that was kept.
Usable(d) == d.code \in Codes /\ d.reads <= d.maxReads

\* What a sidecar d of id promises, on disk or on its way there.
SidecarOf(id, d) ==
    /\ ~d.deleted => Usable(d)
    /\ d.committed => Sealed(id)

SaveOf(s) ==
    /\ SidecarOf(s.id, s.data)
    /\ s.by \in {"commit", "read"} => s.data.committed
    /\ appending[s.id] # "write"

\* The blob is gone for good, or every sidecar still to land says deleted.
Emptied(id) == blob[id] = None /\ appending[id] # "write"
Marked(id) == \A s \in saves : s.id = id => s.data.deleted

\* What a removal has left behind of a record, as far as it got.
Leftover(id) ==
    /\ removing[id] = "meta" => Emptied(id) \/ Marked(id)
    /\ removing[id] = "no" =>
           Emptied(id) \/ (Marked(id) /\ (meta[id] # None => meta[id].deleted))

DiskOf(id) ==
    /\ meta[id] # None => SidecarOf(id, meta[id])
    /\ \A s \in saves : s.id = id => SaveOf(s)
    /\ rec[id].committed => appending[id] # "write"
    /\ rec[id].reading => rec[id].committed
    /\ rec[id].deleted /\ id \notin stuck => Leftover(id)

DiskInv == \A id \in Ids : DiskOf(id)

\* A step that changes nothing a sidecar of id relies on.
LEMMA DiskFrame ==
    ASSUME NEW id \in Ids, DiskOf(id),
           meta'[id] = meta[id],
           \A s \in saves' : s.id = id => s \in saves,
           appending'[id] = "write" => appending[id] = "write",
           id \in byId' => id \in byId,
           creation[id] \in {"done", "failed"} => creation'[id] \in {"done", "failed"},
           SameEnd(rec[id], rec'[id]),
           rec'[id].reading => rec'[id].committed,
           rec[id].deleted => removing'[id] = removing[id],
           rec[id].deleted /\ Emptied(id) => Emptied(id)',
           stuck \subseteq stuck'
    PROVE  DiskOf(id)'
<1>1. Sealed(id) => Sealed(id)'
  BY DEF Sealed, SameEnd
<1>2. meta'[id] # None => SidecarOf(id, meta[id])'
  BY <1>1 DEF DiskOf, SidecarOf
<1>3. \A s \in saves' : s.id = id => SaveOf(s)'
  BY <1>1 DEF DiskOf, SaveOf, SidecarOf
<1>4. rec'[id].deleted /\ id \notin stuck' => Leftover(id)'
  <2>1. Marked(id) => Marked(id)'
    BY DEF Marked
  <2> QED BY <2>1 DEF DiskOf, Leftover, SameEnd
<1> QED BY <1>2, <1>3, <1>4 DEF DiskOf, SameEnd

\* The rest of the records, at a step of one.
LEMMA DiskOthers ==
    ASSUME NEW id \in Ids, DiskOf(id),
           meta'[id] = meta[id], blob'[id] = blob[id],
           \A s \in saves' : s.id = id => s \in saves,
           appending'[id] = appending[id], creation'[id] = creation[id],
           removing'[id] = removing[id], rec'[id] = rec[id],
           id \in byId' => id \in byId,
           stuck \subseteq stuck'
    PROVE  DiskOf(id)'
<1>1. Emptied(id) => Emptied(id)'
  BY DEF Emptied
<1>2. SameEnd(rec[id], rec'[id]) /\ (rec'[id].reading => rec'[id].committed)
  BY DEF SameEnd, DiskOf
<1> QED BY <1>1, <1>2, DiskFrame

\* The part of destroy before its first await, for a record of this life.
LEMMA DiskDestroy ==
    ASSUME TypeOK, DiskInv, NEW id \in Ids, NEW r \in Record, SameEnd(rec[id], r),
           r.reading => r.committed, Destroy(id, r),
           \A i \in Ids : appending'[i] = "write" => appending[i] = "write",
           UNCHANGED <<creation, saves, disk, stuck>>
    PROVE  DiskInv'
<1>0. /\ rec \in [Ids -> Record] /\ DOMAIN removing = Ids
      /\ UNCHANGED <<meta, blob>> /\ \A i \in Ids : DiskOf(i)
  BY DEF TypeOK, DiskInv, disk
<1>1. \A i \in Ids : Emptied(i) => Emptied(i)'
  BY <1>0 DEF Emptied
<1>2. CASE r.deleted
  <2>1. rec' = [rec EXCEPT ![id] = r] /\ UNCHANGED <<byId, removing>>
    BY <1>2 DEF Destroy, Destroyed, maps
  <2>2. \A i \in Ids : SameEnd(rec[i], rec'[i]) /\ (rec'[i].reading => rec'[i].committed)
    BY <1>0, <2>1 DEF SameEnd, DiskOf
  <2> QED BY <1>0, <1>1, <2>1, <2>2, DiskFrame DEF DiskInv
<1>3. CASE ~r.deleted
  <2>1. /\ rec' = [rec EXCEPT ![id] = Ended(r)]
        /\ byId' = byId \ {id}
        /\ removing' = [removing EXCEPT ![id] = "blob"]
    BY <1>3 DEF Destroy, Destroyed
  <2>2. /\ rec'[id] = Ended(r) /\ removing'[id] = "blob"
        /\ \A i \in Ids \ {id} : rec'[i] = rec[i] /\ removing'[i] = removing[i]
    BY <1>0, <2>1
  <2>3. /\ Ended(r).committed = rec[id].committed
        /\ Ended(r).reading => Ended(r).committed
    BY DEF Ended, SameEnd, Record
  <2>4. DiskOf(id)'
    <3>1. Sealed(id) => Sealed(id)'
      BY <2>1 DEF Sealed
    <3>2. Leftover(id)'
      BY <2>2 DEF Leftover
    <3>3. meta'[id] # None => SidecarOf(id, meta[id])'
      BY <1>0, <3>1 DEF DiskOf, SidecarOf
    <3>4. \A s \in saves' : s.id = id => SaveOf(s)'
      BY <1>0, <3>1 DEF DiskOf, SaveOf, SidecarOf
    <3> QED BY <1>0, <2>2, <2>3, <3>2, <3>3, <3>4 DEF DiskOf
  <2>5. \A i \in Ids \ {id} : DiskOf(i)'
    <3> SUFFICES ASSUME NEW i \in Ids \ {id} PROVE DiskOf(i)'
      OBVIOUS
    <3>1. SameEnd(rec[i], rec'[i]) /\ (rec'[i].reading => rec'[i].committed)
      BY <1>0, <2>2 DEF SameEnd, DiskOf
    <3> QED BY <1>0, <1>1, <2>1, <2>2, <3>1, DiskFrame
  <2> QED BY <2>4, <2>5 DEF DiskInv
<1> QED BY <1>2, <1>3

\* A writeMeta joins those under way.
LEMMA DiskSaves ==
    ASSUME NEW id \in Ids, NEW by, NEW r \in Record, DiskInv,
           rec[id].deleted = r.deleted,
           saves' = saves \cup {Save(id, by, r)},
           UNCHANGED meta,
           creation' = creation \/ (by = "create" /\ ~r.deleted /\ ~Sealed(id)),
           \A i \in Ids \ {id} : /\ rec'[i] = rec[i] /\ creation'[i] = creation[i]
                                 /\ appending'[i] = appending[i] /\ blob'[i] = blob[i],
           UNCHANGED <<byId, removing, stuck>>,
           rec'[id] = r,
           ~r.deleted => Usable(r),
           r.committed => Sealed(id)',
           rec[id].committed => r.committed,
           by \in {"commit", "read"} => r.committed,
           r.reading => r.committed,
           appending'[id] # "write",
           r.deleted /\ Emptied(id) => blob'[id] = None
    PROVE  DiskInv'
<1>0. \A i \in Ids : DiskOf(i)
  BY DEF DiskInv
<1> DEFINE new == Save(id, by, r)
<1>1. /\ new.id = id /\ new.by = by
      /\ new.data.deleted = r.deleted /\ new.data.committed = r.committed
      /\ new.data.code = r.code /\ new.data.reads = r.reads /\ new.data.maxReads = r.maxReads
  BY DEF Save, Persisted
<1>2. Sealed(id) => Sealed(id)'
  BY DEF Sealed
<1>3. SaveOf(new)'
  BY <1>1 DEF SaveOf, SidecarOf, Usable
<1>4. \A s \in saves' : s.id = id => SaveOf(s)'
  <2>1. \A s \in saves : s.id = id => SaveOf(s)'
    BY <1>0, <1>2 DEF DiskOf, SaveOf, SidecarOf
  <2> QED BY <1>3, <2>1
<1>5. meta'[id] # None => SidecarOf(id, meta[id])'
  BY <1>0, <1>2 DEF DiskOf, SidecarOf
<1>6. rec'[id].deleted /\ id \notin stuck' => Leftover(id)'
  <2>1. Emptied(id) /\ r.deleted => Emptied(id)'
    BY DEF Emptied
  <2>2. Marked(id) /\ r.deleted => Marked(id)'
    BY <1>1 DEF Marked
  <2> QED BY <1>0, <2>1, <2>2 DEF DiskOf, Leftover
<1>7. DiskOf(id)'
  BY <1>4, <1>5, <1>6 DEF DiskOf
<1>8. \A i \in Ids \ {id} : DiskOf(i)'
  <2>1. \A i \in Ids \ {id} : \A s \in saves' : s.id = i => s \in saves
    BY <1>1
  <2> QED BY <1>0, <2>1, DiskOthers
<1> QED BY <1>7, <1>8 DEF DiskInv

LEMMA DiskInit == Init => DiskInv
BY DEF Init, DiskInv, DiskOf, Blank

\* Every handler of the store keeps the promises of the disk, whatever it awaits.
LEMMA DiskStep ==
    ASSUME TypeInv, ReaderInv, LifeInv, CodesInv, DiskInv, [Next]_vars
    PROVE  DiskInv'
<1>0. /\ TypeOK /\ LockOK /\ SavesInv
      /\ \A i \in Ids : DiskOf(i) /\ LifeOf(i) /\ ReaderOf(i) /\ rec[i] \in Record
      /\ rec \in [Ids -> Record]
      /\ DOMAIN blob = Ids /\ DOMAIN meta = Ids /\ DOMAIN creation = Ids
      /\ DOMAIN appending = Ids /\ DOMAIN removing = Ids /\ DOMAIN queue = Ids
      /\ byId \subseteq Ids
  BY DEF TypeInv, TypeOK, ReaderInv, LifeInv, DiskInv
<1>1. ASSUME NEW id \in Ids, NEW ip \in Ips, NEW code \in Codes, NEW n \in 1..MaxReadsLimit,
             CreateUpload(id, ip, code, n)
      PROVE  DiskInv'
  <2>1. /\ creation[id] = "none"
        /\ rec' = [rec EXCEPT ![id] = [Blank EXCEPT !.code = code, !.owner = ip, !.maxReads = n]]
        /\ creation' = [creation EXCEPT ![id] = "blob"]
        /\ UNCHANGED <<byId, blob, meta, saves, appending, removing, stuck>>
    BY <1>1 DEF CreateUpload, disk, locks, others, env
  <2>2. /\ rec'[id].deleted = FALSE /\ rec'[id].committed = FALSE /\ rec'[id].reading = FALSE
        /\ rec[id].deleted = FALSE /\ rec[id].committed = FALSE
        /\ \A i \in Ids \ {id} : rec'[i] = rec[i] /\ creation'[i] = creation[i]
    BY <1>0, <2>1 DEF Blank, LifeOf, Record
  <2>3. DiskOf(id)'
    <3>1. SameEnd(rec[id], rec'[id])
      BY <2>2 DEF SameEnd
    <3>2. creation[id] \notin {"done", "failed"} /\ UNCHANGED <<byId, meta, saves, appending, stuck>>
      BY <2>1
    <3> QED BY <1>0, <2>2, <3>1, <3>2, DiskFrame
  <2>4. \A i \in Ids \ {id} : DiskOf(i)'
    BY <1>0, <2>1, <2>2, DiskOthers
  <2> QED BY <2>3, <2>4 DEF DiskInv
<1>2. ASSUME NEW id \in Ids, CreateBlob(id)
      PROVE  DiskInv'
  <2>1. /\ creation[id] = "blob"
        /\ blob' = [blob EXCEPT ![id] = <<>>]
        /\ creation' = [creation EXCEPT ![id] = "meta"]
        /\ saves' = saves \cup {Save(id, "create", rec[id])}
        /\ UNCHANGED <<rec, byId, meta, appending, removing, stuck>>
    BY <1>2 DEF CreateBlob, maps, locks, others, env
  <2>2. /\ ~rec[id].deleted /\ ~rec[id].committed /\ ~rec[id].reading
        /\ appending[id] # "write" /\ ~Sealed(id)
    BY <1>0, <2>1 DEF LifeOf, Sealed
  <2>3. Usable(rec[id])
    BY <1>0, <2>1 DEF CodesInv, Creating, ReaderOf, Usable
  <2>4. \A i \in Ids \ {id} : blob'[i] = blob[i] /\ creation'[i] = creation[i]
    BY <1>0, <2>1
  <2> QED BY <1>0, <2>1, <2>2, <2>3, <2>4, DiskSaves
<1>3. ASSUME NEW id \in Ids, CreateBlobFails(id)
      PROVE  DiskInv'
  <2>1. /\ creation[id] = "blob"
        /\ \/ blob' = [blob EXCEPT ![id] = <<>>]
           \/ blob' = blob
        /\ creation' = [creation EXCEPT ![id] = "failed"]
        /\ UNCHANGED <<rec, byId, meta, saves, appending, removing, stuck>>
    BY <1>3 DEF CreateBlobFails, locks, others
  <2>2. /\ ~rec[id].deleted
        /\ \A i \in Ids \ {id} : blob'[i] = blob[i] /\ creation'[i] = creation[i]
    BY <1>0, <2>1 DEF LifeOf
  <2>3. DiskOf(id)'
    <3>1. SameEnd(rec[id], rec'[id]) /\ (rec'[id].reading => rec'[id].committed)
      BY <1>0, <2>1 DEF SameEnd, DiskOf
    <3> QED BY <1>0, <2>1, <2>2, <3>1, DiskFrame
  <2>4. \A i \in Ids \ {id} : DiskOf(i)'
    BY <1>0, <2>1, <2>2, DiskOthers
  <2> QED BY <2>3, <2>4 DEF DiskInv
<1>4. ASSUME NEW s \in saves, SaveLands(s) \/ SaveFails(s)
      PROVE  DiskInv'
  <2> DEFINE id == s.id
  <2>0. id \in Ids /\ SaveOf(s)
    BY <1>0 DEF TypeOK, SaveCall, DiskOf
  <2>1. /\ saves' = saves \ {s}
        /\ UNCHANGED <<rec, blob, removing, stuck>>
        /\ meta' = meta \/ meta' = [meta EXCEPT ![id] = s.data]
    BY <1>4 DEF SaveLands, SaveFails, CreateDone, CreateFailed, AppendSettled, OtherSettled,
                disk, others, env
  <2>2. /\ byId' = byId \/ (byId' = byId \cup {id} /\ s.by = "create")
        /\ creation' = creation
           \/ (s.by = "create" /\ creation' = [creation EXCEPT ![id] = "done"])
           \/ (s.by = "create" /\ creation' = [creation EXCEPT ![id] = "failed"])
        /\ appending' = appending \/ appending' = [appending EXCEPT ![id] = "idle"]
    BY <1>4 DEF SaveLands, SaveFails, CreateDone, CreateFailed, AppendSettled, OtherSettled,
                maps, locks
  <2>3. /\ \A i \in Ids \ {id} : /\ meta'[i] = meta[i] /\ creation'[i] = creation[i]
                                 /\ appending'[i] = appending[i]
                                 /\ i \in byId' => i \in byId
        /\ meta'[id] = meta[id] \/ meta'[id] = s.data
        /\ appending'[id] # "write"
    BY <1>0, <2>0, <2>1, <2>2 DEF SaveOf
  <2>4. \A i \in Ids \ {id} : DiskOf(i)'
    BY <1>0, <2>1, <2>3, DiskOthers
  <2>5. Sealed(id) => Sealed(id)'
    <3>1. Sealed(id) => s.by # "create"
      BY <1>0 DEF SavesInv, Sealed
    <3> QED BY <2>1, <2>2, <2>3, <3>1 DEF Sealed
  <2>6. \A t \in saves' : t.id = id => SaveOf(t)'
    BY <1>0, <2>0, <2>1, <2>3, <2>5 DEF DiskOf, SaveOf, SidecarOf
  <2>7. meta'[id] # None => SidecarOf(id, meta[id])'
    BY <1>0, <2>0, <2>3, <2>5 DEF DiskOf, SaveOf, SidecarOf
  <2>8. rec'[id].deleted /\ id \notin stuck' => Leftover(id)'
    <3>1. Emptied(id) => Emptied(id)'
      BY <2>1, <2>3 DEF Emptied
    <3>2. Marked(id) => Marked(id)' /\ s.data.deleted
      BY <2>1 DEF Marked
    <3> QED BY <1>0, <2>0, <2>1, <2>3, <3>1, <3>2 DEF DiskOf, Leftover
  <2>9. DiskOf(id)'
    BY <1>0, <2>0, <2>1, <2>3, <2>6, <2>7, <2>8 DEF DiskOf
  <2> QED BY <2>4, <2>9 DEF DiskInv
<1>5. ASSUME NEW id \in Ids, Revoke(id) \/ AppendDestroys(id) \/ SweepDestroys(id)
      PROVE  DiskInv'
  <2>1. Destroy(id, rec[id]) /\ UNCHANGED <<creation, saves, disk, stuck>>
    BY <1>5 DEF Revoke, AppendDestroys, SweepDestroys, env
  <2>2. \A i \in Ids : appending'[i] = "write" => appending[i] = "write"
    BY <1>0, <1>5 DEF Revoke, AppendDestroys, SweepDestroys, locks
  <2>3. SameEnd(rec[id], rec[id]) /\ (rec[id].reading => rec[id].committed)
    BY <1>0 DEF SameEnd, DiskOf
  <2> QED BY <1>0, <2>1, <2>2, <2>3, DiskDestroy
<1>6. ASSUME NEW id \in Ids,
             \/ CommitUpload(id) \/ AppendRefused(id) \/ AppendThrows(id) \/ AppendWriteFails(id)
             \/ OpenBlob(id) \/ FinishShort(id) \/ SweepSkips(id) \/ GrowOlder(id)
             \/ \E index \in 0..MaxFile : AppendPart(id, index)
             \/ \E code \in Codes : BeginRead(code) /\ id = byCode[code]
      PROVE  DiskInv'
  <2>1. UNCHANGED <<byId, creation, meta, saves, removing, stuck>>
    BY <1>6 DEF CommitUpload, AppendPart, AppendRefused, AppendThrows, AppendWriteFails, OpenBlob,
                FinishShort, SweepSkips, GrowOlder, BeginRead, maps, disk, others, env
  <2>2. \/ rec' = rec
        \/ rec' = [rec EXCEPT ![id] = [rec[id] EXCEPT !.reading = FALSE]]
        \/ rec[id].committed /\ rec' = [rec EXCEPT ![id] = [rec[id] EXCEPT !.reading = TRUE]]
    BY <1>6 DEF CommitUpload, AppendPart, AppendRefused, AppendThrows, AppendWriteFails, OpenBlob,
                FinishShort, SweepSkips, GrowOlder, BeginRead, Peekable
  <2>3. \A i \in Ids : SameEnd(rec[i], rec'[i]) /\ (rec'[i].reading => rec'[i].committed)
    <3>1. \A b \in BOOLEAN : /\ SameEnd(rec[id], [rec[id] EXCEPT !.reading = b])
                             /\ [rec[id] EXCEPT !.reading = b].reading = b
                             /\ [rec[id] EXCEPT !.reading = b].committed = rec[id].committed
      BY <1>0 DEF SameEnd, Record
    <3>2. \A i \in Ids : SameEnd(rec[i], rec[i]) /\ (rec[i].reading => rec[i].committed)
      BY <1>0 DEF SameEnd, DiskOf
    <3> QED BY <1>0, <2>2, <3>1, <3>2
  <2>4. \A i \in Ids : (appending'[i] = "write" => appending[i] = "write")
                       /\ (appending[i] # "write" => blob'[i] = blob[i])
    BY <1>0, <1>6 DEF CommitUpload, AppendPart, AppendRefused, AppendThrows, AppendWriteFails,
                      OpenBlob, FinishShort, SweepSkips, GrowOlder, BeginRead, disk, locks
  <2>5. \A i \in Ids : Emptied(i) => Emptied(i)'
    BY <2>4 DEF Emptied
  <2> QED BY <1>0, <2>1, <2>3, <2>4, <2>5, DiskFrame DEF DiskInv
<1>7. ASSUME NEW code \in Codes, BeginRead(code)
      PROVE  DiskInv'
  <2>1. byCode[code] \in Ids
    BY <1>0, <1>7 DEF BeginRead, TypeOK
  <2> QED BY <1>6, <1>7, <2>1
<1>8. ASSUME SweepStart \/ (\E code \in LiveCodes : LiveCode(code))
             \/ UNCHANGED vars
      PROVE  DiskInv'
  <2>1. UNCHANGED <<rec, byId, creation, appending, meta, blob, saves, removing, stuck>>
    BY <1>8 DEF SweepStart, LiveCode, vars, maps, disk, locks, others, env
  <2> QED BY <1>0, <2>1, DiskOthers DEF DiskInv
<1>9. ASSUME NEW id \in Ids, AppendStarts(id)
      PROVE  DiskInv'
  <2>1. /\ appending[id] = "idle" /\ queue[id] # <<>>
        /\ ~rec[id].deleted /\ ~rec[id].committed
        /\ appending' = [appending EXCEPT ![id] = "write"]
        /\ UNCHANGED <<rec, byId, creation, meta, blob, saves, removing, stuck>>
    BY <1>9 DEF AppendStarts, Turn, Refused, maps, disk, others, env
  <2>2. creation[id] = "done" /\ id \in byId
    BY <1>0, <2>1 DEF LifeOf
  <2>3. ~Sealed(id)
    BY <2>1, <2>2 DEF Sealed
  <2>4. \A s \in saves : s.id # id
    <3> SUFFICES ASSUME NEW s \in saves, s.id = id PROVE FALSE
      OBVIOUS
    <3>1. SaveOf(s) /\ s.by \in {"create", "append", "commit", "read"}
      BY <1>0 DEF DiskOf, TypeOK, SaveCall
    <3>2. s.by # "create"
      BY <1>0, <2>2 DEF SavesInv
    <3>3. s.by # "append"
      BY <1>0, <2>1 DEF LockOK
    <3>4. s.data.committed
      BY <3>1, <3>2, <3>3 DEF SaveOf
    <3> QED BY <2>3, <3>1, <3>4 DEF SaveOf, SidecarOf
  <2>5. DiskOf(id)'
    <3>1. meta'[id] # None => SidecarOf(id, meta[id])'
      BY <1>0, <2>1, <2>3 DEF DiskOf, SidecarOf
    <3> QED BY <1>0, <2>1, <2>4, <3>1 DEF DiskOf
  <2>6. \A i \in Ids \ {id} : DiskOf(i)'
    BY <1>0, <2>1, DiskOthers
  <2> QED BY <2>5, <2>6 DEF DiskInv
<1>10. ASSUME NEW id \in Ids, AppendWrites(id)
       PROVE  DiskInv'
  <2> DEFINE part == Head(queue[id]).index
             r == Grown(rec[id], part)
  <2>1. /\ appending[id] = "write"
        /\ blob' = [blob EXCEPT ![id] = Appended(id, part)]
        /\ rec' = [rec EXCEPT ![id] = r]
        /\ saves' = saves \cup {Save(id, "append", r)}
        /\ appending' = [appending EXCEPT ![id] = "save"]
        /\ UNCHANGED <<byId, meta, creation, removing, stuck>>
    BY <1>10 DEF AppendWrites, others
  <2>2. creation[id] = "done" /\ ~rec[id].committed /\ ~rec[id].reading
    BY <1>0, <2>1 DEF LifeOf, DiskOf
  <2>3. /\ r.deleted = rec[id].deleted /\ r.committed = rec[id].committed
        /\ r.reading = rec[id].reading
        /\ r.code = rec[id].code /\ r.reads = rec[id].reads /\ r.maxReads = rec[id].maxReads
    BY <1>0 DEF Grown, Record
  <2>4. r \in Record
    <3>1. queue[id] # <<>> /\ queue[id] \in Seq(Call)
      BY <1>0, <2>1 DEF LockOK, TypeOK
    <3>2. Head(queue[id]) \in Call
      BY <3>1
    <3>3. part \in Nat
      BY <3>2 DEF Call
    <3> QED BY <1>0, <3>3, GrownType
  <2> HIDE DEF r, part
  <2>5. ~r.deleted => Usable(r)
    <3>1. ~r.deleted => id \in byId
      BY <1>0, <2>2, <2>3 DEF LifeOf
    <3> QED BY <1>0, <2>3, <3>1 DEF CodesInv, ReaderOf, Usable
  <2>6. /\ rec'[id] = r /\ appending'[id] = "save" /\ ~Emptied(id)
        /\ \A i \in Ids \ {id} : /\ rec'[i] = rec[i] /\ blob'[i] = blob[i]
                                 /\ appending'[i] = appending[i]
    BY <1>0, <2>1 DEF Emptied
  <2> QED BY <2>1, <2>2, <2>3, <2>4, <2>5, <2>6, DiskSaves
<1>11. ASSUME NEW id \in Ids, CommitRuns(id)
       PROVE  DiskInv'
  <2> DEFINE r == Published(rec[id])
  <2>1. /\ appending[id] = "idle" /\ queue[id] # <<>>
        /\ UNCHANGED <<byId, creation, meta, blob, appending, removing, stuck>>
    BY <1>11 DEF CommitRuns, Turn, maps, disk, others, env
  <2>2. CASE rec[id].deleted
    <3>1. UNCHANGED <<rec, saves>>
      BY <1>11, <2>2 DEF CommitRuns
    <3> QED BY <1>0, <2>1, <3>1, DiskOthers DEF DiskInv
  <2>3. CASE ~rec[id].deleted
    <3>1. /\ rec' = [rec EXCEPT ![id] = r]
          /\ saves' = saves \cup {Save(id, "commit", r)}
      BY <1>11, <2>3 DEF CommitRuns
    <3>2. /\ r.deleted = rec[id].deleted /\ r.committed = TRUE
          /\ r.code = rec[id].code /\ r.reads = rec[id].reads /\ r.maxReads = rec[id].maxReads
      BY <1>0 DEF Published, Record
    <3>3. r \in Record
      BY <1>0, PublishedType
    <3> HIDE DEF r
    <3>4. creation[id] = "done" /\ id \in byId
      BY <1>0, <2>1, <2>3 DEF LifeOf
    <3>5. Usable(r)
      BY <1>0, <3>2, <3>4 DEF CodesInv, ReaderOf, Usable
    <3>6. rec'[id] = r /\ \A i \in Ids \ {id} : rec'[i] = rec[i]
      BY <1>0, <3>1
    <3>7. Sealed(id)'
      BY <2>1, <3>2, <3>4, <3>6 DEF Sealed
    <3>8. Emptied(id) => blob'[id] = None
      BY <2>1 DEF Emptied
    <3> QED BY <2>1, <3>1, <3>2, <3>3, <3>5, <3>6, <3>7, <3>8, DiskSaves
  <2> QED BY <2>2, <2>3
<1>12. ASSUME NEW id \in Ids, Remove(id)
       PROVE  DiskInv'
  <2>1. /\ removing[id] # "no"
        /\ removing' = [removing EXCEPT ![id] = IF @ = "blob" THEN "meta" ELSE "no"]
        /\ IF removing[id] = "blob"
           THEN blob' = [blob EXCEPT ![id] = None] /\ meta' = meta
           ELSE meta' = [meta EXCEPT ![id] = None] /\ blob' = blob
        /\ UNCHANGED <<rec, byId, creation, saves, appending, stuck>>
    BY <1>12 DEF Remove, NextRemoval, maps, locks, env
  <2>2. \A i \in Ids \ {id} : DiskOf(i)'
    <3>1. \A i \in Ids \ {id} : /\ removing'[i] = removing[i]
                                /\ blob'[i] = blob[i] /\ meta'[i] = meta[i]
      BY <1>0, <2>1
    <3> QED BY <1>0, <2>1, <3>1, DiskOthers
  <2>3. Sealed(id) => Sealed(id)'
    BY <2>1 DEF Sealed
  <2>4. /\ meta'[id] # None => SidecarOf(id, meta[id])'
        /\ \A s \in saves' : s.id = id => SaveOf(s)'
    <3>1. meta'[id] # None => meta'[id] = meta[id]
      BY <1>0, <2>1
    <3> QED BY <1>0, <2>1, <2>3, <3>1 DEF DiskOf, SidecarOf, SaveOf
  <2>5. id \notin stuck' /\ rec'[id].deleted => Leftover(id)'
    <3>1. CASE removing[id] = "blob"
      <4>1. removing'[id] = "meta" /\ blob'[id] = None
        BY <1>0, <2>1, <3>1
      <4>2. CASE appending[id] = "write"
        <5>1. \A s \in saves : s.id # id
          BY <1>0, <4>2 DEF DiskOf, SaveOf
        <5> QED BY <2>1, <4>1, <5>1 DEF Leftover, Marked
      <4>3. CASE appending[id] # "write"
        BY <2>1, <4>1, <4>3 DEF Leftover, Emptied
      <4> QED BY <4>2, <4>3
    <3>2. CASE removing[id] = "meta"
      <4>1. removing'[id] = "no" /\ meta'[id] = None /\ blob' = blob
        BY <1>0, <2>1, <3>2
      <4>2. (Emptied(id) => Emptied(id)') /\ (Marked(id) => Marked(id)')
        BY <2>1, <4>1 DEF Emptied, Marked
      <4> QED BY <1>0, <2>1, <3>2, <4>1, <4>2 DEF DiskOf, Leftover
    <3> QED BY <1>0, <2>1, <3>1, <3>2 DEF TypeOK
  <2>6. DiskOf(id)'
    BY <1>0, <2>1, <2>4, <2>5 DEF DiskOf
  <2> QED BY <2>2, <2>6 DEF DiskInv
<1>13. ASSUME NEW id \in Ids, RemoveFails(id)
       PROVE  DiskInv'
  <2>1. /\ \A i \in Ids \ {id} : removing'[i] = removing[i]
        /\ stuck' = stuck \cup {id}
        /\ UNCHANGED <<rec, byId, creation, saves, appending, meta, blob>>
    BY <1>0, <1>13 DEF RemoveFails, NextRemoval, maps, disk, locks
  <2>2. \A i \in Ids \ {id} : DiskOf(i)'
    BY <1>0, <2>1, DiskOthers
  <2>3. Sealed(id) => Sealed(id)'
    BY <2>1 DEF Sealed
  <2>4. DiskOf(id)'
    BY <1>0, <2>1, <2>3 DEF DiskOf, SidecarOf, SaveOf
  <2> QED BY <2>2, <2>4 DEF DiskInv
<1>14. ASSUME NEW id \in Ids, FinishComplete(id)
       PROVE  DiskInv'
  <2> DEFINE r == Served(rec[id])
  <2>1. rec[id].reading /\ rec[id].committed
    <3>1. streams[id].whole > 0 /\ streams[id] \in [opening : Nat, whole : Nat]
      BY <1>0, <1>14 DEF FinishComplete, TypeOK
    <3>2. streams[id].opening + streams[id].whole # 0
      BY <3>1
    <3> QED BY <1>0, <3>2 DEF ReaderOf, DiskOf
  <2>2. /\ r.deleted = rec[id].deleted /\ r.committed = rec[id].committed
        /\ r.reading = FALSE /\ r.code = rec[id].code
    BY <1>0 DEF Served, Record
  <2>3. r \in Record
    BY <1>0, ServedType
  <2>4. CASE Exhausted(r)
    <3>1. Destroy(id, r) /\ UNCHANGED <<creation, saves, disk, appending, stuck>>
      BY <1>14, <2>4 DEF FinishComplete, locks
    <3>2. SameEnd(rec[id], r)
      BY <2>2 DEF SameEnd
    <3> HIDE DEF r
    <3> QED BY <1>0, <2>2, <2>3, <3>1, <3>2, DiskDestroy
  <2>5. CASE ~Exhausted(r)
    <3>1. /\ rec' = [rec EXCEPT ![id] = r]
          /\ saves' = saves \cup {Save(id, "read", r)}
          /\ UNCHANGED <<byId, creation, meta, blob, appending, removing, stuck>>
      BY <1>14, <2>5 DEF FinishComplete, maps, disk, locks
    <3>2. r.reads <= r.maxReads
      BY <2>3, <2>5 DEF Exhausted, Record
    <3> HIDE DEF r
    <3>3. rec'[id] = r /\ \A i \in Ids \ {id} : rec'[i] = rec[i]
      BY <1>0, <3>1
    <3>4. creation[id] = "done" /\ appending[id] # "write"
      BY <1>0, <2>1 DEF LifeOf, DiskOf
    <3>5. ~r.deleted => Usable(r)
      <4>1. ~r.deleted => id \in byId
        BY <1>0, <2>2, <3>4 DEF LifeOf
      <4> QED BY <2>2, <3>2, <4>1 DEF CodesInv, Usable
    <3>6. Sealed(id)'
      BY <2>1, <2>2, <3>1, <3>3, <3>4 DEF Sealed
    <3>7. Emptied(id) => blob'[id] = None
      BY <3>1 DEF Emptied
    <3> QED BY <2>1, <2>2, <2>3, <3>1, <3>3, <3>4, <3>5, <3>6, <3>7, DiskSaves
  <2> QED BY <2>4, <2>5
<1> QED BY <1>1, <1>2, <1>3, <1>4, <1>5, <1>6, <1>7, <1>8, <1>9, <1>10, <1>11, <1>12, <1>13,
           <1>14, Steps

----------------------------------------------------------------------------
(* The process ends and starts again *)

\* While init runs it is alone with the disk, and every sidecar without a record
\* is one it has still to read.
Quiet ==
    /\ saves = {}
    /\ \A id \in Ids : appending[id] = "idle"
    /\ \A id \in boot.todo : meta[id] # None /\ creation[id] = "failed"

BootInv ==
    /\ boot.on => Quiet
    /\ \A id \in Ids : meta[id] # None /\ creation[id] # "done" => boot.on /\ id \in boot.todo

RTypes ==
    /\ TypeInv
    /\ boot \in [on : BOOLEAN, todo : SUBSET Ids, at : Ids \cup {None}]
    /\ crashes \in 0..MaxCrashes
    /\ ended \subseteq Ids

RInv ==
    /\ RTypes
    /\ ReaderInv
    /\ LifeInv
    /\ CodesInv
    /\ DiskInv
    /\ BootInv

Boots(id) == BootDebris(id) \/ BootDestroys(id) \/ BootRestores(id)

\* A step is one of the store's, init's or the end of the process.
LEMMA RSteps ==
    ASSUME [RNext]_rvars
    PROVE  \/ [Next]_vars /\ ~boot.on /\ UNCHANGED <<boot, crashes, ended>>
           \/ /\ boot.on /\ UNCHANGED <<boot, crashes, ended>>
              /\ \E id \in Ids : Remove(id) \/ RemoveFails(id)
           \/ \E id \in Ids : Boots(id)
           \/ \E id \in Ids : BootDrops(id)
           \/ BootResumes
           \/ Crash
           \/ UNCHANGED rvars
BY DEF RNext, rvars, Boots

LEMMA RInit0 == RInit => RInv
<1> SUFFICES ASSUME RInit PROVE RInv
  OBVIOUS
<1>1. Init /\ boot = Running /\ crashes = 0 /\ ended = {}
  BY DEF RInit
<1>2. RTypes
  BY <1>1, TypeInit, MaxCrashesAssumption DEF RTypes, Running
<1>3. BootInv
  BY <1>1 DEF BootInv, Running, Init
<1> QED BY <1>1, <1>2, <1>3, ReaderInit, LifeInit, CodesInit, DiskInit DEF RInv

\* createUpload's own writeMeta is the one that makes a record exist, and no
\* sidecar is written without one.
LEMMA SidecarsHaveRecords ==
    ASSUME TypeOK, SavesInv, [Next]_vars, NEW i \in Ids, creation'[i] # "done"
    PROVE  creation[i] # "done" /\ meta'[i] \in {meta[i], None}
<1>0. DOMAIN creation = Ids /\ DOMAIN meta = Ids
  BY DEF TypeOK
<1>1. ASSUME NEW id \in Ids,
             \/ \E ip \in Ips, code \in Codes, n \in 1..MaxReadsLimit : CreateUpload(id, ip, code, n)
             \/ CreateBlob(id) \/ CreateBlobFails(id)
      PROVE  creation[i] # "done" /\ meta'[i] \in {meta[i], None}
  <2>1. /\ creation[id] # "done" /\ meta' = meta
        /\ \E c \in {"blob", "meta", "failed"} : creation' = [creation EXCEPT ![id] = c]
    BY <1>1 DEF CreateUpload, CreateBlob, CreateBlobFails, disk
  <2> QED BY <1>0, <2>1
<1>2. ASSUME NEW s \in saves, SaveLands(s) \/ SaveFails(s)
      PROVE  creation[i] # "done" /\ meta'[i] \in {meta[i], None}
  <2>1. CASE s.by = "create"
    <3>1. creation[s.id] = "meta"
      BY <2>1 DEF SavesInv
    <3>2. \/ /\ creation' = [creation EXCEPT ![s.id] = "done"]
             /\ meta' = [meta EXCEPT ![s.id] = s.data]
          \/ /\ creation' = [creation EXCEPT ![s.id] = "failed"]
             /\ meta' = meta
      BY <1>2, <2>1 DEF SaveLands, SaveFails, CreateDone, CreateFailed, AppendSettled,
                        OtherSettled, disk
    <3> QED BY <1>0, <3>1, <3>2
  <2>2. CASE s.by # "create"
    <3>1. creation' = creation
      BY <1>2, <2>2 DEF SaveLands, SaveFails, CreateDone, CreateFailed, AppendSettled,
                        OtherSettled
    <3>2. s.id # i
      BY <2>2, <3>1 DEF SavesInv
    <3>3. meta'[i] = meta[i]
      BY <1>0, <1>2, <3>2 DEF SaveLands, SaveFails, disk
    <3> QED BY <3>1, <3>3
  <2> QED BY <2>1, <2>2
<1>3. ASSUME creation' = creation, meta' = meta
      PROVE  creation[i] # "done" /\ meta'[i] \in {meta[i], None}
  BY <1>3
<1>4. ASSUME NEW id \in Ids, Remove(id) \/ RemoveFails(id)
      PROVE  creation[i] # "done" /\ meta'[i] \in {meta[i], None}
  <2>1. creation' = creation /\ (meta' = meta \/ meta' = [meta EXCEPT ![id] = None])
    BY <1>4 DEF Remove, RemoveFails, disk
  <2> QED BY <1>0, <2>1
<1>5. ASSUME NEW id \in Ids,
             \/ CommitUpload(id) \/ Revoke(id)
             \/ AppendRefused(id) \/ AppendDestroys(id) \/ AppendThrows(id)
             \/ AppendStarts(id) \/ AppendWrites(id) \/ AppendWriteFails(id) \/ CommitRuns(id)
             \/ OpenBlob(id) \/ FinishShort(id) \/ FinishComplete(id)
             \/ SweepSkips(id) \/ SweepDestroys(id) \/ GrowOlder(id)
             \/ \E index \in 0..MaxFile : AppendPart(id, index)
      PROVE  creation' = creation /\ meta' = meta
  BY <1>5 DEF CommitUpload, Revoke, AppendRefused, AppendDestroys, AppendThrows, AppendStarts,
              AppendWrites, AppendWriteFails, CommitRuns, OpenBlob, FinishShort, FinishComplete,
              SweepSkips, SweepDestroys, GrowOlder, AppendPart, disk
<1>6. ASSUME SweepStart \/ (\E code \in LiveCodes : LiveCode(code))
             \/ (\E code \in Codes : BeginRead(code)) \/ UNCHANGED vars
      PROVE  creation' = creation /\ meta' = meta
  BY <1>6 DEF SweepStart, LiveCode, BeginRead, vars, disk
<1> QED BY <1>1, <1>2, <1>3, <1>4, <1>5, <1>6, Steps

\* A step of the store while the server is up, or of a removal init waits for.
LEMMA RStoreStep ==
    ASSUME RInv, [Next]_vars, UNCHANGED <<boot, crashes, ended>>,
           boot.on => \E id \in Ids : Remove(id) \/ RemoveFails(id)
    PROVE  RInv'
<1>0. /\ TypeInv /\ ReaderInv /\ LifeInv /\ CodesInv /\ DiskInv /\ BootInv
      /\ TypeOK /\ SavesInv /\ \A i \in Ids : LifeOf(i)
      /\ DOMAIN meta = Ids /\ DOMAIN creation = Ids
  BY DEF RInv, RTypes, TypeInv, TypeOK, LifeInv
<1>1. TypeInv' /\ ReaderInv' /\ LifeInv' /\ CodesInv' /\ DiskInv'
  BY <1>0, TypeStep, ReaderStep, LifeStep, CodesStep, DiskStep
<1>2. CASE boot.on
  <2>1. PICK id \in Ids : Remove(id) \/ RemoveFails(id)
    BY <1>2
  <2>2. /\ removing[id] # "no" /\ UNCHANGED <<creation, saves, appending>>
        /\ \A i \in Ids \ {id} : meta'[i] = meta[i]
    BY <1>0, <2>1 DEF Remove, RemoveFails, disk, locks
  <2>3. creation[id] = "done"
    BY <1>0, <2>2 DEF LifeOf
  <2>4. BootInv'
    BY <1>0, <1>2, <2>2, <2>3 DEF BootInv, Quiet, RInv, RTypes
  <2> QED BY <1>1, <2>4 DEF RInv, RTypes
<1>3. CASE ~boot.on
  <2>1. \A i \in Ids : creation[i] # "done" => meta[i] = None
    BY <1>0, <1>3 DEF BootInv
  <2>2. \A i \in Ids : creation'[i] # "done" => meta'[i] = None
    BY <1>0, <2>1, SidecarsHaveRecords
  <2>3. BootInv'
    BY <1>3, <2>2 DEF BootInv
  <2> QED BY <1>1, <2>3 DEF RInv, RTypes
<1> QED BY <1>2, <1>3

\* The process ends: what it knew is lost, and init is to read every sidecar.
LEMMA RCrash ==
    ASSUME RInv, Crash
    PROVE  RInv'
<1>0. /\ TypeOK /\ boot \in [on : BOOLEAN, todo : SUBSET Ids, at : Ids \cup {None}]
      /\ \A i \in Ids : DiskOf(i)
      /\ crashes \in 0..MaxCrashes /\ ended \subseteq Ids
      /\ None \notin Ids /\ Live \notin Ids
  BY ConstAssumption DEF RInv, RTypes, TypeInv, DiskInv
<1>1. /\ rec' = [id \in Ids |-> Blank]
      /\ byId' = {} /\ saves' = {}
      /\ byCode' = [c \in Codes |-> None] /\ registry' = [c \in Codes |-> None]
      /\ uncommittedByIp' = [ip \in Ips |-> 0] /\ bytesOnDisk' = 0
      /\ creation' = [id \in Ids |-> IF creation[id] = "none" THEN "none" ELSE "failed"]
      /\ queue' = [id \in Ids |-> <<>>]
      /\ appending' = [id \in Ids |-> "idle"]
      /\ removing' = [id \in Ids |-> "no"]
      /\ streams' = [id \in Ids |-> [opening |-> 0, whole |-> 0]]
      /\ sweeping' = {}
      /\ boot' = [on |-> TRUE, todo |-> {id \in Ids : meta[id] # None}, at |-> None]
      /\ UNCHANGED <<blob, meta, age, faults, delivered, stuck>>
      /\ crashes < MaxCrashes /\ crashes' = crashes + 1
      /\ ended' = ended \cup {id \in Ids : rec[id].deleted}
  BY DEF Crash, disk, env
<1>2. Blank \in Record
  BY DEF Blank, Record
<1>3. TypeOK'
  BY <1>0, <1>1, <1>2 DEF TypeOK
<1>4. LockOK'
  BY <1>1 DEF LockOK
<1>5. RTypes'
  <2>1. crashes' \in 0..MaxCrashes /\ ended' \subseteq Ids
    BY <1>0, <1>1, MaxCrashesAssumption
  <2>2. boot' \in [on : BOOLEAN, todo : SUBSET Ids, at : Ids \cup {None}]
    BY <1>1
  <2> QED BY <1>3, <1>4, <2>1, <2>2 DEF RTypes, TypeInv
<1>6. ReaderInv'
  BY <1>1 DEF ReaderInv, ReaderOf, Blank
<1>7. LifeInv'
  BY <1>1 DEF LifeInv, LifeOf, SavesInv, Blank
<1>8. CodesInv'
  <2>1. \A i \in Ids : ~Creating(i)'
    BY <1>1 DEF Creating
  <2> QED BY <1>0, <1>1, <2>1 DEF CodesInv, CodesConsistent
<1>9. DiskInv'
  <2>1. \A i \in Ids : Sealed(i) => Sealed(i)'
    BY <1>1 DEF Sealed
  <2>2. \A i \in Ids : meta'[i] # None => SidecarOf(i, meta[i])'
    BY <1>0, <1>1, <2>1 DEF DiskOf, SidecarOf
  <2>3. \A i \in Ids : ~rec'[i].deleted /\ ~rec'[i].committed /\ ~rec'[i].reading
    BY <1>1 DEF Blank
  <2> QED BY <1>1, <2>2, <2>3 DEF DiskInv, DiskOf
<1>10. BootInv'
  <2>1. boot'.on = TRUE /\ boot'.todo = {id \in Ids : meta[id] # None}
    BY <1>1
  <2>2. \A id \in Ids : meta[id] # None => creation'[id] = "failed"
    <3>1. \A id \in Ids : meta[id] # None => creation[id] \in {"done", "failed"}
      BY DEF RInv, BootInv, Quiet
    <3> QED BY <1>1, <3>1
  <2> QED BY <1>1, <2>1, <2>2 DEF BootInv, Quiet
<1> QED BY <1>5, <1>6, <1>7, <1>8, <1>9, <1>10 DEF RInv

LEMMA LoadedType ==
    ASSUME TypeOK, NEW id \in Ids, meta[id] # None
    PROVE  /\ meta[id] \in Sidecar
           /\ Loaded(id) \in Record
           /\ Loaded(id).code = meta[id].code
           /\ Loaded(id).committed = meta[id].committed
           /\ Loaded(id).reads = meta[id].reads /\ Loaded(id).maxReads = meta[id].maxReads
           /\ Loaded(id).reading = FALSE /\ Loaded(id).deleted = FALSE
<1>1. meta[id] \in Sidecar /\ blob[id] \in Seq(Nat) \cup {None}
  BY DEF TypeOK
<1> DEFINE size == IF blob[id] = None THEN meta[id].size ELSE Len(blob[id])
<1>2. size \in Nat
  <2>1. CASE blob[id] = None
    BY <1>1, <2>1 DEF Sidecar
  <2>2. CASE blob[id] # None
    <3>1. blob[id] \in Seq(Nat)
      BY <1>1, <2>2
    <3>2. Len(blob[id]) \in Nat
      BY <3>1
    <3> QED BY <2>2, <3>2
  <2> QED BY <2>1, <2>2
<1>3. Loaded(id) =
          [code |-> meta[id].code, owner |-> Restored,
           maxReads |-> meta[id].maxReads, reads |-> meta[id].reads, size |-> size,
           nextIndex |-> meta[id].nextIndex, committed |-> meta[id].committed,
           reading |-> FALSE, deleted |-> FALSE, cleared |-> FALSE]
  BY DEF Loaded
<1> HIDE DEF size
<1> QED BY <1>1, <1>2, <1>3 DEF Sidecar, Record

\* What init does with one sidecar: the record is over and its files go, or it is
\* served again.  Nothing else moves.
Over(id) ==
    /\ rec'[id].deleted = TRUE
    /\ UNCHANGED <<byId, byCode, registry>>
    /\ removing' = [removing EXCEPT ![id] = "blob"]

Back(id) ==
    /\ rec'[id] = Loaded(id)
    /\ blob[id] # None
    /\ ~meta[id].deleted
    /\ registry[meta[id].code] = None
    /\ byId' = byId \cup {id}
    /\ byCode' = [byCode EXCEPT ![meta[id].code] = id]
    /\ registry' = [registry EXCEPT ![meta[id].code] = id]
    /\ UNCHANGED removing

Sheltered(id) ==
    /\ rec'[id] \in Record
    /\ rec'[id].reading = FALSE
    /\ rec'[id].reads <= rec'[id].maxReads

LEMMA BootEffects ==
    ASSUME RInv, NEW id \in Ids, Boots(id)
    PROVE  /\ boot.on /\ id \in boot.todo /\ meta[id] # None
           /\ creation[id] = "failed" /\ creation' = [creation EXCEPT ![id] = "done"]
           /\ boot'.on = TRUE /\ boot'.todo = boot.todo \ {id} /\ boot'.at \in {None, id}
           /\ saves = {}
           /\ UNCHANGED <<disk, saves, locks, streams, sweeping, env, crashes, ended>>
           /\ rec' \in [Ids -> Record] /\ \A i \in Ids \ {id} : rec'[i] = rec[i]
           /\ uncommittedByIp' \in [Ips -> Nat] /\ bytesOnDisk' \in Nat
           /\ Sheltered(id)
           /\ Over(id) \/ Back(id)
<1>0. /\ TypeOK /\ LifeOf(id) /\ DiskOf(id) /\ ReaderOf(id) /\ BootInv
      /\ rec \in [Ids -> Record] /\ removing \in [Ids -> {"no", "blob", "meta"}]
      /\ boot \in [on : BOOLEAN, todo : SUBSET Ids, at : Ids \cup {None}]
      /\ CodesConsistent /\ None \notin Ids
  BY ConstAssumption DEF RInv, RTypes, TypeInv, TypeOK, LifeInv, DiskInv, ReaderInv, CodesInv
<1>1. Takes(id)
  BY DEF Boots, BootDebris, BootDestroys, BootRestores
<1>2. boot.on /\ id \in boot.todo /\ meta[id] # None /\ creation[id] = "failed" /\ saves = {}
  BY <1>0, <1>1 DEF Takes, BootInv, Quiet
<1>3. /\ creation' = [creation EXCEPT ![id] = "done"]
      /\ UNCHANGED <<disk, saves, locks, streams, sweeping, env, crashes, ended>>
  BY DEF Boots, BootDebris, BootDestroys, BootRestores, others
<1>4. /\ \/ boot' = [boot EXCEPT !.todo = @ \ {id}, !.at = id]
         \/ boot' = [boot EXCEPT !.todo = @ \ {id}] /\ boot.at = None
  BY <1>1 DEF Boots, BootDebris, BootDestroys, BootRestores, Takes
<1>5. boot'.on = TRUE /\ boot'.todo = boot.todo \ {id} /\ boot'.at \in {None, id}
  BY <1>0, <1>2, <1>4
<1>6. /\ id \notin byId /\ removing[id] = "no"
      /\ ~rec[id].committed /\ ~rec[id].reading /\ ~rec[id].deleted
  BY <1>0, <1>2 DEF LifeOf
<1>7. /\ Loaded(id) \in Record /\ Loaded(id).code = meta[id].code
      /\ Loaded(id).committed = meta[id].committed
      /\ Loaded(id).reads = meta[id].reads /\ Loaded(id).maxReads = meta[id].maxReads
      /\ Loaded(id).reading = FALSE /\ Loaded(id).deleted = FALSE
  BY <1>0, <1>2, LoadedType
<1>8. ~meta[id].deleted => Usable(meta[id])
  BY <1>0, <1>2 DEF DiskOf, SidecarOf
<1> DEFINE Goal == /\ rec' \in [Ids -> Record] /\ \A i \in Ids \ {id} : rec'[i] = rec[i]
                   /\ uncommittedByIp' \in [Ips -> Nat] /\ bytesOnDisk' \in Nat
                   /\ Sheltered(id)
                   /\ Over(id) \/ Back(id)
<1>9. ASSUME BootDebris(id) PROVE Goal
  <2> DEFINE r == [rec[id] EXCEPT !.deleted = TRUE]
  <2>1. /\ rec' = [rec EXCEPT ![id] = r]
        /\ UNCHANGED maps /\ removing' = [removing EXCEPT ![id] = "blob"]
    BY <1>9 DEF BootDebris
  <2>2. /\ r \in Record /\ r.deleted = TRUE /\ r.reading = FALSE /\ r.committed = FALSE
        /\ r.reads = rec[id].reads /\ r.maxReads = rec[id].maxReads
    <3>1. rec[id] \in Record
      BY <1>0
    <3>2. rec[id].reading = FALSE /\ rec[id].committed = FALSE
      BY <1>6, <3>1 DEF Record
    <3> QED BY <3>1, <3>2 DEF Record
  <2> HIDE DEF r
  <2>3. rec'[id] = r /\ rec' \in [Ids -> Record] /\ \A i \in Ids \ {id} : rec'[i] = rec[i]
    BY <1>0, <2>1, <2>2
  <2>4. Sheltered(id)
    BY <1>0, <2>2, <2>3 DEF Sheltered, ReaderOf
  <2>5. Over(id)
    BY <2>1, <2>2, <2>3 DEF Over, maps
  <2>6. uncommittedByIp' \in [Ips -> Nat] /\ bytesOnDisk' \in Nat
    BY <1>0, <2>1 DEF maps, TypeOK
  <2> QED BY <2>3, <2>4, <2>5, <2>6
<1>10. ASSUME BootDestroys(id) PROVE Goal
  <2> DEFINE r == Loaded(id)
  <2>1. Destroy(id, r) /\ ~meta[id].deleted
    BY <1>10 DEF BootDestroys
  <2>2. Usable(meta[id])
    BY <1>8, <2>1
  <2>3. byCode[r.code] # id
    BY <1>0, <1>6, <1>7, <2>2 DEF CodesConsistent, Usable
  <2>4. /\ rec' = [rec EXCEPT ![id] = Ended(r)] /\ byId' = byId \ {id}
        /\ UNCHANGED <<byCode, registry>>
        /\ removing' = [removing EXCEPT ![id] = "blob"]
    BY <1>7, <2>1, <2>3 DEF Destroy, Destroyed, ReleaseCode
  <2>5. /\ Ended(r) \in Record /\ Ended(r).deleted = TRUE /\ Ended(r).reading = FALSE
        /\ Ended(r).committed = meta[id].committed
        /\ Ended(r).reads = meta[id].reads /\ Ended(r).maxReads = meta[id].maxReads
    <3> HIDE DEF r
    <3> QED BY <1>7, EndedType DEF Ended, Record, r
  <2> HIDE DEF r
  <2>6. /\ rec'[id] = Ended(r) /\ rec' \in [Ids -> Record]
        /\ \A i \in Ids \ {id} : rec'[i] = rec[i]
    BY <1>0, <2>4, <2>5
  <2>7. Sheltered(id)
    BY <2>2, <2>5, <2>6 DEF Sheltered, Usable
  <2>8. byId' = byId
    BY <1>6, <2>4
  <2>9. Over(id)
    BY <2>4, <2>5, <2>6, <2>8 DEF Over
  <2>10. uncommittedByIp' \in [Ips -> Nat] /\ bytesOnDisk' \in Nat
    BY <1>0, <1>7, <2>1, DestroyTypes DEF r
  <2> QED BY <2>6, <2>7, <2>9, <2>10
<1>11. ASSUME BootRestores(id) PROVE Goal
  <2>1. /\ rec' = [rec EXCEPT ![id] = Loaded(id)]
        /\ byId' = byId \cup {id}
        /\ byCode' = [byCode EXCEPT ![meta[id].code] = id]
        /\ registry' = [registry EXCEPT ![meta[id].code] = id]
        /\ bytesOnDisk' = bytesOnDisk + Len(blob[id])
        /\ ~meta[id].deleted /\ blob[id] # None /\ registry[meta[id].code] = None
        /\ UNCHANGED <<uncommittedByIp, removing>>
    BY <1>11 DEF BootRestores, Unservable, others
  <2>2. /\ rec'[id] = Loaded(id) /\ rec' \in [Ids -> Record]
        /\ \A i \in Ids \ {id} : rec'[i] = rec[i]
    BY <1>0, <1>7, <2>1
  <2>3. Sheltered(id)
    BY <1>7, <1>8, <2>1, <2>2 DEF Sheltered, Usable
  <2>4. Back(id)
    BY <2>1, <2>2 DEF Back
  <2>5. Len(blob[id]) \in Nat
    <3>1. blob[id] \in Seq(Nat)
      BY <1>0, <2>1 DEF TypeOK
    <3> QED BY <3>1
  <2>6. uncommittedByIp' \in [Ips -> Nat] /\ bytesOnDisk' \in Nat
    BY <1>0, <2>1, <2>5 DEF TypeOK
  <2> QED BY <2>2, <2>3, <2>4, <2>6
<1>12. Goal
  BY <1>9, <1>10, <1>11 DEF Boots
<1> QED BY <1>2, <1>3, <1>5, <1>12

\* What init makes of a sidecar is a state the handlers may go on from.
LEMMA RBoot ==
    ASSUME RInv, NEW id \in Ids, Boots(id)
    PROVE  RInv'
<1>0. /\ TypeOK /\ LockOK /\ SavesInv /\ BootInv /\ CodesInv /\ None \notin Ids
      /\ \A i \in Ids : LifeOf(i) /\ DiskOf(i) /\ ReaderOf(i)
      /\ boot \in [on : BOOLEAN, todo : SUBSET Ids, at : Ids \cup {None}]
      /\ boot' \in [on : BOOLEAN, todo : SUBSET Ids, at : Ids \cup {None}]
      /\ crashes \in 0..MaxCrashes /\ ended \subseteq Ids
      /\ DOMAIN creation = Ids /\ DOMAIN removing = Ids
      /\ byId \subseteq Ids
      /\ byCode \in [Codes -> Ids \cup {None}] /\ registry \in [Codes -> Ids \cup {None, Live}]
  <2>1. boot' = [boot EXCEPT !.todo = @ \ {id}, !.at = id] \/ boot' = [boot EXCEPT !.todo = @ \ {id}]
    BY DEF Boots, BootDebris, BootDestroys, BootRestores
  <2>2. boot \in [on : BOOLEAN, todo : SUBSET Ids, at : Ids \cup {None}]
    BY DEF RInv, RTypes
  <2>3. boot' \in [on : BOOLEAN, todo : SUBSET Ids, at : Ids \cup {None}]
    BY <2>1, <2>2
  <2> QED BY <2>2, <2>3, ConstAssumption
          DEF RInv, RTypes, TypeInv, TypeOK, LifeInv, DiskInv, ReaderInv
<1>1. /\ boot.on /\ id \in boot.todo /\ meta[id] # None
      /\ creation[id] = "failed" /\ creation' = [creation EXCEPT ![id] = "done"]
      /\ boot'.on = TRUE /\ boot'.todo = boot.todo \ {id}
      /\ saves = {} /\ saves' = {}
      /\ UNCHANGED <<blob, meta, queue, appending, streams, sweeping, age, faults, delivered,
                     stuck, crashes, ended>>
      /\ rec' \in [Ids -> Record] /\ \A i \in Ids \ {id} : rec'[i] = rec[i]
      /\ uncommittedByIp' \in [Ips -> Nat] /\ bytesOnDisk' \in Nat
      /\ Sheltered(id)
      /\ Over(id) \/ Back(id)
  BY BootEffects DEF disk, locks, env
<1>2. /\ creation'[id] = "done" /\ \A i \in Ids \ {id} : creation'[i] = creation[i]
      /\ id \notin byId /\ removing[id] = "no" /\ appending[id] = "idle"
      /\ queue[id] = <<>> /\ id \notin sweeping
      /\ ~rec[id].reading /\ ~rec[id].committed /\ ~rec[id].deleted
  BY <1>0, <1>1 DEF LifeOf
<1>3. /\ \A i \in Ids \ {id} : removing'[i] = removing[i] /\ (i \in byId' <=> i \in byId)
      /\ removing' \in [Ids -> {"no", "blob", "meta"}]
      /\ \/ rec'[id].deleted /\ id \notin byId' /\ removing'[id] = "blob"
         \/ ~rec'[id].deleted /\ id \in byId' /\ removing'[id] = "no"
  <2>1. CASE Over(id)
    BY <1>0, <1>2, <2>1 DEF Over, TypeOK
  <2>2. CASE Back(id)
    <3>1. ~rec'[id].deleted
      BY <1>0, <1>1, <2>2, LoadedType DEF Back
    <3> QED BY <1>0, <1>2, <2>2, <3>1 DEF Back, TypeOK
  <2> QED BY <1>1, <2>1, <2>2
<1>4. TypeOK'
  <2>1. byId' \subseteq Ids
    BY <1>0, <1>1 DEF Over, Back
  <2>2. byCode' \in [Codes -> Ids \cup {None}] /\ registry' \in [Codes -> Ids \cup {None, Live}]
    BY <1>0, <1>1 DEF Over, Back
  <2>3. creation' \in [Ids -> {"none", "blob", "meta", "done", "failed"}]
    BY <1>0, <1>1 DEF TypeOK
  <2>4. /\ blob' \in [Ids -> Seq(Nat) \cup {None}] /\ meta' \in [Ids -> Sidecar \cup {None}]
        /\ saves' \subseteq SaveCall /\ queue' \in [Ids -> Seq(Call)]
        /\ appending' \in [Ids -> {"idle", "write", "save", "destroy"}]
        /\ streams' \in [Ids -> [opening : Nat, whole : Nat]]
        /\ sweeping' \subseteq Ids
        /\ age' \in [Ids -> {"active", "idle", "stale", "past"}]
        /\ faults' \in Nat /\ delivered' \in [Ids -> Nat] /\ stuck' \subseteq Ids
    BY <1>0, <1>1 DEF TypeOK
  <2> QED BY <1>1, <1>3, <2>1, <2>2, <2>3, <2>4 DEF TypeOK
<1>5. RTypes'
  <2>1. LockOK'
    BY <1>0, <1>1 DEF LockOK
  <2> QED BY <1>0, <1>1, <1>4, <2>1 DEF RTypes, TypeInv
<1>6. ReaderInv'
  <2>1. ReaderOf(id)'
    BY <1>0, <1>1, <1>2 DEF ReaderOf, Sheltered
  <2>2. \A i \in Ids \ {id} : ReaderOf(i)'
    BY <1>0, <1>1, <1>2 DEF ReaderOf
  <2> QED BY <2>1, <2>2 DEF ReaderInv
<1>7. LifeInv'
  <2>1. LifeOf(id)'
    BY <1>2, <1>3 DEF LifeOf
  <2>2. \A i \in Ids \ {id} : LifeOf(i)'
    BY <1>0, <1>1, <1>2, <1>3 DEF LifeOf
  <2>3. SavesInv'
    BY <1>1 DEF SavesInv
  <2> QED BY <2>1, <2>2, <2>3 DEF LifeInv
<1>8. CodesInv'
  <2>0. \A i \in Ids : Creating(i)' => i # id /\ Creating(i)
    BY <1>2 DEF Creating
  <2>1. CASE Over(id)
    <3>1. UNCHANGED <<byId, byCode, registry>>
      BY <2>1 DEF Over
    <3>2. /\ \A c \in Codes : byCode[c] # id /\ registry[c] # id
          /\ \A i \in byId : i # id
      BY <1>0, <1>1, <1>2 DEF CodesInv, CodesConsistent
    <3>3. CodesConsistent'
      BY <1>0, <1>1, <1>2, <3>1, <3>2 DEF CodesInv, CodesConsistent
    <3> QED BY <1>0, <1>1, <2>0, <3>1, <3>2, <3>3 DEF CodesInv
  <2>2. CASE Back(id)
    <3> DEFINE c == meta[id].code
    <3>0. c \in Codes /\ ~meta[id].deleted
      <4>1. meta[id] # None /\ DiskOf(id)
        BY <1>0, <1>1
      <4>2. ~meta[id].deleted
        BY <2>2 DEF Back
      <4> QED BY <4>1, <4>2 DEF DiskOf, SidecarOf, Usable
    <3>1. c \in Codes /\ rec'[id].code = c /\ ~rec'[id].deleted
      BY <1>0, <1>1, <2>2, <3>0 DEF Back, Loaded
    <3>2. /\ byId' = byId \cup {id} /\ registry[c] = None
          /\ byCode'[c] = id /\ registry'[c] = id
          /\ \A d \in Codes \ {c} : byCode'[d] = byCode[d] /\ registry'[d] = registry[d]
      BY <1>0, <2>2, <3>1 DEF Back
    <3>3. /\ byCode[c] = None
          /\ \A d \in Codes : byCode[d] # id /\ registry[d] # id
          /\ \A i \in byId : i # id /\ rec[i].code # c
      BY <1>0, <1>1, <1>2, <3>1, <3>2 DEF CodesInv, CodesConsistent
    <3> HIDE DEF c
    <3>4. \A d \in Codes : byCode'[d] # None =>
              /\ byCode'[d] \in byId'
              /\ rec'[byCode'[d]].code = d
              /\ registry'[d] = byCode'[d]
      BY <1>0, <1>1, <3>1, <3>2, <3>3 DEF CodesInv, CodesConsistent
    <3>5. \A i \in byId' : /\ ~rec'[i].deleted /\ rec'[i].code \in Codes
                           /\ byCode'[rec'[i].code] = i
      BY <1>0, <1>1, <3>1, <3>2, <3>3 DEF CodesInv, CodesConsistent
    <3>6. \A d \in Codes : registry'[d] \in Ids =>
              \/ byCode'[d] = registry'[d]
              \/ creation'[registry'[d]] \in {"blob", "meta"} /\ rec'[registry'[d]].code = d
      BY <1>0, <1>1, <1>2, <3>1, <3>2, <3>3 DEF CodesInv, CodesConsistent
    <3>7. \A i \in Ids : Creating(i)' => rec'[i].code \in Codes /\ registry'[rec'[i].code] = i
      <4>1. \A i \in Ids : Creating(i) => rec[i].code # c
        BY <1>0, <3>2 DEF CodesInv
      <4> QED BY <1>0, <1>1, <2>0, <3>2, <4>1 DEF CodesInv
    <3> QED BY <3>4, <3>5, <3>6, <3>7 DEF CodesInv, CodesConsistent
  <2> QED BY <1>1, <2>1, <2>2
<1>9. DiskInv'
  <2>1. \A i \in Ids \ {id} : DiskOf(i)'
    BY <1>0, <1>1, <1>2, <1>3, DiskOthers
  <2>2. meta[id].committed => Sealed(id)'
    <3>1. CASE Over(id)
      BY <1>1, <1>2, <1>3, <3>1 DEF Sealed, Over
    <3>2. CASE Back(id)
      <4>1. rec'[id].committed = meta[id].committed
        BY <1>0, <1>1, <3>2, LoadedType DEF Back
      <4>2. creation'[id] = "done" /\ appending'[id] = "idle"
        BY <1>1, <1>2
      <4> QED BY <4>1, <4>2 DEF Sealed
    <3> QED BY <1>1, <3>1, <3>2
  <2>3. meta'[id] # None => SidecarOf(id, meta[id])'
    BY <1>0, <1>1, <2>2 DEF DiskOf, SidecarOf
  <2>4. rec'[id].deleted => Leftover(id)'
    BY <1>3 DEF Leftover
  <2>5. DiskOf(id)'
    BY <1>1, <1>2, <2>3, <2>4 DEF DiskOf, Sheltered
  <2> QED BY <2>1, <2>5 DEF DiskInv
<1>10. BootInv'
  <2>1. Quiet'
    BY <1>0, <1>1, <1>2 DEF BootInv, Quiet
  <2>2. \A i \in Ids : meta'[i] # None /\ creation'[i] # "done" => boot'.on /\ i \in boot'.todo
    BY <1>0, <1>1, <1>2 DEF BootInv
  <2> QED BY <2>1, <2>2 DEF BootInv
<1> QED BY <1>5, <1>6, <1>7, <1>8, <1>9, <1>10 DEF RInv

\* A sidecar that cannot be read leaves its record without one.
LEMMA RDrop ==
    ASSUME RInv, NEW id \in Ids, BootDrops(id)
    PROVE  RInv'
<1>0. /\ TypeOK /\ LockOK /\ ReaderInv /\ SavesInv /\ CodesInv /\ BootInv
      /\ \A i \in Ids : LifeOf(i) /\ DiskOf(i)
      /\ boot \in [on : BOOLEAN, todo : SUBSET Ids, at : Ids \cup {None}]
      /\ crashes \in 0..MaxCrashes /\ ended \subseteq Ids
      /\ meta \in [Ids -> Sidecar \cup {None}] /\ faults \in Nat
  BY DEF RInv, RTypes, TypeInv, TypeOK, LifeInv, DiskInv
<1>1. /\ boot.on /\ id \in boot.todo
      /\ faults' = faults + 1
      /\ meta' = [meta EXCEPT ![id] = None]
      /\ boot' = [boot EXCEPT !.todo = @ \ {id}]
      /\ UNCHANGED <<rec, byId, byCode, registry, uncommittedByIp, bytesOnDisk, blob, creation,
                     saves, queue, appending, removing, streams, sweeping, age, delivered,
                     stuck, crashes, ended>>
  BY DEF BootDrops, Takes, Fails, maps, locks, others
<1>2. creation[id] = "failed" /\ saves = {} /\ ~rec[id].deleted
  BY <1>0, <1>1 DEF BootInv, Quiet, LifeOf
<1>3. /\ boot' \in [on : BOOLEAN, todo : SUBSET Ids, at : Ids \cup {None}]
      /\ boot'.on = TRUE /\ boot'.todo = boot.todo \ {id}
  BY <1>0, <1>1
<1>4. TypeOK'
  <2>1. meta' \in [Ids -> Sidecar \cup {None}] /\ faults' \in Nat
    BY <1>0, <1>1
  <2> QED BY <1>0, <1>1, <2>1 DEF TypeOK
<1>5. RTypes'
  <2>1. LockOK'
    BY <1>0, <1>1 DEF LockOK
  <2> QED BY <1>0, <1>1, <1>3, <1>4, <2>1 DEF RTypes, TypeInv
<1>6. ReaderInv' /\ CodesInv'
  BY <1>0, <1>1 DEF ReaderInv, ReaderOf, CodesInv, CodesConsistent, Creating
<1>7. LifeInv'
  BY <1>0, <1>1 DEF LifeInv, LifeOf, SavesInv
<1>8. DiskInv'
  <2>1. ASSUME NEW i \in Ids \ {id} PROVE DiskOf(i)'
    <3>1. meta'[i] = meta[i]
      BY <1>0, <1>1
    <3> QED BY <1>0, <1>1, <3>1, DiskOthers
  <2>2. meta'[id] = None
    BY <1>0, <1>1
  <2>3. DiskOf(id)'
    BY <1>0, <1>1, <1>2, <2>2 DEF DiskOf
  <2> QED BY <2>1, <2>3 DEF DiskInv
<1>9. BootInv'
  <2>1. \A i \in Ids : meta'[i] # None => meta[i] # None /\ i # id
    BY <1>0, <1>1
  <2>2. \A i \in boot'.todo : i \in boot.todo /\ i # id /\ meta'[i] = meta[i]
    BY <1>0, <1>1, <1>3
  <2>3. Quiet'
    BY <1>0, <1>1, <1>2, <2>2 DEF BootInv, Quiet
  <2> QED BY <1>0, <1>1, <1>3, <2>1, <2>3 DEF BootInv
<1> QED BY <1>5, <1>6, <1>7, <1>8, <1>9 DEF RInv

LEMMA RStep == RInv /\ [RNext]_rvars => RInv'
<1> SUFFICES ASSUME RInv, [RNext]_rvars PROVE RInv'
  OBVIOUS
<1>1. CASE [Next]_vars /\ ~boot.on /\ UNCHANGED <<boot, crashes, ended>>
  BY <1>1, RStoreStep
<1>2. CASE /\ boot.on /\ UNCHANGED <<boot, crashes, ended>>
           /\ \E id \in Ids : Remove(id) \/ RemoveFails(id)
  <2>1. [Next]_vars
    BY <1>2 DEF Next, FileFaults
  <2> QED BY <1>2, <2>1, RStoreStep
<1>3. CASE \E id \in Ids : Boots(id)
  BY <1>3, RBoot
<1>4. CASE \E id \in Ids : BootDrops(id)
  BY <1>4, RDrop
<1>5. CASE BootResumes
  <2>1. UNCHANGED vars /\ UNCHANGED <<crashes, ended>> /\ boot.on
    BY <1>5 DEF BootResumes
  <2>2. \/ boot' = [boot EXCEPT !.at = None]
        \/ boot.todo = {} /\ boot' = Running
    BY <1>5 DEF BootResumes
  <2>3. boot \in [on : BOOLEAN, todo : SUBSET Ids, at : Ids \cup {None}]
    BY DEF RInv, RTypes
  <2>4. /\ boot' \in [on : BOOLEAN, todo : SUBSET Ids, at : Ids \cup {None}]
        /\ boot'.todo = boot.todo
        /\ boot.todo # {} => boot'.on = TRUE
    <3>1. CASE boot' = [boot EXCEPT !.at = None]
      BY <2>1, <2>3, <3>1
    <3>2. CASE boot.todo = {} /\ boot' = Running
      BY <3>2 DEF Running
    <3> QED BY <2>2, <3>1, <3>2
  <2>5. TypeInv' /\ ReaderInv' /\ LifeInv' /\ CodesInv' /\ DiskInv'
    <3>1. TypeInv /\ ReaderInv /\ LifeInv /\ CodesInv /\ DiskInv
      BY DEF RInv, RTypes
    <3> QED BY <2>1, <3>1, TypeStep, ReaderStep, LifeStep, CodesStep, DiskStep
  <2>6. BootInv'
    <3>1. UNCHANGED <<meta, creation, saves, appending>>
      BY <2>1 DEF vars, disk, locks
    <3> QED BY <2>1, <2>4, <3>1 DEF RInv, BootInv, Quiet
  <2> QED BY <2>1, <2>4, <2>5, <2>6 DEF RInv, RTypes
<1>6. CASE Crash
  BY <1>6, RCrash
<1>7. CASE UNCHANGED rvars
  <2>1. [Next]_vars /\ UNCHANGED <<boot, crashes, ended>> /\ UNCHANGED vars
    BY <1>7 DEF rvars
  <2>2. TypeInv' /\ ReaderInv' /\ LifeInv' /\ CodesInv' /\ DiskInv'
    BY <2>1, TypeStep, ReaderStep, LifeStep, CodesStep, DiskStep DEF RInv, RTypes
  <2>3. BootInv'
    <3>1. UNCHANGED <<meta, creation, saves, appending>>
      BY <2>1 DEF vars, disk, locks
    <3> QED BY <2>1, <3>1 DEF RInv, BootInv, Quiet
  <2> QED BY <2>1, <2>2, <2>3 DEF RInv, RTypes
<1> QED BY <1>1, <1>2, <1>3, <1>4, <1>5, <1>6, <1>7, RSteps

----------------------------------------------------------------------------
(* What a restart cannot undo *)

\* However often the process ends, the state it starts from and the one init
\* builds are well typed, whatever was on disk.
THEOREM RestartTypesCorrect == RSpec => []RTypeOK
<1>1. RInv => RTypeOK
  BY DEF RInv, RTypes, RTypeOK, TypeInv
<1> QED BY <1>1, RInit0, RStep, PTL DEF RSpec

\* Codes stay unambiguous across restarts: whatever two sidecars claim, however
\* init is cut short, a code leads to one record and a live record is found under
\* its own (codes.reserve in init).
THEOREM RestartKeepsCodes == RSpec => []CodesConsistent
<1>1. RInv => CodesConsistent
  BY DEF RInv, CodesInv
<1> QED BY <1>1, RInit0, RStep, PTL DEF RSpec

\* A restart finds again every transfer that kept both of its files: whenever the
\* server is up, such a transfer is in the maps, or was marked, or is one of which
\* removeFile gave up.  Nothing is said of a blob without a sidecar (init).
THEOREM RestartFindsTransfers == RSpec => []BothFilesFound
<1>1. RInv => BothFilesFound
  <2> SUFFICES ASSUME RInv, NEW id \in Ids \ stuck, ~boot.on, blob[id] # None,
                      meta[id] # None, removing[id] = "no", ~meta[id].deleted
               PROVE  id \in byId
    BY DEF BothFilesFound
  <2>1. DiskOf(id) /\ LifeOf(id)
    BY DEF RInv, DiskInv, LifeInv
  <2>2. creation[id] = "done"
    BY DEF RInv, BootInv
  <2>3. ~rec[id].deleted
    BY <2>1 DEF DiskOf, Leftover, Emptied
  <2> QED BY <2>1, <2>2, <2>3 DEF LifeOf
<1> QED BY <1>1, RInit0, RStep, PTL DEF RSpec

\* What PublishedNeverRewritten says of one record.
Unwritten(id) ==
    meta[id] # None => (meta[id].committed => blob'[id] \in {blob[id], None})

LEMMA UnwrittenStep ==
    ASSUME RInv, [RNext]_rvars, NEW id \in Ids
    PROVE  Unwritten(id)
<1> SUFFICES ASSUME meta[id] # None, meta[id].committed
             PROVE  blob'[id] \in {blob[id], None}
  BY DEF Unwritten
<1>0. /\ creation[id] \in {"done", "failed"} /\ appending[id] # "write"
      /\ DOMAIN blob = Ids
  BY DEF RInv, RTypes, TypeInv, TypeOK, DiskInv, DiskOf, SidecarOf, Sealed
<1>1. ASSUME NEW i \in Ids,
             CreateBlob(i) \/ CreateBlobFails(i) \/ AppendWrites(i) \/ AppendWriteFails(i)
      PROVE  blob'[id] = blob[id]
  <2>1. i # id
    BY <1>0, <1>1 DEF CreateBlob, CreateBlobFails, AppendWrites, AppendWriteFails
  <2> QED BY <1>0, <1>1, <2>1 DEF CreateBlob, CreateBlobFails, AppendWrites, AppendWriteFails
<1>2. ASSUME NEW i \in Ids, Remove(i) \/ RemoveFails(i)
      PROVE  blob'[id] \in {blob[id], None}
  <2>1. blob' = blob \/ blob' = [blob EXCEPT ![i] = None]
    BY <1>2 DEF Remove, RemoveFails, disk
  <2> QED BY <1>0, <2>1
<1>3. ASSUME NEW i \in Ids,
             \/ CommitUpload(i) \/ Revoke(i)
             \/ AppendRefused(i) \/ AppendDestroys(i) \/ AppendThrows(i) \/ AppendStarts(i)
             \/ CommitRuns(i) \/ OpenBlob(i) \/ FinishShort(i) \/ FinishComplete(i)
             \/ SweepSkips(i) \/ SweepDestroys(i) \/ GrowOlder(i)
             \/ \E index \in 0..MaxFile : AppendPart(i, index)
             \/ \E ip \in Ips, code \in Codes, n \in 1..MaxReadsLimit : CreateUpload(i, ip, code, n)
             \/ Boots(i) \/ BootDrops(i)
      PROVE  blob' = blob
  BY <1>3 DEF CommitUpload, Revoke, AppendRefused, AppendDestroys, AppendThrows, AppendStarts,
              CommitRuns, OpenBlob, FinishShort, FinishComplete, SweepSkips, SweepDestroys,
              GrowOlder, AppendPart, CreateUpload, Boots, BootDebris, BootDestroys,
              BootRestores, BootDrops, disk
<1>4. ASSUME SweepStart \/ (\E code \in LiveCodes : LiveCode(code))
             \/ (\E code \in Codes : BeginRead(code)) \/ (\E s \in saves : SaveLands(s) \/ SaveFails(s))
             \/ UNCHANGED vars \/ BootResumes \/ Crash \/ UNCHANGED rvars
      PROVE  blob' = blob
  BY <1>4 DEF SweepStart, LiveCode, BeginRead, SaveLands, SaveFails, BootResumes,
              Crash, vars, rvars, disk
<1>5. CASE [Next]_vars
  BY <1>1, <1>2, <1>3, <1>4, <1>5, Steps
<1> QED BY <1>2, <1>3, <1>4, <1>5, RSteps

\* Once a sidecar says committed, the ciphertext beside it is never rewritten by
\* any handler, retry, crash or restart until it is removed (commitUpload's wait
\* on the append lock, and what init takes over from the sidecar).
THEOREM PublishedStays == RSpec => PublishedNeverRewritten
<1>1. ASSUME RInv, [RNext]_rvars
      PROVE  \A id \in Ids : Unwritten(id)
  BY <1>1, UnwrittenStep
<1>2. RInv /\ [RNext]_rvars => [\A id \in Ids : Unwritten(id)]_rvars
  BY <1>1
<1>3. RSpec => [][\A id \in Ids : Unwritten(id)]_rvars
  BY <1>2, RInit0, RStep, PTL DEF RSpec
<1> QED BY <1>3 DEF PublishedNeverRewritten, Unwritten
=============================================================================
