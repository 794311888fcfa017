---------------------------- MODULE StoreSafety ----------------------------
(***************************************************************************)
(* The types and the safety invariants of module Store, proved for every   *)
(* value of its constants.  Each is the consequence of an inductive        *)
(* invariant that says what the handlers still under way may assume of     *)
(* the state they left.                                                    *)
(***************************************************************************)
EXTENDS Store, FiniteSetTheorems, TLAPS

----------------------------------------------------------------------------
(* Types and the append lock *)

\* Who holds a lock is in the queue, and the one writeMeta that frees it is the
\* holder's.
LockOK ==
    /\ \A id \in Ids : appending[id] # "idle" => queue[id] # <<>>
    /\ \A s \in saves : s.by = "append" => appending[s.id] = "save"
    /\ \A s, t \in saves : s.by = "append" /\ t.by = "append" /\ s.id = t.id => s = t

TypeInv == TypeOK /\ LockOK

\* The updates the handlers make to a record keep it a record.
LEMMA GrownType ==
    ASSUME NEW r \in Record, NEW part \in Nat
    PROVE  Grown(r, part) \in Record
<1>1. ASSUME NEW size \in Nat, NEW next \in Nat
      PROVE  [r EXCEPT !.size = size, !.nextIndex = next] \in Record
  BY DEF Record
<1>2. r.size + 1 \in Nat /\ part + 1 \in Nat
  BY DEF Record
<1>3. Grown(r, part) = [r EXCEPT !.size = r.size + 1, !.nextIndex = part + 1]
  BY DEF Grown
<1> QED BY <1>1, <1>2, <1>3

LEMMA ServedType ==
    ASSUME NEW r \in Record
    PROVE  Served(r) \in Record
<1>1. ASSUME NEW reads \in Nat
      PROVE  [r EXCEPT !.reading = FALSE, !.reads = reads] \in Record
  BY DEF Record
<1>2. r.reads + 1 \in Nat
  BY DEF Record
<1>3. Served(r) = [r EXCEPT !.reading = FALSE, !.reads = r.reads + 1]
  BY DEF Served
<1> QED BY <1>1, <1>2, <1>3

LEMMA EndedType ==
    ASSUME NEW r \in Record
    PROVE  Ended(r) \in Record
BY DEF Ended, Record

LEMMA PublishedType ==
    ASSUME NEW r \in Record
    PROVE  Published(r) \in Record
BY DEF Published, Record

LEMMA SetReading ==
    ASSUME NEW r \in Record, NEW b \in BOOLEAN
    PROVE  [r EXCEPT !.reading = b] \in Record
BY DEF Record

LEMMA NewRecord ==
    ASSUME NEW ip \in Ips, NEW code \in Codes, NEW n \in Nat
    PROVE  [Blank EXCEPT !.code = code, !.owner = ip, !.maxReads = n] \in Record
BY DEF Blank, Record

LEMMA SaveTypes ==
    ASSUME NEW id \in Ids, NEW r \in Record, NEW by \in {"create", "append", "commit", "read"}
    PROVE  Save(id, by, r) \in SaveCall
<1>1. Persisted(r) \in Sidecar
  BY DEF Persisted, Record, Sidecar
<1> QED BY <1>1 DEF Save, SaveCall

\* What destroy writes has the types of what it overwrites.
LEMMA DestroyTypes ==
    ASSUME TypeOK, NEW id \in Ids, NEW r \in Record, Destroy(id, r)
    PROVE  /\ rec' \in [Ids -> Record]
           /\ byId' \subseteq Ids
           /\ byCode' \in [Codes -> Ids \cup {None}]
           /\ registry' \in [Codes -> Ids \cup {None, Live}]
           /\ uncommittedByIp' \in [Ips -> Nat]
           /\ bytesOnDisk' \in Nat
           /\ removing' \in [Ids -> {"no", "blob", "meta"}]
<1>1. CASE Destroyed(r)
  <2>1. rec' = [rec EXCEPT ![id] = r] /\ UNCHANGED <<maps, removing>>
    BY <1>1 DEF Destroy
  <2> QED BY <2>1 DEF maps, TypeOK
<1>2. CASE ~Destroyed(r)
  <2>1. rec' \in [Ids -> Record]
    BY <1>2, EndedType DEF Destroy, TypeOK
  <2>2. byId' \subseteq Ids
    BY <1>2 DEF Destroy, TypeOK
  <2>3. /\ byCode' \in [Codes -> Ids \cup {None}]
        /\ registry' \in [Codes -> Ids \cup {None, Live}]
    <3>1. ReleaseCode(id, r)
      BY <1>2 DEF Destroy
    <3>2. CASE byCode[r.code] = id
      <4>1. /\ byCode' = [byCode EXCEPT ![r.code] = None]
            /\ registry' = [registry EXCEPT ![r.code] = None]
        BY <3>1, <3>2 DEF ReleaseCode
      <4> QED BY <4>1 DEF TypeOK
    <3>3. CASE byCode[r.code] # id
      BY <3>1, <3>3 DEF ReleaseCode, TypeOK
    <3> QED BY <3>2, <3>3
  <2>4. uncommittedByIp' \in [Ips -> Nat]
    BY <1>2 DEF Destroy, SlotsWithout, TypeOK
  <2>5. bytesOnDisk' \in Nat
    <3>1. r.size \in Nat
      BY DEF Record
    <3> QED BY <1>2, <3>1 DEF Destroy, TypeOK
  <2>6. removing' \in [Ids -> {"no", "blob", "meta"}]
    BY <1>2 DEF Destroy, TypeOK
  <2> QED BY <2>1, <2>2, <2>3, <2>4, <2>5, <2>6
<1> QED BY <1>1, <1>2

LEMMA TypeInit == Init => TypeInv
<1> SUFFICES ASSUME Init PROVE TypeInv
  OBVIOUS
<1>1. Blank \in Record
  BY DEF Blank, Record
<1>2. TypeOK
  BY <1>1 DEF Init, TypeOK
<1>3. LockOK
  BY DEF Init, LockOK
<1> QED BY <1>2, <1>3 DEF TypeInv

\* A call leaves the queue; a part enters the blob.
LEMMA PopType ==
    ASSUME TypeOK, NEW id \in Ids, queue[id] # <<>>
    PROVE  [queue EXCEPT ![id] = Tail(@)] \in [Ids -> Seq(Call)]
<1>1. queue[id] \in Seq(Call)
  BY DEF TypeOK
<1>2. Tail(queue[id]) \in Seq(Call)
  BY <1>1
<1> QED BY <1>2 DEF TypeOK

LEMMA AppendedType ==
    ASSUME TypeOK, NEW id \in Ids, NEW part \in Nat
    PROVE  Appended(id, part) \in Seq(Nat)
<1>1. blob[id] \in Seq(Nat) \cup {None}
  BY DEF TypeOK
<1>2. CASE blob[id] = None
  BY <1>2 DEF Appended
<1>3. CASE blob[id] # None
  <2>1. blob[id] \in Seq(Nat)
    BY <1>1, <1>3
  <2> QED BY <1>3, <2>1 DEF Appended
<1> QED BY <1>2, <1>3

\* The counts of a record's downloads stay natural numbers.
LEMMA StreamTypes ==
    ASSUME NEW S \in [Ids -> [opening : Nat, whole : Nat]], NEW id \in Ids
    PROVE  /\ [S EXCEPT ![id].opening = @ + 1] \in [Ids -> [opening : Nat, whole : Nat]]
           /\ S[id].opening > 0 =>
                /\ [S EXCEPT ![id].opening = @ - 1] \in [Ids -> [opening : Nat, whole : Nat]]
                /\ [S EXCEPT ![id] = [opening |-> @.opening - 1, whole |-> @.whole + 1]]
                      \in [Ids -> [opening : Nat, whole : Nat]]
           /\ S[id].whole > 0 =>
                [S EXCEPT ![id].whole = @ - 1] \in [Ids -> [opening : Nat, whole : Nat]]
<1> DEFINE Count == [opening : Nat, whole : Nat]
<1>1. ASSUME NEW n \in Nat, NEW m \in Nat
      PROVE  [S EXCEPT ![id] = [opening |-> n, whole |-> m]] \in [Ids -> Count]
  OBVIOUS
<1>2. S[id] \in Count
  OBVIOUS
<1>3. /\ S[id].opening + 1 \in Nat /\ S[id].whole + 1 \in Nat
      /\ S[id].opening > 0 => S[id].opening - 1 \in Nat
      /\ S[id].whole > 0 => S[id].whole - 1 \in Nat
  BY <1>2
<1>4. ASSUME NEW n \in Nat
      PROVE  /\ [S[id] EXCEPT !.opening = n] = [opening |-> n, whole |-> S[id].whole]
             /\ [S[id] EXCEPT !.whole = n] = [opening |-> S[id].opening, whole |-> n]
  BY <1>2
<1> QED BY <1>1, <1>2, <1>3, <1>4

LEMMA TypeStep == TypeInv /\ [Next]_vars => TypeInv'
<1> SUFFICES ASSUME TypeInv, [Next]_vars
             PROVE  TypeInv'
  OBVIOUS
<1> USE DEF TypeInv
<1>1. ASSUME NEW id \in Ids, NEW ip \in Ips, NEW code \in Codes, NEW n \in 1..MaxReadsLimit,
             CreateUpload(id, ip, code, n)
      PROVE  TypeInv'
  <2>1. n \in Nat
    BY ConstAssumption
  <2>2. rec' \in [Ids -> Record]
    BY <1>1, <2>1, NewRecord DEF CreateUpload, TypeOK
  <2>3. TypeOK'
    BY <1>1, <2>2 DEF CreateUpload, TypeOK, disk, locks, others, env
  <2>4. LockOK'
    BY <1>1 DEF CreateUpload, LockOK, locks
  <2> QED BY <2>3, <2>4
<1>2. ASSUME NEW id \in Ids, CreateBlob(id)
      PROVE  TypeInv'
  <2>1. rec[id] \in Record
    BY DEF TypeOK
  <2>2. Save(id, "create", rec[id]) \in SaveCall
    BY <2>1, SaveTypes
  <2>3. blob' \in [Ids -> Seq(Nat) \cup {None}]
    BY <1>2 DEF CreateBlob, TypeOK
  <2>4. TypeOK'
    BY <1>2, <2>2, <2>3 DEF CreateBlob, TypeOK, maps, locks, others, env
  <2>5. LockOK'
    BY <1>2 DEF CreateBlob, LockOK, locks, Save
  <2> QED BY <2>4, <2>5
<1>3. ASSUME NEW id \in Ids, CreateBlobFails(id)
      PROVE  TypeInv'
  <2>1. blob' \in [Ids -> Seq(Nat) \cup {None}]
    <3>1. blob' = [blob EXCEPT ![id] = <<>>] \/ blob' = blob
      BY <1>3 DEF CreateBlobFails
    <3>2. blob \in [Ids -> Seq(Nat) \cup {None}] /\ <<>> \in Seq(Nat)
      BY DEF TypeOK
    <3> QED BY <3>1, <3>2
  <2>2. registry' \in [Codes -> Ids \cup {None, Live}]
    BY <1>3 DEF CreateBlobFails, TypeOK
  <2>3. faults' \in Nat
    BY <1>3 DEF CreateBlobFails, Fails, TypeOK
  <2>4. TypeOK'
    BY <1>3, <2>1, <2>2, <2>3 DEF CreateBlobFails, TypeOK, locks, others
  <2>5. LockOK'
    BY <1>3 DEF CreateBlobFails, LockOK, locks
  <2> QED BY <2>4, <2>5
<1>4. ASSUME NEW s \in saves, SaveLands(s) \/ SaveFails(s)
      PROVE  TypeInv'
  <2>1. s \in SaveCall /\ s.id \in Ids /\ s.data \in Sidecar
    BY DEF TypeOK, SaveCall
  <2>2. CreateDone(s) \/ CreateFailed(s) \/ AppendSettled(s) \/ OtherSettled(s)
    BY <1>4 DEF SaveLands, SaveFails
  <2>3. saves' = saves \ {s}
    BY <1>4 DEF SaveLands, SaveFails
  <2>4. meta' \in [Ids -> Sidecar \cup {None}] /\ blob' \in [Ids -> Seq(Nat) \cup {None}]
    BY <1>4, <2>1 DEF SaveLands, SaveFails, TypeOK, disk
  <2>5. UNCHANGED <<others, age, delivered, stuck>> /\ faults' \in Nat
    BY <1>4 DEF SaveLands, SaveFails, Fails, TypeOK, env
  <2>6. CASE CreateDone(s)
    <3>2. uncommittedByIp' \in [Ips -> Nat]
      <4>1. uncommittedByIp' = [uncommittedByIp EXCEPT ![rec[s.id].owner] = @ + 1]
        BY <2>6 DEF CreateDone
      <4>2. uncommittedByIp \in [Ips -> Nat]
        BY DEF TypeOK
      <4>3. CASE rec[s.id].owner \in Ips
        <5>1. uncommittedByIp[rec[s.id].owner] + 1 \in Nat
          BY <4>2, <4>3
        <5> QED BY <4>1, <4>2, <5>1
      <4>4. CASE rec[s.id].owner \notin Ips
        BY <4>1, <4>2, <4>4
      <4> QED BY <4>3, <4>4
    <3>3. byId' \subseteq Ids
      BY <2>1, <2>6 DEF CreateDone, TypeOK
    <3>4. byCode' \in [Codes -> Ids \cup {None}]
      BY <2>1, <2>6 DEF CreateDone, TypeOK
    <3>5. creation' \in [Ids -> {"none", "blob", "meta", "done", "failed"}]
      BY <2>1, <2>6 DEF CreateDone, TypeOK
    <3>6. TypeOK'
      BY <2>3, <2>4, <2>5, <2>6, <3>2, <3>3, <3>4, <3>5 DEF CreateDone, TypeOK, locks, others
    <3>7. LockOK'
      BY <2>3, <2>6 DEF CreateDone, LockOK, locks
    <3> QED BY <3>6, <3>7
  <2>7. CASE CreateFailed(s)
    <3>1. registry' \in [Codes -> Ids \cup {None, Live}]
      BY <2>7 DEF CreateFailed, TypeOK
    <3>2. creation' \in [Ids -> {"none", "blob", "meta", "done", "failed"}]
      BY <2>1, <2>7 DEF CreateFailed, TypeOK
    <3>3. TypeOK'
      BY <2>3, <2>4, <2>5, <2>7, <3>1, <3>2 DEF CreateFailed, TypeOK, locks, others
    <3>4. LockOK'
      BY <2>3, <2>7 DEF CreateFailed, LockOK, locks
    <3> QED BY <3>3, <3>4
  <2>8. CASE AppendSettled(s)
    <3>1. queue[s.id] \in Seq(Call) /\ queue[s.id] # <<>>
      BY <2>1, <2>8 DEF AppendSettled, TypeOK, LockOK
    <3>2. Tail(queue[s.id]) \in Seq(Call)
      BY <3>1
    <3>3. queue' \in [Ids -> Seq(Call)]
      BY <2>1, <2>8, <3>2 DEF AppendSettled, TypeOK
    <3>4. appending' \in [Ids -> {"idle", "write", "save", "destroy"}]
      BY <2>1, <2>8 DEF AppendSettled, TypeOK
    <3>5. TypeOK'
      BY <2>3, <2>4, <2>5, <2>8, <3>3, <3>4 DEF AppendSettled, TypeOK, maps, others
    <3>6. LockOK'
      BY <2>1, <2>3, <2>8 DEF AppendSettled, LockOK, TypeOK
    <3> QED BY <3>5, <3>6
  <2>9. CASE OtherSettled(s)
    <3>1. TypeOK'
      BY <2>3, <2>4, <2>5, <2>9 DEF OtherSettled, TypeOK, maps, locks, others
    <3>2. LockOK'
      BY <2>3, <2>9 DEF OtherSettled, LockOK, locks
    <3> QED BY <3>1, <3>2
  <2> QED BY <2>2, <2>6, <2>7, <2>8, <2>9
<1>5. ASSUME NEW id \in Ids, NEW index \in 0..MaxFile, AppendPart(id, index)
      PROVE  TypeInv'
  <2>1. [op |-> "part", index |-> index] \in Call
    BY ConstAssumption DEF Call
  <2>2. queue' \in [Ids -> Seq(Call)]
    BY <1>5, <2>1 DEF AppendPart, TypeOK
  <2>3. TypeOK'
    BY <1>5, <2>2 DEF AppendPart, TypeOK, maps, disk, others, env
  <2>4. \A i \in Ids : queue[i] # <<>> => queue'[i] # <<>>
    BY <1>5, <2>1 DEF AppendPart, TypeOK
  <2>5. LockOK'
    BY <1>5, <2>4 DEF AppendPart, LockOK
  <2> QED BY <2>3, <2>5
<1>6. ASSUME NEW id \in Ids, CommitUpload(id)
      PROVE  TypeInv'
  <2>1. [op |-> "commit", index |-> 0] \in Call
    BY DEF Call
  <2>2. queue' \in [Ids -> Seq(Call)]
    BY <1>6, <2>1 DEF CommitUpload, TypeOK
  <2>3. TypeOK'
    BY <1>6, <2>2 DEF CommitUpload, TypeOK, maps, disk, others, env
  <2>4. \A i \in Ids : queue[i] # <<>> => queue'[i] # <<>>
    BY <1>6, <2>1 DEF CommitUpload, TypeOK
  <2>5. LockOK'
    BY <1>6, <2>4 DEF CommitUpload, LockOK
  <2> QED BY <2>3, <2>5
<1>7. ASSUME NEW id \in Ids, AppendRefused(id)
      PROVE  TypeInv'
  <2>1. queue' \in [Ids -> Seq(Call)]
    BY <1>7, PopType DEF AppendRefused, Turn, TypeOK
  <2>2. TypeOK'
    BY <1>7, <2>1 DEF AppendRefused, TypeOK, maps, disk, others, env
  <2>3. LockOK'
    BY <1>7 DEF AppendRefused, Turn, LockOK, TypeOK
  <2> QED BY <2>2, <2>3
<1>8. ASSUME NEW id \in Ids, AppendDestroys(id)
      PROVE  TypeInv'
  <2>1. rec[id] \in Record /\ Destroy(id, rec[id])
    BY <1>8 DEF AppendDestroys, TypeOK
  <2>2. /\ rec' \in [Ids -> Record]
        /\ byId' \subseteq Ids
        /\ byCode' \in [Codes -> Ids \cup {None}]
        /\ registry' \in [Codes -> Ids \cup {None, Live}]
        /\ uncommittedByIp' \in [Ips -> Nat]
        /\ bytesOnDisk' \in Nat
        /\ removing' \in [Ids -> {"no", "blob", "meta"}]
    BY <2>1, DestroyTypes
  <2>3. appending' \in [Ids -> {"idle", "write", "save", "destroy"}]
    BY <1>8 DEF AppendDestroys, TypeOK
  <2>4. TypeOK'
    BY <1>8, <2>2, <2>3 DEF AppendDestroys, TypeOK, disk, env
  <2>5. LockOK'
    BY <1>8 DEF AppendDestroys, Turn, LockOK, TypeOK
  <2> QED BY <2>4, <2>5
<1>9. ASSUME NEW id \in Ids, AppendThrows(id)
      PROVE  TypeInv'
  <2>0. queue[id] # <<>>
    BY <1>9 DEF AppendThrows, LockOK
  <2>1. queue' \in [Ids -> Seq(Call)]
    BY <1>9, <2>0, PopType DEF AppendThrows, TypeOK
  <2>2. appending' \in [Ids -> {"idle", "write", "save", "destroy"}]
    BY <1>9 DEF AppendThrows, TypeOK
  <2>3. TypeOK'
    BY <1>9, <2>1, <2>2 DEF AppendThrows, TypeOK, maps, disk, others, env
  <2>4. LockOK'
    BY <1>9 DEF AppendThrows, LockOK, TypeOK
  <2> QED BY <2>3, <2>4
<1>10. ASSUME NEW id \in Ids, AppendStarts(id)
       PROVE  TypeInv'
  <2>1. appending' \in [Ids -> {"idle", "write", "save", "destroy"}]
    BY <1>10 DEF AppendStarts, TypeOK
  <2>2. TypeOK'
    BY <1>10, <2>1 DEF AppendStarts, TypeOK, maps, disk, others, env
  <2>3. LockOK'
    BY <1>10 DEF AppendStarts, Turn, LockOK, TypeOK
  <2> QED BY <2>2, <2>3
<1>11. ASSUME NEW id \in Ids, AppendWrites(id)
       PROVE  TypeInv'
  <2> DEFINE part == Head(queue[id]).index
  <2> DEFINE r == Grown(rec[id], part)
  <2>1. queue[id] # <<>> /\ part \in Nat
    <3>1. queue[id] # <<>> /\ queue[id] \in Seq(Call)
      BY <1>11 DEF AppendWrites, LockOK, TypeOK
    <3>3. Head(queue[id]) \in Call
      BY <3>1
    <3>4. Head(queue[id]).index \in Nat
      BY <3>3 DEF Call
    <3> QED BY <3>1, <3>4
  <2>2. r \in Record
    BY <2>1, GrownType DEF TypeOK
  <2>3. Save(id, "append", r) \in SaveCall
    BY <2>2, SaveTypes
  <2> HIDE DEF r
  <2>4. /\ blob' = [blob EXCEPT ![id] = Appended(id, part)]
        /\ rec' = [rec EXCEPT ![id] = r]
        /\ saves' = saves \cup {Save(id, "append", r)}
        /\ appending[id] = "write"
        /\ appending' = [appending EXCEPT ![id] = "save"]
        /\ queue' = queue
    BY <1>11 DEF AppendWrites, r
  <2>5. blob' \in [Ids -> Seq(Nat) \cup {None}]
    <3>1. Appended(id, part) \in Seq(Nat)
      BY <2>1, AppendedType
    <3> QED BY <2>4, <3>1 DEF TypeOK
  <2>6. rec' \in [Ids -> Record] /\ saves' \subseteq SaveCall
    BY <2>2, <2>3, <2>4 DEF TypeOK
  <2>7. appending' \in [Ids -> {"idle", "write", "save", "destroy"}]
    BY <2>4 DEF TypeOK
  <2>8. age' \in [Ids -> {"active", "idle", "stale", "past"}] /\ bytesOnDisk' \in Nat
    BY <1>11 DEF AppendWrites, TypeOK
  <2>9. TypeOK'
    BY <1>11, <2>5, <2>6, <2>7, <2>8 DEF AppendWrites, TypeOK, others
  <2>10. LockOK'
    BY <2>1, <2>4 DEF LockOK, TypeOK, Save
  <2> QED BY <2>9, <2>10
<1>12. ASSUME NEW id \in Ids, AppendWriteFails(id)
       PROVE  TypeInv'
  <2>1. queue[id] # <<>> /\ appending[id] = "write"
    BY <1>12 DEF AppendWriteFails, LockOK
  <2>2. queue' \in [Ids -> Seq(Call)]
    BY <1>12, <2>1, PopType DEF AppendWriteFails, TypeOK
  <2>3. blob' \in [Ids -> Seq(Nat) \cup {None}]
    <3>1. Torn \in Nat
      BY ConstAssumption DEF Torn
    <3>2. blob' = [blob EXCEPT ![id] = Appended(id, Torn)] \/ blob' = blob
      BY <1>12 DEF AppendWriteFails
    <3>3. Appended(id, Torn) \in Seq(Nat)
      BY <3>1, AppendedType
    <3> QED BY <3>2, <3>3 DEF TypeOK
  <2>4. appending' \in [Ids -> {"idle", "write", "save", "destroy"}]
    BY <1>12 DEF AppendWriteFails, TypeOK
  <2>5. faults' \in Nat
    BY <1>12 DEF AppendWriteFails, Fails, TypeOK
  <2>6. TypeOK'
    BY <1>12, <2>2, <2>3, <2>4, <2>5 DEF AppendWriteFails, TypeOK, maps, others
  <2>7. LockOK'
    BY <1>12, <2>1 DEF AppendWriteFails, LockOK, TypeOK
  <2> QED BY <2>6, <2>7
<1>13. ASSUME NEW id \in Ids, CommitRuns(id)
       PROVE  TypeInv'
  <2>1. queue' \in [Ids -> Seq(Call)]
    BY <1>13, PopType DEF CommitRuns, Turn, TypeOK
  <2>2. Published(rec[id]) \in Record
    BY PublishedType DEF TypeOK
  <2>3. Save(id, "commit", Published(rec[id])) \in SaveCall
    BY <2>2, SaveTypes
  <2>4. CASE rec[id].deleted
    <3>1. UNCHANGED <<rec, maps, saves>>
      BY <1>13, <2>4 DEF CommitRuns
    <3>2. TypeOK'
      BY <1>13, <2>1, <3>1 DEF CommitRuns, TypeOK, maps, disk, others, env
    <3>3. LockOK'
      BY <1>13, <3>1 DEF CommitRuns, Turn, LockOK, TypeOK
    <3> QED BY <3>2, <3>3
  <2>5. CASE ~rec[id].deleted
    <3>1. /\ rec' = [rec EXCEPT ![id] = Published(rec[id])]
          /\ uncommittedByIp' = SlotsWithout(rec[id])
          /\ saves' = saves \cup {Save(id, "commit", Published(rec[id]))}
          /\ UNCHANGED <<byId, byCode, registry, bytesOnDisk>>
      BY <1>13, <2>5 DEF CommitRuns
    <3>2. rec' \in [Ids -> Record] /\ saves' \subseteq SaveCall
      BY <2>2, <2>3, <3>1 DEF TypeOK
    <3>3. uncommittedByIp' \in [Ips -> Nat]
      BY <3>1 DEF SlotsWithout, TypeOK
    <3>4. TypeOK'
      BY <1>13, <2>1, <3>1, <3>2, <3>3 DEF CommitRuns, TypeOK, disk, others, env
    <3>5. LockOK'
      BY <1>13, <3>1 DEF CommitRuns, Turn, LockOK, TypeOK, Save
    <3> QED BY <3>4, <3>5
  <2> QED BY <2>4, <2>5
<1>14. ASSUME NEW id \in Ids, Revoke(id)
       PROVE  TypeInv'
  <2>1. rec[id] \in Record /\ Destroy(id, rec[id])
    BY <1>14 DEF Revoke, TypeOK
  <2>2. /\ rec' \in [Ids -> Record]
        /\ byId' \subseteq Ids
        /\ byCode' \in [Codes -> Ids \cup {None}]
        /\ registry' \in [Codes -> Ids \cup {None, Live}]
        /\ uncommittedByIp' \in [Ips -> Nat]
        /\ bytesOnDisk' \in Nat
        /\ removing' \in [Ids -> {"no", "blob", "meta"}]
    BY <2>1, DestroyTypes
  <2>3. TypeOK'
    BY <1>14, <2>2 DEF Revoke, TypeOK, disk, locks, env
  <2>4. LockOK'
    BY <1>14 DEF Revoke, LockOK, locks
  <2> QED BY <2>3, <2>4
<1>15. ASSUME NEW id \in Ids, Remove(id)
       PROVE  TypeInv'
  <2>1. removing' \in [Ids -> {"no", "blob", "meta"}]
    BY <1>15 DEF Remove, NextRemoval, TypeOK
  <2>2. blob' \in [Ids -> Seq(Nat) \cup {None}]
    BY <1>15 DEF Remove, TypeOK
  <2>3. meta' \in [Ids -> Sidecar \cup {None}]
    BY <1>15 DEF Remove, TypeOK
  <2>4. TypeOK'
    BY <1>15, <2>1, <2>2, <2>3 DEF Remove, TypeOK, maps, locks, env
  <2>5. LockOK'
    BY <1>15 DEF Remove, LockOK, locks
  <2> QED BY <2>4, <2>5
<1>16. ASSUME NEW id \in Ids, RemoveFails(id)
       PROVE  TypeInv'
  <2>1. removing' \in [Ids -> {"no", "blob", "meta"}]
    BY <1>16 DEF RemoveFails, NextRemoval, TypeOK
  <2>2. faults' \in Nat /\ stuck' \subseteq Ids
    BY <1>16 DEF RemoveFails, Fails, TypeOK
  <2>3. TypeOK'
    BY <1>16, <2>1, <2>2 DEF RemoveFails, TypeOK, maps, disk, locks
  <2>4. LockOK'
    BY <1>16 DEF RemoveFails, LockOK, locks
  <2> QED BY <2>3, <2>4
<1>17. ASSUME NEW code \in Codes, BeginRead(code)
       PROVE  TypeInv'
  <2> DEFINE id == byCode[code]
  <2>1. id \in Ids
    BY <1>17 DEF BeginRead, TypeOK
  <2>2. [rec[id] EXCEPT !.reading = TRUE] \in Record
    BY <2>1, SetReading DEF TypeOK
  <2>3. /\ rec' = [rec EXCEPT ![id] = [rec[id] EXCEPT !.reading = TRUE]]
        /\ streams' = [streams EXCEPT ![id].opening = @ + 1]
        /\ UNCHANGED <<maps, disk, creation, saves, locks, removing, sweeping, env>>
    BY <1>17 DEF BeginRead
  <2>4. rec' \in [Ids -> Record]
    BY <2>2, <2>3 DEF TypeOK
  <2>5. streams' \in [Ids -> [opening : Nat, whole : Nat]]
    BY <2>1, <2>3, StreamTypes DEF TypeOK
  <2>6. TypeOK'
    BY <2>3, <2>4, <2>5 DEF TypeOK, maps, disk, locks, env
  <2>7. LockOK'
    BY <2>3 DEF LockOK, locks
  <2> QED BY <2>6, <2>7
<1>18. ASSUME NEW id \in Ids, OpenBlob(id)
       PROVE  TypeInv'
  <2>1. streams' \in [Ids -> [opening : Nat, whole : Nat]]
    BY <1>18, StreamTypes DEF OpenBlob, TypeOK
  <2>2. TypeOK'
    BY <1>18, <2>1 DEF OpenBlob, TypeOK, maps, disk, locks, env
  <2>3. LockOK'
    BY <1>18 DEF OpenBlob, LockOK, locks
  <2> QED BY <2>2, <2>3
<1>19. ASSUME NEW id \in Ids, FinishShort(id)
       PROVE  TypeInv'
  <2>1. streams' \in [Ids -> [opening : Nat, whole : Nat]]
    <3>1. \/ streams[id].opening > 0 /\ streams' = [streams EXCEPT ![id].opening = @ - 1]
          \/ streams[id].whole > 0 /\ streams' = [streams EXCEPT ![id].whole = @ - 1]
      BY <1>19 DEF FinishShort
    <3>2. streams \in [Ids -> [opening : Nat, whole : Nat]]
      BY DEF TypeOK
    <3>3. CASE streams[id].opening > 0 /\ streams' = [streams EXCEPT ![id].opening = @ - 1]
      BY <3>2, <3>3, StreamTypes
    <3>4. CASE streams[id].whole > 0 /\ streams' = [streams EXCEPT ![id].whole = @ - 1]
      BY <3>2, <3>4, StreamTypes
    <3> QED BY <3>1, <3>3, <3>4
  <2>2. [rec[id] EXCEPT !.reading = FALSE] \in Record
    BY SetReading DEF TypeOK
  <2>3. rec' = [rec EXCEPT ![id] = [rec[id] EXCEPT !.reading = FALSE]]
    BY <1>19 DEF FinishShort
  <2>4. rec' \in [Ids -> Record]
    BY <2>2, <2>3 DEF TypeOK
  <2>5. TypeOK'
    BY <1>19, <2>1, <2>4 DEF FinishShort, TypeOK, maps, disk, locks, env
  <2>6. LockOK'
    BY <1>19 DEF FinishShort, LockOK, locks
  <2> QED BY <2>5, <2>6
<1>20. ASSUME NEW id \in Ids, FinishComplete(id)
       PROVE  TypeInv'
  <2>1. streams' \in [Ids -> [opening : Nat, whole : Nat]]
    <3>1. streams[id].whole > 0 /\ streams' = [streams EXCEPT ![id].whole = @ - 1]
      BY <1>20 DEF FinishComplete
    <3>2. streams \in [Ids -> [opening : Nat, whole : Nat]]
      BY DEF TypeOK
    <3> QED BY <3>1, <3>2, StreamTypes
  <2>2. Served(rec[id]) \in Record
    BY ServedType DEF TypeOK
  <2>3. delivered' \in [Ids -> Nat]
    BY <1>20 DEF FinishComplete, TypeOK
  <2>4. UNCHANGED <<disk, creation, locks, sweeping, age, faults, stuck>>
    BY <1>20 DEF FinishComplete
  <2>5. CASE Exhausted(Served(rec[id]))
    <3>1. Destroy(id, Served(rec[id])) /\ saves' = saves
      BY <1>20, <2>5 DEF FinishComplete
    <3>2. /\ rec' \in [Ids -> Record]
          /\ byId' \subseteq Ids
          /\ byCode' \in [Codes -> Ids \cup {None}]
          /\ registry' \in [Codes -> Ids \cup {None, Live}]
          /\ uncommittedByIp' \in [Ips -> Nat]
          /\ bytesOnDisk' \in Nat
          /\ removing' \in [Ids -> {"no", "blob", "meta"}]
      BY <2>2, <3>1, DestroyTypes
    <3>3. TypeOK'
      BY <2>1, <2>3, <2>4, <3>1, <3>2 DEF TypeOK, disk, locks
    <3>4. LockOK'
      BY <2>4, <3>1 DEF LockOK, locks
    <3> QED BY <3>3, <3>4
  <2>6. CASE ~Exhausted(Served(rec[id]))
    <3>1. /\ rec' = [rec EXCEPT ![id] = Served(rec[id])]
          /\ saves' = saves \cup {Save(id, "read", Served(rec[id]))}
          /\ UNCHANGED <<maps, removing>>
      BY <1>20, <2>6 DEF FinishComplete
    <3>2. Save(id, "read", Served(rec[id])) \in SaveCall
      BY <2>2, SaveTypes
    <3>3. rec' \in [Ids -> Record] /\ saves' \subseteq SaveCall
      BY <2>2, <3>1, <3>2 DEF TypeOK
    <3>4. TypeOK'
      BY <2>1, <2>3, <2>4, <3>1, <3>3 DEF TypeOK, maps, disk, locks
    <3>5. LockOK'
      BY <2>4, <3>1 DEF LockOK, locks, Save
    <3> QED BY <3>4, <3>5
  <2> QED BY <2>5, <2>6
<1>21. ASSUME SweepStart \/ \E id \in Ids : SweepSkips(id)
       PROVE  TypeInv'
  <2>1. UNCHANGED <<rec, maps, disk, creation, saves, locks, removing, streams, env>>
    BY <1>21 DEF SweepStart, SweepSkips
  <2>2. sweeping' \subseteq Ids
    BY <1>21 DEF SweepStart, SweepSkips, TypeOK
  <2>3. TypeOK'
    BY <2>1, <2>2 DEF TypeOK, maps, disk, locks, env
  <2>4. LockOK'
    BY <2>1 DEF LockOK, locks
  <2> QED BY <2>3, <2>4
<1>22. ASSUME NEW id \in Ids, SweepDestroys(id)
       PROVE  TypeInv'
  <2>1. rec[id] \in Record /\ Destroy(id, rec[id])
    BY <1>22 DEF SweepDestroys, TypeOK
  <2>2. /\ rec' \in [Ids -> Record]
        /\ byId' \subseteq Ids
        /\ byCode' \in [Codes -> Ids \cup {None}]
        /\ registry' \in [Codes -> Ids \cup {None, Live}]
        /\ uncommittedByIp' \in [Ips -> Nat]
        /\ bytesOnDisk' \in Nat
        /\ removing' \in [Ids -> {"no", "blob", "meta"}]
    BY <2>1, DestroyTypes
  <2>3. sweeping' \subseteq Ids
    BY <1>22 DEF SweepDestroys, TypeOK
  <2>4. TypeOK'
    BY <1>22, <2>2, <2>3 DEF SweepDestroys, TypeOK, disk, locks, env
  <2>5. LockOK'
    BY <1>22 DEF SweepDestroys, LockOK, locks
  <2> QED BY <2>4, <2>5
<1>23. ASSUME NEW id \in Ids, GrowOlder(id)
       PROVE  TypeInv'
  <2>1. age' \in [Ids -> {"active", "idle", "stale", "past"}]
    <3>1. PICK a \in Ages : age' = [age EXCEPT ![id] = a]
      BY <1>23 DEF GrowOlder
    <3>2. a \in {"active", "idle", "stale", "past"}
      BY <3>1, ConstAssumption
    <3> QED BY <3>1, <3>2 DEF TypeOK
  <2>2. TypeOK'
    BY <1>23, <2>1 DEF GrowOlder, TypeOK, maps, disk, locks, others
  <2>3. LockOK'
    BY <1>23 DEF GrowOlder, LockOK, locks
  <2> QED BY <2>2, <2>3
<1>24. ASSUME NEW code \in LiveCodes, LiveCode(code)
       PROVE  TypeInv'
  <2>1. registry' \in [Codes -> Ids \cup {None, Live}]
    <3>1. \E v \in {None, Live} : registry' = [registry EXCEPT ![code] = v]
      BY <1>24 DEF LiveCode
    <3>2. registry \in [Codes -> Ids \cup {None, Live}]
      BY DEF TypeOK
    <3> QED BY ONLY <3>1, <3>2
  <2>2. TypeOK'
    BY <1>24, <2>1 DEF LiveCode, TypeOK, disk, locks, others, env
  <2>3. LockOK'
    BY <1>24 DEF LiveCode, LockOK, locks
  <2> QED BY <2>2, <2>3
<1>25. CASE UNCHANGED vars
  <2>1. TypeOK'
    BY <1>25 DEF vars, TypeOK, maps, disk, locks, others, env
  <2>2. LockOK'
    BY <1>25 DEF vars, LockOK, locks
  <2> QED BY <2>1, <2>2
<1>26. CASE Requests
  BY <1>1, <1>5, <1>6, <1>14, <1>17, <1>26 DEF Requests
<1>27. CASE \E id \in Ids :
              \/ CreateBlob(id) \/ LockStep(id) \/ Remove(id) \/ Reading(id)
              \/ Swept(id) \/ GrowOlder(id)
  BY <1>2, <1>7, <1>8, <1>9, <1>10, <1>11, <1>13, <1>15, <1>18, <1>19, <1>20, <1>21, <1>22,
     <1>23, <1>27 DEF LockStep, Reading, Swept
<1>28. CASE (\E s \in saves : SaveLands(s)) \/ SweepStart \/ FileFaults
            \/ \E code \in LiveCodes : LiveCode(code)
  BY <1>3, <1>4, <1>12, <1>16, <1>21, <1>24, <1>28 DEF FileFaults
<1> QED BY <1>25, <1>26, <1>27, <1>28 DEF Next

\* Whatever the limits, the number of clients and the order of their calls, no
\* handler of the store takes a counter below zero or a map out of its domain.
THEOREM TypeCorrect == Spec => []TypeOK
<1>1. TypeInv => TypeOK
  BY DEF TypeInv
<1> QED BY <1>1, TypeInit, TypeStep, PTL DEF Spec

----------------------------------------------------------------------------
(* The steps of Next one by one *)

LEMMA Steps ==
    ASSUME [Next]_vars
    PROVE  \/ \E id \in Ids, ip \in Ips, code \in Codes, n \in 1..MaxReadsLimit :
                  CreateUpload(id, ip, code, n)
           \/ \E id \in Ids, index \in 0..MaxFile : AppendPart(id, index)
           \/ \E id \in Ids :
                  \/ CommitUpload(id) \/ Revoke(id) \/ CreateBlob(id) \/ CreateBlobFails(id)
                  \/ AppendRefused(id) \/ AppendDestroys(id) \/ AppendThrows(id)
                  \/ AppendStarts(id) \/ AppendWrites(id) \/ AppendWriteFails(id)
                  \/ CommitRuns(id) \/ Remove(id) \/ RemoveFails(id)
                  \/ OpenBlob(id) \/ FinishShort(id) \/ FinishComplete(id)
                  \/ SweepSkips(id) \/ SweepDestroys(id) \/ GrowOlder(id)
           \/ \E code \in Codes : BeginRead(code)
           \/ \E s \in saves : SaveLands(s) \/ SaveFails(s)
           \/ SweepStart
           \/ \E code \in LiveCodes : LiveCode(code)
           \/ UNCHANGED vars
BY DEF Next, Requests, LockStep, Reading, Swept, FileFaults

----------------------------------------------------------------------------
(* The read budget *)

\* A download of a record is under way exactly while its reading flag is up, and
\* only while a read is left to count.
ReaderOf(id) ==
    /\ streams[id].opening + streams[id].whole = IF rec[id].reading THEN 1 ELSE 0
    /\ rec[id].reads <= rec[id].maxReads
    /\ rec[id].reading => rec[id].reads < rec[id].maxReads
    /\ creation[id] = "none" => rec[id].maxReads = 0

ReaderInv == \A id \in Ids : ReaderOf(id)

\* What a step does to the fields of a record that concern its readers.
SameReads(r, s) == /\ s.reading = r.reading
                   /\ s.reads = r.reads
                   /\ s.maxReads = r.maxReads

LEMMA UpdatesKeepReads ==
    ASSUME NEW r \in Record, NEW part \in Nat
    PROVE  SameReads(r, Grown(r, part)) /\ SameReads(r, Published(r)) /\ SameReads(r, Ended(r))
BY DEF SameReads, Grown, Published, Ended, Record

LEMMA DestroyKeepsReads ==
    ASSUME TypeOK, NEW id \in Ids, NEW r \in Record, Destroy(id, r)
    PROVE  /\ SameReads(r, rec'[id])
           /\ \A i \in Ids \ {id} : rec'[i] = rec[i]
<1>1. rec' = [rec EXCEPT ![id] = r] \/ rec' = [rec EXCEPT ![id] = Ended(r)]
  BY DEF Destroy
<1>2. SameReads(r, r) /\ SameReads(r, Ended(r))
  BY UpdatesKeepReads DEF SameReads
<1> QED BY <1>1, <1>2 DEF TypeOK

\* A step that moves neither readers nor the fields that concern them.
LEMMA ReaderFrame ==
    ASSUME ReaderInv,
           \A i \in Ids : SameReads(rec[i], rec'[i]),
           \A i \in Ids : creation'[i] = "none" => creation[i] = "none",
           UNCHANGED streams
    PROVE  ReaderInv'
BY DEF ReaderInv, ReaderOf, SameReads

LEMMA ReaderInit == Init => ReaderInv
BY DEF Init, ReaderInv, ReaderOf, Blank

LEMMA ReaderStep == TypeInv /\ ReaderInv /\ [Next]_vars => ReaderInv'
<1> SUFFICES ASSUME TypeInv, ReaderInv, [Next]_vars
             PROVE  ReaderInv'
  OBVIOUS
<1>0. TypeOK /\ \A i \in Ids : rec[i] \in Record
  BY DEF TypeInv, TypeOK
<1> DEFINE Same == \A i \in Ids : SameReads(rec[i], rec'[i])
<1> DEFINE Created == \A i \in Ids : creation'[i] = "none" => creation[i] = "none"
<1>1. ASSUME NEW id \in Ids, NEW ip \in Ips, NEW code \in Codes, NEW n \in 1..MaxReadsLimit,
             CreateUpload(id, ip, code, n)
      PROVE  ReaderInv'
  <2>1. /\ rec' = [rec EXCEPT ![id] = [Blank EXCEPT !.code = code, !.owner = ip, !.maxReads = n]]
        /\ creation' = [creation EXCEPT ![id] = "blob"]
        /\ UNCHANGED streams
        /\ creation[id] = "none"
    BY <1>1 DEF CreateUpload, others, env
  <2>2. /\ rec'[id].reads = 0 /\ rec'[id].reading = FALSE /\ rec'[id].maxReads = n
        /\ creation'[id] # "none"
    BY <1>0, <2>1 DEF Blank, TypeOK
  <2>3. n \in Nat /\ n > 0
    BY ConstAssumption
  <2>4. ReaderOf(id) /\ rec[id].reads \in Nat
    BY <1>0 DEF ReaderInv, Record
  <2>5. rec[id].reads = 0 /\ ~rec[id].reading
    BY <2>1, <2>4 DEF ReaderOf
  <2>6. ReaderOf(id)'
    BY <2>1, <2>2, <2>3, <2>4, <2>5 DEF ReaderOf
  <2>7. \A i \in Ids \ {id} : ReaderOf(i)'
    BY <1>0, <2>1 DEF ReaderInv, ReaderOf, TypeOK
  <2> QED BY <2>6, <2>7 DEF ReaderInv
<1>2. ASSUME NEW id \in Ids,
             CreateBlob(id) \/ CreateBlobFails(id)
      PROVE  ReaderInv'
  <2>1. Same /\ UNCHANGED streams
    BY <1>2 DEF CreateBlob, CreateBlobFails, SameReads, others, env
  <2>2. Created
    BY <1>0, <1>2 DEF CreateBlob, CreateBlobFails, TypeOK
  <2> QED BY <2>1, <2>2, ReaderFrame
<1>3. ASSUME NEW s \in saves, SaveLands(s) \/ SaveFails(s)
      PROVE  ReaderInv'
  <2>1. Same /\ UNCHANGED streams
    BY <1>3 DEF SaveLands, SaveFails, CreateDone, CreateFailed, AppendSettled, OtherSettled,
                SameReads, others, env
  <2>2. Created
    BY <1>0, <1>3 DEF SaveLands, SaveFails, CreateDone, CreateFailed, AppendSettled,
                      OtherSettled, TypeOK
  <2> QED BY <2>1, <2>2, ReaderFrame
<1>4. ASSUME NEW id \in Ids,
             \/ CommitUpload(id) \/ AppendRefused(id) \/ AppendThrows(id) \/ AppendStarts(id)
             \/ AppendWriteFails(id) \/ Remove(id) \/ RemoveFails(id) \/ SweepSkips(id)
             \/ GrowOlder(id) \/ \E index \in 0..MaxFile : AppendPart(id, index)
      PROVE  ReaderInv'
  <2>1. UNCHANGED <<rec, creation, streams>>
    BY <1>4 DEF CommitUpload, AppendRefused, AppendThrows, AppendStarts, AppendWriteFails,
                Remove, RemoveFails, SweepSkips, GrowOlder, AppendPart, others, env
  <2>2. Same /\ Created
    BY <2>1 DEF SameReads
  <2> QED BY <2>1, <2>2, ReaderFrame
<1>5. ASSUME SweepStart \/ (\E code \in LiveCodes : LiveCode(code))
             \/ UNCHANGED vars
      PROVE  ReaderInv'
  <2>1. UNCHANGED <<rec, creation, streams>>
    BY <1>5 DEF SweepStart, LiveCode, vars, others, env
  <2>2. Same /\ Created
    BY <2>1 DEF SameReads
  <2> QED BY <2>1, <2>2, ReaderFrame
<1>6. ASSUME NEW id \in Ids, Revoke(id) \/ AppendDestroys(id) \/ SweepDestroys(id)
      PROVE  ReaderInv'
  <2>1. Destroy(id, rec[id]) /\ UNCHANGED <<creation, streams>>
    BY <1>6 DEF Revoke, AppendDestroys, SweepDestroys, env
  <2>2. Same
    BY <1>0, <2>1, DestroyKeepsReads DEF SameReads
  <2> QED BY <2>1, <2>2, ReaderFrame
<1>7. ASSUME NEW id \in Ids, AppendWrites(id)
      PROVE  ReaderInv'
  <2>1. /\ rec' = [rec EXCEPT ![id] = Grown(rec[id], Head(queue[id]).index)]
        /\ UNCHANGED <<creation, streams>>
    BY <1>7 DEF AppendWrites, others
  <2>2. SameReads(rec[id], Grown(rec[id], Head(queue[id]).index))
    BY <1>0 DEF SameReads, Grown, Record
  <2>3. Same
    BY <1>0, <2>1, <2>2 DEF SameReads, TypeOK
  <2> QED BY <2>1, <2>3, ReaderFrame
<1>8. ASSUME NEW id \in Ids, CommitRuns(id)
      PROVE  ReaderInv'
  <2>1. /\ rec' = rec \/ rec' = [rec EXCEPT ![id] = Published(rec[id])]
        /\ UNCHANGED <<creation, streams>>
    BY <1>8 DEF CommitRuns, others, env
  <2>2. SameReads(rec[id], Published(rec[id]))
    BY <1>0 DEF SameReads, Published, Record
  <2>3. Same
    BY <1>0, <2>1, <2>2 DEF SameReads, TypeOK
  <2> QED BY <2>1, <2>3, ReaderFrame
<1>9. ASSUME NEW code \in Codes, BeginRead(code)
      PROVE  ReaderInv'
  <2>1. PICK id \in Ids : id = byCode[code]
    BY <1>0, <1>9 DEF BeginRead, TypeOK
  <2>2. /\ ~rec[id].reading
        /\ ~Exhausted(rec[id])
        /\ rec' = [rec EXCEPT ![id] = [rec[id] EXCEPT !.reading = TRUE]]
        /\ streams' = [streams EXCEPT ![id] = [streams[id] EXCEPT !.opening = @ + 1]]
        /\ UNCHANGED creation
    BY <1>9, <2>1 DEF BeginRead, Busy, Peekable, isExpired, env
  <2>3. rec[id].reads \in Nat /\ rec[id].maxReads \in Nat /\ rec[id].reads < rec[id].maxReads
    BY <1>0, <2>1, <2>2 DEF Exhausted, Record
  <2>4. streams[id] \in [opening : Nat, whole : Nat]
    BY <1>0, <2>1 DEF TypeOK
  <2>5. /\ rec'[id].reading = TRUE
        /\ rec'[id].reads = rec[id].reads /\ rec'[id].maxReads = rec[id].maxReads
    BY <1>0, <2>1, <2>2 DEF TypeOK, Record
  <2>6. /\ streams'[id].opening = streams[id].opening + 1
        /\ streams'[id].whole = streams[id].whole
    BY <1>0, <2>1, <2>2, <2>4 DEF TypeOK
  <2>7. ReaderOf(id)'
    <3>1. ReaderOf(id)
      BY DEF ReaderInv
    <3>2. streams[id].opening + streams[id].whole = 0
      BY <2>2, <3>1 DEF ReaderOf
    <3>3. streams'[id].opening + streams'[id].whole = 1
      BY <2>4, <2>6, <3>2
    <3>4. creation[id] # "none"
      BY <2>3, <3>1 DEF ReaderOf
    <3> QED BY <2>2, <2>3, <2>5, <3>2, <3>3, <3>4 DEF ReaderOf
  <2>8. \A i \in Ids \ {id} : ReaderOf(i)'
    BY <1>0, <2>1, <2>2 DEF ReaderInv, ReaderOf, TypeOK
  <2> QED BY <2>7, <2>8 DEF ReaderInv
<1>10. ASSUME NEW id \in Ids, OpenBlob(id)
       PROVE  ReaderInv'
  <2>1. /\ streams[id].opening > 0
        /\ streams' = [streams EXCEPT ![id] = [opening |-> streams[id].opening - 1,
                                               whole |-> streams[id].whole + 1]]
        /\ UNCHANGED <<rec, creation>>
    BY <1>10 DEF OpenBlob, env
  <2>2. streams[id] \in [opening : Nat, whole : Nat]
    BY <1>0 DEF TypeOK
  <2>3. streams'[id].opening + streams'[id].whole = streams[id].opening + streams[id].whole
    BY <1>0, <2>1, <2>2 DEF TypeOK
  <2>4. \A i \in Ids \ {id} : streams'[i] = streams[i]
    BY <1>0, <2>1 DEF TypeOK
  <2> QED BY <2>1, <2>3, <2>4 DEF ReaderInv, ReaderOf
<1>11. ASSUME NEW id \in Ids, FinishShort(id) \/ FinishComplete(id)
       PROVE  \E n, m \in Nat :
                  /\ n = 0 /\ m = 0
                  /\ streams' = [streams EXCEPT ![id] = [opening |-> n, whole |-> m]]
                  /\ rec[id].reading
                  /\ rec[id].reads < rec[id].maxReads
                  /\ creation[id] # "none"
  <2>1. streams \in [Ids -> [opening : Nat, whole : Nat]]
    BY <1>0 DEF TypeOK
  <2> DEFINE o == streams[id].opening
             w == streams[id].whole
  <2>2. o \in Nat /\ w \in Nat /\ streams[id] = [opening |-> o, whole |-> w]
    BY <2>1
  <2>3. ReaderOf(id)
    BY DEF ReaderInv
  <2>4. \/ o > 0 /\ streams' = [streams EXCEPT ![id] = [streams[id] EXCEPT !.opening = o - 1]]
        \/ w > 0 /\ streams' = [streams EXCEPT ![id] = [streams[id] EXCEPT !.whole = w - 1]]
    BY <1>11 DEF FinishShort, FinishComplete
  <2>5. rec[id].reading /\ o + w = 1
    BY <2>2, <2>3, <2>4 DEF ReaderOf
  <2>6. rec[id].reads < rec[id].maxReads /\ rec[id].reads \in Nat /\ rec[id].maxReads \in Nat
    BY <1>0, <2>3, <2>5 DEF ReaderOf, Record
  <2>7. creation[id] # "none"
    BY <2>3, <2>6 DEF ReaderOf
  <2>8. streams' = [streams EXCEPT ![id] = [opening |-> 0, whole |-> 0]]
    <3>0. ASSUME NEW n \in Nat
          PROVE  /\ [streams[id] EXCEPT !.opening = n] = [opening |-> n, whole |-> w]
                 /\ [streams[id] EXCEPT !.whole = n] = [opening |-> o, whole |-> n]
      BY <2>1
    <3>1. CASE o > 0 /\ streams' = [streams EXCEPT ![id] = [streams[id] EXCEPT !.opening = o - 1]]
      <4>1. o - 1 = 0 /\ w = 0
        BY <2>2, <2>5, <3>1
      <4> QED BY <3>0, <3>1, <4>1
    <3>2. CASE w > 0 /\ streams' = [streams EXCEPT ![id] = [streams[id] EXCEPT !.whole = w - 1]]
      <4>1. w - 1 = 0 /\ o = 0
        BY <2>2, <2>5, <3>2
      <4> QED BY <3>0, <3>2, <4>1
    <3> QED BY <2>4, <3>1, <3>2
  <2> QED BY <2>5, <2>6, <2>7, <2>8
<1>12. ASSUME NEW id \in Ids, FinishShort(id)
       PROVE  ReaderInv'
  <2>1. /\ rec' = [rec EXCEPT ![id] = [rec[id] EXCEPT !.reading = FALSE]]
        /\ UNCHANGED creation
    BY <1>12 DEF FinishShort, env
  <2>2. streams' = [streams EXCEPT ![id] = [opening |-> 0, whole |-> 0]]
        /\ rec[id].reads < rec[id].maxReads /\ creation[id] # "none"
    BY <1>11, <1>12
  <2>3. /\ rec'[id].reading = FALSE
        /\ rec'[id].reads = rec[id].reads /\ rec'[id].maxReads = rec[id].maxReads
    BY <1>0, <2>1 DEF TypeOK, Record
  <2>4. streams'[id].opening + streams'[id].whole = 0
    BY <1>0, <2>2 DEF TypeOK
  <2>5. ReaderOf(id)'
    BY <2>1, <2>2, <2>3, <2>4 DEF ReaderInv, ReaderOf
  <2>6. \A i \in Ids \ {id} : ReaderOf(i)'
    BY <1>0, <2>1, <2>2 DEF ReaderInv, ReaderOf, TypeOK
  <2> QED BY <2>5, <2>6 DEF ReaderInv
<1>13. ASSUME NEW id \in Ids, FinishComplete(id)
       PROVE  ReaderInv'
  <2>1. UNCHANGED creation
    BY <1>13 DEF FinishComplete
  <2>2. streams' = [streams EXCEPT ![id] = [opening |-> 0, whole |-> 0]]
        /\ rec[id].reads < rec[id].maxReads /\ creation[id] # "none"
    BY <1>11, <1>13
  <2>3. Served(rec[id]) \in Record
    BY <1>0, ServedType
  <2>4. /\ Served(rec[id]).reading = FALSE
        /\ Served(rec[id]).reads = rec[id].reads + 1
        /\ Served(rec[id]).maxReads = rec[id].maxReads
    BY <1>0 DEF Served, Record
  <2>5. /\ SameReads(Served(rec[id]), rec'[id])
        /\ \A i \in Ids \ {id} : rec'[i] = rec[i]
    <3>1. CASE Destroy(id, Served(rec[id]))
      BY <1>0, <2>3, <3>1, DestroyKeepsReads
    <3>2. CASE rec' = [rec EXCEPT ![id] = Served(rec[id])]
      BY <1>0, <3>2 DEF SameReads, TypeOK
    <3> QED BY <1>13, <3>1, <3>2 DEF FinishComplete
  <2>6. /\ rec'[id].reading = FALSE
        /\ rec'[id].reads = rec[id].reads + 1
        /\ rec'[id].maxReads = rec[id].maxReads
    BY <2>4, <2>5 DEF SameReads
  <2>7. streams'[id].opening + streams'[id].whole = 0
    BY <1>0, <2>1, <2>2 DEF TypeOK
  <2>8. rec[id].reads \in Nat /\ rec[id].maxReads \in Nat
    BY <1>0 DEF Record
  <2>9. ReaderOf(id)'
    BY <2>1, <2>2, <2>6, <2>7, <2>8 DEF ReaderOf
  <2>10. \A i \in Ids \ {id} : ReaderOf(i)'
    BY <1>0, <2>1, <2>2, <2>5 DEF ReaderInv, ReaderOf, TypeOK
  <2> QED BY <2>9, <2>10 DEF ReaderInv
<1> QED BY <1>1, <1>2, <1>3, <1>4, <1>5, <1>6, <1>7, <1>8, <1>9, <1>10, <1>12, <1>13, Steps

\* What was delivered is what is counted, as long as the process lives.
ReadInvOf(id) == ReaderOf(id) /\ delivered[id] = rec[id].reads

ReadInv == \A id \in Ids : ReadInvOf(id)

LEMMA ReadersOfReads == ReadInv => ReaderInv
BY DEF ReadInv, ReadInvOf, ReaderInv

LEMMA ReadInit == Init => ReadInv
BY ReaderInit DEF Init, ReadInv, ReadInvOf, ReaderInv, Blank

LEMMA ReadStep == TypeInv /\ ReadInv /\ [Next]_vars => ReadInv'
<1> SUFFICES ASSUME TypeInv, ReadInv, [Next]_vars
             PROVE  \A i \in Ids : delivered'[i] = rec'[i].reads
  BY ReaderStep, ReadersOfReads DEF ReadInv, ReadInvOf, ReaderInv
<1>0. /\ TypeOK /\ \A i \in Ids : rec[i] \in Record
      /\ \A i \in Ids : ReaderOf(i) /\ delivered[i] = rec[i].reads
  BY DEF TypeInv, TypeOK, ReadInv, ReadInvOf
<1> DEFINE Kept == \A i \in Ids : rec'[i].reads = rec[i].reads
<1>1. ASSUME NEW id \in Ids, NEW ip \in Ips, NEW code \in Codes, NEW n \in 1..MaxReadsLimit,
             CreateUpload(id, ip, code, n)
      PROVE  Kept /\ UNCHANGED delivered
  <2>1. /\ creation[id] = "none" /\ UNCHANGED delivered
        /\ rec' = [rec EXCEPT ![id] = [Blank EXCEPT !.code = code, !.owner = ip, !.maxReads = n]]
    BY <1>1 DEF CreateUpload, env
  <2>2. rec[id].reads \in Nat /\ rec[id].reads <= rec[id].maxReads /\ rec[id].maxReads = 0
    BY <1>0, <2>1 DEF ReaderOf, Record
  <2>3. rec[id].reads = 0
    BY <2>2
  <2>4. rec'[id].reads = 0 /\ \A i \in Ids \ {id} : rec'[i] = rec[i]
    BY <1>0, <2>1 DEF TypeOK, Blank
  <2> QED BY <2>1, <2>3, <2>4
<1>2. ASSUME NEW id \in Ids,
             \/ CommitUpload(id) \/ AppendRefused(id) \/ AppendThrows(id) \/ AppendStarts(id)
             \/ AppendWriteFails(id) \/ Remove(id) \/ RemoveFails(id) \/ SweepSkips(id)
             \/ GrowOlder(id) \/ OpenBlob(id) \/ CreateBlob(id) \/ CreateBlobFails(id)
             \/ \E index \in 0..MaxFile : AppendPart(id, index)
      PROVE  Kept /\ UNCHANGED delivered
  BY <1>2 DEF CommitUpload, AppendRefused, AppendThrows, AppendStarts, AppendWriteFails,
              Remove, RemoveFails, SweepSkips, GrowOlder, OpenBlob, CreateBlob, CreateBlobFails,
              AppendPart, env
<1>3. ASSUME SweepStart \/ (\E code \in LiveCodes : LiveCode(code))
             \/ (\E s \in saves : SaveLands(s) \/ SaveFails(s)) \/ UNCHANGED vars
      PROVE  Kept /\ UNCHANGED delivered
  BY <1>3 DEF SweepStart, LiveCode, SaveLands, SaveFails, CreateDone, CreateFailed,
              AppendSettled, OtherSettled, vars, env
<1>4. ASSUME NEW id \in Ids, Revoke(id) \/ AppendDestroys(id) \/ SweepDestroys(id)
      PROVE  Kept /\ UNCHANGED delivered
  <2>1. Destroy(id, rec[id]) /\ UNCHANGED delivered
    BY <1>4 DEF Revoke, AppendDestroys, SweepDestroys, env
  <2> QED BY <1>0, <2>1, DestroyKeepsReads DEF SameReads
<1>5. ASSUME NEW id \in Ids,
             \/ AppendWrites(id) \/ CommitRuns(id) \/ FinishShort(id)
             \/ \E code \in Codes : BeginRead(code) /\ id = byCode[code]
      PROVE  Kept /\ UNCHANGED delivered
  <2>1. /\ UNCHANGED delivered
        /\ \/ rec' = rec
           \/ rec' = [rec EXCEPT ![id] = Grown(rec[id], Head(queue[id]).index)]
           \/ rec' = [rec EXCEPT ![id] = Published(rec[id])]
           \/ rec' = [rec EXCEPT ![id] = [rec[id] EXCEPT !.reading = FALSE]]
           \/ rec' = [rec EXCEPT ![id] = [rec[id] EXCEPT !.reading = TRUE]]
    BY <1>5 DEF AppendWrites, CommitRuns, FinishShort, BeginRead, env
  <2>2. /\ Grown(rec[id], Head(queue[id]).index).reads = rec[id].reads
        /\ Published(rec[id]).reads = rec[id].reads
        /\ [rec[id] EXCEPT !.reading = FALSE].reads = rec[id].reads
        /\ [rec[id] EXCEPT !.reading = TRUE].reads = rec[id].reads
    BY <1>0 DEF Grown, Published, Record
  <2> QED BY <1>0, <2>1, <2>2 DEF TypeOK
<1>6. ASSUME NEW id \in Ids, FinishComplete(id)
      PROVE  \A i \in Ids : delivered'[i] = rec'[i].reads
  <2>1. delivered' = [delivered EXCEPT ![id] = delivered[id] + 1]
    BY <1>6 DEF FinishComplete
  <2>2. /\ delivered'[id] = delivered[id] + 1
        /\ \A i \in Ids \ {id} : delivered'[i] = delivered[i]
    BY <1>0, <2>1 DEF TypeOK
  <2>3. Served(rec[id]) \in Record /\ Served(rec[id]).reads = rec[id].reads + 1
    BY <1>0, ServedType DEF Served, Record
  <2>4. /\ SameReads(Served(rec[id]), rec'[id])
        /\ \A i \in Ids \ {id} : rec'[i] = rec[i]
    <3>1. CASE Destroy(id, Served(rec[id]))
      BY <1>0, <2>3, <3>1, DestroyKeepsReads
    <3>2. CASE rec' = [rec EXCEPT ![id] = Served(rec[id])]
      BY <1>0, <3>2 DEF SameReads, TypeOK
    <3> QED BY <1>6, <3>1, <3>2 DEF FinishComplete
  <2> QED BY <1>0, <2>2, <2>3, <2>4 DEF SameReads
<1>7. ASSUME NEW code \in Codes, BeginRead(code)
      PROVE  Kept /\ UNCHANGED delivered
  <2>1. byCode[code] \in Ids
    BY <1>0, <1>7 DEF BeginRead, TypeOK
  <2> QED BY <1>5, <1>7, <2>1
<1> HIDE DEF Kept
<1>8. ASSUME Kept /\ UNCHANGED delivered
      PROVE  \A i \in Ids : delivered'[i] = rec'[i].reads
  BY <1>0, <1>8 DEF Kept
<1> QED BY <1>1, <1>2, <1>3, <1>4, <1>5, <1>6, <1>7, <1>8, Steps

\* No transfer is delivered whole more often than its read budget, whatever
\* revocations, expiries, failed files and dropped connections come between
\* (beginRead, finish and destroy).
THEOREM ReadBudgetHolds == Spec => []ReadBudget
<1>1. TypeInv /\ ReadInv => ReadBudget
  BY DEF TypeInv, TypeOK, ReadInv, ReadInvOf, ReaderOf, ReadBudget
<1> QED BY <1>1, TypeInit, TypeStep, ReadInit, ReadStep, PTL DEF Spec

----------------------------------------------------------------------------
(* The life of a record *)

\* Until createUpload has returned, nothing but createUpload knows the record;
\* afterwards it is in the map exactly until destroy marks it.
LifeOf(id) ==
    /\ creation[id] # "done" =>
           /\ id \notin byId
           /\ ~rec[id].deleted /\ ~rec[id].committed /\ ~rec[id].reading
           /\ rec[id].size = 0 /\ rec[id].nextIndex = 0
           /\ queue[id] = <<>> /\ appending[id] = "idle"
           /\ removing[id] = "no"
           /\ id \notin sweeping
    /\ creation[id] = "done" => (id \in byId <=> ~rec[id].deleted)
    /\ removing[id] # "no" => rec[id].deleted

\* A writeMeta under way is createUpload's own, and its only one, or it belongs
\* to a record that exists.
SavesInv ==
    /\ \A s \in saves : creation[s.id] = IF s.by = "create" THEN "meta" ELSE "done"
    /\ \A s, t \in saves : s.by = "create" /\ t.by = "create" /\ s.id = t.id => s = t

LifeInv == (\A id \in Ids : LifeOf(id)) /\ SavesInv

\* Only destroy marks a record.
SameDeletion(r, s) == s.deleted = r.deleted

LEMMA KeepDeletion ==
    ASSUME NEW r \in Record, NEW part \in Nat, NEW b \in BOOLEAN
    PROVE  /\ SameDeletion(r, Grown(r, part))
           /\ SameDeletion(r, Published(r))
           /\ SameDeletion(r, Served(r))
           /\ SameDeletion(r, [r EXCEPT !.reading = b])
BY DEF SameDeletion, Grown, Published, Served, Record

LEMMA LifeFrame ==
    ASSUME NEW id \in Ids, LifeOf(id),
           creation'[id] = creation[id],
           id \in byId' <=> id \in byId,
           rec'[id] = rec[id],
           creation[id] # "done" => queue'[id] = queue[id] /\ appending'[id] = appending[id],
           removing'[id] # "no" => removing[id] # "no",
           creation[id] # "done" => id \notin sweeping'
    PROVE  LifeOf(id)'
BY DEF LifeOf

\* For a record that exists, only its flag, the map and the removal matter.
LEMMA LifeOfDone ==
    ASSUME NEW id \in Ids,
           creation'[id] = "done",
           id \in byId' <=> ~rec'[id].deleted,
           removing'[id] # "no" => rec'[id].deleted
    PROVE  LifeOf(id)'
BY DEF LifeOf

LEMMA DestroyLife ==
    ASSUME TypeOK, LifeInv, NEW id \in Ids, NEW r \in Record, r.deleted = rec[id].deleted,
           creation[id] = "done", Destroy(id, r), creation' = creation
    PROVE  /\ LifeOf(id)'
           /\ \A i \in Ids \ {id} : /\ rec'[i] = rec[i]
                                    /\ i \in byId' <=> i \in byId
                                    /\ removing'[i] = removing[i]
<1>1. LifeOf(id) /\ rec \in [Ids -> Record] /\ removing \in [Ids -> {"no", "blob", "meta"}]
  BY DEF LifeInv, TypeOK
<1>2. CASE r.deleted
  <2>1. rec' = [rec EXCEPT ![id] = r] /\ UNCHANGED <<byId, removing>>
    BY <1>2 DEF Destroy, Destroyed, maps
  <2>2. id \notin byId /\ rec'[id] = r
    BY <1>1, <1>2, <2>1 DEF LifeOf
  <2> QED BY <1>1, <1>2, <2>1, <2>2, LifeOfDone
<1>3. CASE ~r.deleted
  <2>1. /\ rec' = [rec EXCEPT ![id] = Ended(r)]
        /\ byId' = byId \ {id}
        /\ removing' = [removing EXCEPT ![id] = "blob"]
    BY <1>3 DEF Destroy, Destroyed
  <2>2. rec'[id].deleted = TRUE
    BY <1>1, <2>1 DEF Ended, Record
  <2> QED BY <1>1, <2>1, <2>2, LifeOfDone
<1> QED BY <1>2, <1>3

LEMMA LifeInit == Init => LifeInv
BY DEF Init, LifeInv, LifeOf, SavesInv, Blank

LEMMA LifeStep == TypeInv /\ ReaderInv /\ LifeInv /\ [Next]_vars => LifeInv'
<1> SUFFICES ASSUME TypeInv, ReaderInv, LifeInv, [Next]_vars
             PROVE  LifeInv'
  OBVIOUS
<1>0. /\ TypeOK
      /\ \A i \in Ids : LifeOf(i) /\ rec[i] \in Record /\ ReaderOf(i)
      /\ SavesInv
  BY DEF TypeInv, TypeOK, LifeInv, ReaderInv
<1>1. ASSUME NEW id \in Ids, NEW ip \in Ips, NEW code \in Codes, NEW n \in 1..MaxReadsLimit,
             CreateUpload(id, ip, code, n)
      PROVE  LifeInv'
  <2>1. /\ creation[id] = "none"
        /\ rec' = [rec EXCEPT ![id] = [Blank EXCEPT !.code = code, !.owner = ip, !.maxReads = n]]
        /\ creation' = [creation EXCEPT ![id] = "blob"]
        /\ UNCHANGED <<byId, queue, appending, removing, sweeping, saves>>
    BY <1>1 DEF CreateUpload, others, locks
  <2>2. /\ ~rec'[id].deleted /\ ~rec'[id].committed /\ ~rec'[id].reading
        /\ rec'[id].size = 0 /\ rec'[id].nextIndex = 0
        /\ creation'[id] = "blob"
    BY <1>0, <2>1 DEF TypeOK, Blank
  <2>3. LifeOf(id)'
    BY <1>0, <2>1, <2>2 DEF LifeOf
  <2>4. \A i \in Ids \ {id} : rec'[i] = rec[i] /\ creation'[i] = creation[i]
    BY <1>0, <2>1 DEF TypeOK
  <2>5. \A i \in Ids \ {id} : LifeOf(i)'
    BY <1>0, <2>1, <2>4, LifeFrame DEF LifeOf
  <2>6. \A s \in saves : s.id \in Ids /\ s.id # id
    BY <1>0, <2>1 DEF SavesInv, TypeOK, SaveCall
  <2>7. SavesInv'
    BY <1>0, <2>1, <2>4, <2>6 DEF SavesInv
  <2> QED BY <2>3, <2>5, <2>7 DEF LifeInv
<1>2. ASSUME NEW id \in Ids, CreateBlob(id)
      PROVE  LifeInv'
  <2>1. /\ creation[id] = "blob"
        /\ creation' = [creation EXCEPT ![id] = "meta"]
        /\ saves' = saves \cup {Save(id, "create", rec[id])}
        /\ UNCHANGED <<rec, byId, queue, appending, removing, sweeping>>
    BY <1>2 DEF CreateBlob, others, locks, maps
  <2>2. creation'[id] = "meta" /\ \A i \in Ids \ {id} : creation'[i] = creation[i]
    BY <1>0, <2>1 DEF TypeOK
  <2>3. \A i \in Ids : LifeOf(i)'
    BY <1>0, <2>1, <2>2 DEF LifeOf
  <2>4. \A s \in saves : s.id \in Ids /\ s.id # id
    BY <1>0, <2>1 DEF SavesInv, TypeOK, SaveCall
  <2>5. SavesInv'
    BY <1>0, <2>1, <2>2, <2>4 DEF SavesInv, Save
  <2> QED BY <2>3, <2>5 DEF LifeInv
<1>3. ASSUME NEW id \in Ids, CreateBlobFails(id)
      PROVE  LifeInv'
  <2>1. /\ creation[id] = "blob"
        /\ creation' = [creation EXCEPT ![id] = "failed"]
        /\ UNCHANGED <<rec, byId, queue, appending, removing, sweeping, saves>>
    BY <1>3 DEF CreateBlobFails, others, locks
  <2>2. creation'[id] = "failed" /\ \A i \in Ids \ {id} : creation'[i] = creation[i]
    BY <1>0, <2>1 DEF TypeOK
  <2>3. \A i \in Ids : LifeOf(i)'
    BY <1>0, <2>1, <2>2 DEF LifeOf
  <2>4. \A s \in saves : s.id \in Ids /\ s.id # id
    BY <1>0, <2>1 DEF SavesInv, TypeOK, SaveCall
  <2>5. SavesInv'
    BY <1>0, <2>1, <2>2, <2>4 DEF SavesInv
  <2> QED BY <2>3, <2>5 DEF LifeInv
<1>4. ASSUME NEW s \in saves, SaveLands(s) \/ SaveFails(s)
      PROVE  LifeInv'
  <2>0. s.id \in Ids
    BY <1>0 DEF TypeOK, SaveCall
  <2>1. saves' = saves \ {s} /\ UNCHANGED <<removing, sweeping, rec>>
    BY <1>4 DEF SaveLands, SaveFails, CreateDone, CreateFailed, AppendSettled, OtherSettled, others
  <2>2. CASE CreateDone(s) \/ CreateFailed(s)
    <3>1. /\ s.by = "create"
          /\ \/ byId' = byId \cup {s.id} /\ creation' = [creation EXCEPT ![s.id] = "done"]
             \/ byId' = byId /\ creation' = [creation EXCEPT ![s.id] = "failed"]
          /\ UNCHANGED <<queue, appending>>
      BY <2>2 DEF CreateDone, CreateFailed, locks
    <3>2. /\ \/ creation'[s.id] = "done" /\ s.id \in byId'
             \/ creation'[s.id] = "failed" /\ s.id \notin byId'
          /\ creation[s.id] = "meta"
          /\ \A i \in Ids \ {s.id} : creation'[i] = creation[i] /\ (i \in byId' <=> i \in byId)
      BY <1>0, <2>0, <3>1 DEF TypeOK, SavesInv, LifeOf
    <3>3. \A i \in Ids : LifeOf(i)'
      BY <1>0, <2>0, <2>1, <3>1, <3>2 DEF LifeOf
    <3>4. \A t \in saves : t # s => t.id \in Ids /\ t.id # s.id
      BY <1>0, <2>0, <3>1, <3>2 DEF SavesInv, TypeOK, SaveCall
    <3>5. SavesInv'
      BY <1>0, <2>1, <3>2, <3>4 DEF SavesInv
    <3> QED BY <3>3, <3>5 DEF LifeInv
  <2>3. CASE AppendSettled(s) \/ OtherSettled(s)
    <3>1. s.by # "create" /\ UNCHANGED <<byId, creation>>
      BY <2>3 DEF AppendSettled, OtherSettled, maps
    <3>2. creation[s.id] = "done"
      BY <1>0, <3>1 DEF SavesInv
    <3>3. \A i \in Ids \ {s.id} : queue'[i] = queue[i] /\ appending'[i] = appending[i]
      BY <1>0, <2>0, <2>3 DEF AppendSettled, OtherSettled, locks, TypeOK
    <3>4. \A i \in Ids : LifeOf(i)'
      BY <1>0, <2>0, <2>1, <3>1, <3>2, <3>3 DEF LifeOf
    <3>5. SavesInv'
      BY <1>0, <2>1, <3>1 DEF SavesInv
    <3> QED BY <3>4, <3>5 DEF LifeInv
  <2> QED BY <1>4, <2>2, <2>3 DEF SaveLands, SaveFails
<1>5. ASSUME NEW id \in Ids, CommitUpload(id) \/ \E index \in 0..MaxFile : AppendPart(id, index)
      PROVE  LifeInv'
  <2>1. id \in byId /\ UNCHANGED <<rec, byId, creation, appending, removing, sweeping, saves>>
    BY <1>5 DEF CommitUpload, AppendPart, maps, others
  <2>2. \A i \in Ids \ {id} : queue'[i] = queue[i]
    BY <1>0, <1>5 DEF CommitUpload, AppendPart, TypeOK
  <2>3. \A i \in Ids : LifeOf(i)'
    BY <1>0, <2>1, <2>2 DEF LifeOf
  <2> QED BY <1>0, <2>1, <2>3 DEF LifeInv, SavesInv
<1>6. ASSUME NEW id \in Ids,
             AppendRefused(id) \/ AppendThrows(id) \/ AppendStarts(id) \/ AppendWriteFails(id)
      PROVE  LifeInv'
  <2>1. UNCHANGED <<rec, byId, creation, removing, sweeping, saves>>
    BY <1>6 DEF AppendRefused, AppendThrows, AppendStarts, AppendWriteFails, maps, others
  <2>2. creation[id] = "done"
    BY <1>0, <1>6 DEF AppendRefused, AppendThrows, AppendStarts, AppendWriteFails, Turn, LifeOf
  <2>3. \A i \in Ids \ {id} : queue'[i] = queue[i] /\ appending'[i] = appending[i]
    BY <1>0, <1>6 DEF AppendRefused, AppendThrows, AppendStarts, AppendWriteFails, TypeOK
  <2>4. \A i \in Ids : LifeOf(i)'
    BY <1>0, <2>1, <2>2, <2>3 DEF LifeOf
  <2> QED BY <1>0, <2>1, <2>4 DEF LifeInv, SavesInv
<1>7. ASSUME NEW id \in Ids, NEW r \in Record, SameDeletion(rec[id], r), creation[id] = "done",
             rec' = [rec EXCEPT ![id] = r],
             UNCHANGED <<byId, creation, removing, sweeping>>,
             \A i \in Ids \ {id} : queue'[i] = queue[i] /\ appending'[i] = appending[i],
             \E by \in {"append", "commit", "read"} : saves' \in {saves, saves \cup {Save(id, by, r)}}
      PROVE  LifeInv'
  <2>1. rec'[id].deleted = rec[id].deleted /\ \A i \in Ids \ {id} : rec'[i] = rec[i]
    BY <1>0, <1>7 DEF SameDeletion, TypeOK
  <2>2. \A i \in Ids : LifeOf(i)'
    BY <1>0, <1>7, <2>1 DEF LifeOf
  <2>3. \A s \in saves' : s \in saves \/ (s.id = id /\ s.by # "create")
    BY <1>7 DEF Save
  <2>4. SavesInv'
    BY <1>0, <1>7, <2>3 DEF SavesInv
  <2> QED BY <2>2, <2>4 DEF LifeInv
<1>8. ASSUME NEW id \in Ids, AppendWrites(id)
      PROVE  LifeInv'
  <2>0. PICK part \in Nat : part = Head(queue[id]).index
    <3>1. queue[id] # <<>> /\ queue[id] \in Seq(Call)
      BY <1>8 DEF AppendWrites, TypeInv, LockOK, TypeOK
    <3>2. Head(queue[id]) \in Call
      BY <3>1
    <3> QED BY <3>2 DEF Call
  <2>1. /\ creation[id] = "done"
        /\ rec' = [rec EXCEPT ![id] = Grown(rec[id], part)]
        /\ UNCHANGED <<byId, creation, removing, sweeping, queue>>
        /\ appending' = [appending EXCEPT ![id] = "save"]
        /\ saves' = saves \cup {Save(id, "append", Grown(rec[id], part))}
    BY <1>0, <1>8, <2>0 DEF AppendWrites, others, LifeOf
  <2>2. Grown(rec[id], part) \in Record /\ SameDeletion(rec[id], Grown(rec[id], part))
    BY <1>0, GrownType, KeepDeletion
  <2>3. \A i \in Ids \ {id} : queue'[i] = queue[i] /\ appending'[i] = appending[i]
    BY <1>0, <2>1 DEF TypeOK
  <2> QED BY <1>7, <2>1, <2>2, <2>3
<1>9. ASSUME NEW id \in Ids, CommitRuns(id)
      PROVE  LifeInv'
  <2>1. /\ creation[id] = "done"
        /\ UNCHANGED <<byId, creation, removing, sweeping>>
        /\ \/ rec' = rec /\ saves' = saves
           \/ /\ rec' = [rec EXCEPT ![id] = Published(rec[id])]
              /\ saves' = saves \cup {Save(id, "commit", Published(rec[id]))}
    BY <1>0, <1>9 DEF CommitRuns, Turn, others, maps, LifeOf
  <2>2. \A i \in Ids \ {id} : queue'[i] = queue[i] /\ appending'[i] = appending[i]
    BY <1>0, <1>9 DEF CommitRuns, TypeOK
  <2>3. Published(rec[id]) \in Record /\ SameDeletion(rec[id], Published(rec[id]))
    BY <1>0, PublishedType, KeepDeletion
  <2>4. rec[id] \in Record /\ SameDeletion(rec[id], rec[id]) /\ rec = [rec EXCEPT ![id] = rec[id]]
    BY <1>0 DEF SameDeletion, TypeOK
  <2>5. CASE rec' = rec /\ saves' = saves
    BY <1>7, <2>1, <2>2, <2>4, <2>5
  <2>6. CASE /\ rec' = [rec EXCEPT ![id] = Published(rec[id])]
             /\ saves' = saves \cup {Save(id, "commit", Published(rec[id]))}
    BY <1>7, <2>1, <2>2, <2>3, <2>6
  <2> QED BY <2>1, <2>5, <2>6
<1>10. ASSUME NEW id \in Ids, Remove(id) \/ RemoveFails(id)
       PROVE  LifeInv'
  <2>1. /\ UNCHANGED <<rec, byId, creation, queue, appending, sweeping, saves>>
        /\ removing[id] # "no" /\ removing' = NextRemoval(id)
    BY <1>10 DEF Remove, RemoveFails, maps, locks
  <2>2. \A i \in Ids : removing'[i] # "no" => removing[i] # "no"
    BY <1>0, <2>1 DEF NextRemoval, TypeOK
  <2>3. \A i \in Ids : LifeOf(i)'
    BY <1>0, <2>1, <2>2 DEF LifeOf
  <2> QED BY <1>0, <2>1, <2>3 DEF LifeInv, SavesInv
<1>11. ASSUME NEW id \in Ids, NEW r \in Record, r.deleted = rec[id].deleted,
              creation[id] = "done", Destroy(id, r),
              UNCHANGED <<creation, saves, queue>>,
              \A i \in Ids \ {id} : appending'[i] = appending[i],
              sweeping' \subseteq sweeping
       PROVE  LifeInv'
  <2>1. /\ LifeOf(id)'
        /\ \A i \in Ids \ {id} : /\ rec'[i] = rec[i]
                                 /\ i \in byId' <=> i \in byId
                                 /\ removing'[i] = removing[i]
    BY <1>0, <1>11, DestroyLife DEF LifeInv
  <2>2. \A i \in Ids \ {id} : LifeOf(i)'
    BY <1>0, <1>11, <2>1 DEF LifeOf
  <2>3. SavesInv'
    BY <1>0, <1>11 DEF SavesInv
  <2> QED BY <2>1, <2>2, <2>3 DEF LifeInv
<1>12. ASSUME NEW id \in Ids, Revoke(id) \/ AppendDestroys(id) \/ SweepDestroys(id)
       PROVE  LifeInv'
  <2>1. creation[id] = "done" /\ Destroy(id, rec[id]) /\ UNCHANGED <<creation, saves, queue>>
    BY <1>0, <1>12 DEF Revoke, AppendDestroys, SweepDestroys, Turn, locks, LifeOf
  <2>2. \A i \in Ids \ {id} : appending'[i] = appending[i]
    BY <1>0, <1>12 DEF Revoke, AppendDestroys, SweepDestroys, locks, TypeOK
  <2>3. sweeping' \subseteq sweeping
    BY <1>12 DEF Revoke, AppendDestroys, SweepDestroys
  <2> QED BY <1>0, <1>11, <2>1, <2>2, <2>3
<1>13. ASSUME NEW code \in Codes, BeginRead(code)
       PROVE  LifeInv'
  <2>1. PICK id \in Ids : id = byCode[code]
    BY <1>0, <1>13 DEF BeginRead, TypeOK
  <2>2. /\ id \in byId
        /\ rec' = [rec EXCEPT ![id] = [rec[id] EXCEPT !.reading = TRUE]]
        /\ UNCHANGED <<byId, creation, removing, sweeping, queue, appending, saves>>
    BY <1>13, <2>1 DEF BeginRead, Peekable, maps, locks
  <2>3. creation[id] = "done"
    BY <1>0, <2>2 DEF LifeOf
  <2>4. /\ [rec[id] EXCEPT !.reading = TRUE] \in Record
        /\ SameDeletion(rec[id], [rec[id] EXCEPT !.reading = TRUE])
    BY <1>0, SetReading, KeepDeletion
  <2> QED BY <1>7, <2>2, <2>3, <2>4
<1>14. ASSUME NEW id \in Ids, FinishShort(id) \/ FinishComplete(id)
       PROVE  creation[id] = "done"
  <2>1. streams[id].opening > 0 \/ streams[id].whole > 0
    BY <1>14 DEF FinishShort, FinishComplete
  <2>2. streams[id] \in [opening : Nat, whole : Nat] /\ ReaderOf(id) /\ LifeOf(id)
    BY <1>0 DEF TypeOK
  <2>3. rec[id].reading
    BY <2>1, <2>2 DEF ReaderOf
  <2> QED BY <2>2, <2>3 DEF LifeOf
<1>15. ASSUME NEW id \in Ids, FinishShort(id)
       PROVE  LifeInv'
  <2>1. /\ rec' = [rec EXCEPT ![id] = [rec[id] EXCEPT !.reading = FALSE]]
        /\ UNCHANGED <<byId, creation, removing, sweeping, queue, appending, saves>>
    BY <1>15 DEF FinishShort, maps, locks
  <2>2. /\ [rec[id] EXCEPT !.reading = FALSE] \in Record
        /\ SameDeletion(rec[id], [rec[id] EXCEPT !.reading = FALSE])
    BY <1>0, SetReading, KeepDeletion
  <2> QED BY <1>7, <1>14, <1>15, <2>1, <2>2
<1>16. ASSUME NEW id \in Ids, FinishComplete(id)
       PROVE  LifeInv'
  <2>1. creation[id] = "done"
    BY <1>14, <1>16
  <2>2. Served(rec[id]) \in Record /\ SameDeletion(rec[id], Served(rec[id]))
    BY <1>0, ServedType, KeepDeletion
  <2>3. UNCHANGED <<creation, sweeping, queue, appending>>
    BY <1>16 DEF FinishComplete, locks
  <2>4. CASE Exhausted(Served(rec[id]))
    <3>1. Destroy(id, Served(rec[id])) /\ UNCHANGED saves
      BY <1>16, <2>4 DEF FinishComplete
    <3> QED BY <1>11, <2>1, <2>2, <2>3, <3>1 DEF SameDeletion
  <2>5. CASE ~Exhausted(Served(rec[id]))
    <3>1. /\ rec' = [rec EXCEPT ![id] = Served(rec[id])]
          /\ saves' = saves \cup {Save(id, "read", Served(rec[id]))}
          /\ UNCHANGED <<byId, removing>>
      BY <1>16, <2>5 DEF FinishComplete, maps
    <3> QED BY <1>7, <2>1, <2>2, <2>3, <3>1
  <2> QED BY <2>4, <2>5
<1>17. ASSUME \/ \E id \in Ids : OpenBlob(id) \/ SweepSkips(id) \/ GrowOlder(id)
              \/ SweepStart \/ (\E code \in LiveCodes : LiveCode(code))
              \/ UNCHANGED vars
       PROVE  LifeInv'
  <2>1. UNCHANGED <<rec, byId, creation, queue, appending, removing, saves>>
    BY <1>17 DEF OpenBlob, SweepSkips, GrowOlder, SweepStart, LiveCode, vars,
                 maps, locks, others
  <2>2. sweeping' \subseteq sweeping \cup byId
    <3>1. \/ sweeping' = sweeping
          \/ sweeping' = sweeping \cup byId
          \/ \E id \in Ids : sweeping' = sweeping \ {id}
      BY <1>17 DEF OpenBlob, SweepSkips, GrowOlder, SweepStart, LiveCode, vars, others
    <3>2. sweeping \subseteq Ids
      BY <1>0 DEF TypeOK
    <3> QED BY <3>1, <3>2
  <2>3. \A i \in Ids : LifeOf(i)'
    BY <1>0, <2>1, <2>2 DEF LifeOf
  <2> QED BY <1>0, <2>1, <2>3 DEF LifeInv, SavesInv
<1> QED BY <1>1, <1>2, <1>3, <1>4, <1>5, <1>6, <1>8, <1>9, <1>10, <1>12, <1>13, <1>15, <1>16,
           <1>17, Steps

----------------------------------------------------------------------------
(* Codes *)

\* An upload being created holds its code in the registry and nowhere else.
Creating(id) == creation[id] \in {"blob", "meta"}

CodesInv ==
    /\ CodesConsistent
    /\ \A id \in Ids : Creating(id) => rec[id].code \in Codes /\ registry[rec[id].code] = id
    /\ \A id \in byId : rec[id].code \in Codes

SameCode(r, s) == s.code = r.code /\ s.deleted = r.deleted

LEMMA KeepCode ==
    ASSUME NEW r \in Record, NEW part \in Nat, NEW b \in BOOLEAN
    PROVE  /\ SameCode(r, Grown(r, part))
           /\ SameCode(r, Published(r))
           /\ SameCode(r, Served(r))
           /\ SameCode(r, [r EXCEPT !.reading = b])
BY DEF SameCode, Grown, Published, Served, Record

LEMMA CodesFrame ==
    ASSUME CodesInv, byId \subseteq Ids, byCode \in [Codes -> Ids \cup {None}],
           \A i \in Ids : SameCode(rec[i], rec'[i]),
           \A i \in Ids : Creating(i)' <=> Creating(i),
           UNCHANGED <<byId, byCode, registry>>
    PROVE  CodesInv'
<1>1. byId' \subseteq Ids /\ \A c \in Codes : byCode[c] \in Ids \cup {None}
  OBVIOUS
<1>2. \A c \in Codes : byCode'[c] # None =>
          /\ byCode'[c] \in byId'
          /\ rec'[byCode'[c]].code = c
          /\ registry'[c] = byCode'[c]
  BY <1>1 DEF CodesInv, CodesConsistent, SameCode
<1>3. \A id \in byId' : ~rec'[id].deleted /\ byCode'[rec'[id].code] = id
  BY <1>1 DEF CodesInv, CodesConsistent, SameCode
<1>4. \A c \in Codes : registry'[c] \in Ids =>
          \/ byCode'[c] = registry'[c]
          \/ creation'[registry'[c]] \in {"blob", "meta"} /\ rec'[registry'[c]].code = c
  BY DEF CodesInv, CodesConsistent, SameCode, Creating
<1>5. \A id \in Ids : Creating(id)' => rec'[id].code \in Codes /\ registry'[rec'[id].code] = id
  BY DEF CodesInv, SameCode
<1>6. \A id \in byId' : rec'[id].code \in Codes
  BY <1>1 DEF CodesInv, SameCode
<1> QED BY <1>2, <1>3, <1>4, <1>5, <1>6 DEF CodesInv, CodesConsistent

LEMMA DestroyCodes ==
    ASSUME TypeOK, LifeInv, CodesInv, NEW id \in Ids, NEW r \in Record, SameCode(rec[id], r),
           creation[id] = "done", Destroy(id, r), creation' = creation
    PROVE  CodesInv'
<1>1. /\ LifeOf(id)
      /\ rec \in [Ids -> Record] /\ byId \subseteq Ids
      /\ byCode \in [Codes -> Ids \cup {None}]
      /\ registry \in [Codes -> Ids \cup {None, Live}]
  BY DEF LifeInv, TypeOK
<1>2. CASE r.deleted
  <2>1. rec' = [rec EXCEPT ![id] = r] /\ UNCHANGED <<byId, byCode, registry>>
    BY <1>2 DEF Destroy, Destroyed, maps
  <2>2. \A i \in Ids : SameCode(rec[i], rec'[i])
    BY <1>1, <2>1 DEF SameCode
  <2> QED BY <1>1, <2>1, <2>2, CodesFrame DEF Creating
<1>3. CASE ~r.deleted
  <2> DEFINE c == r.code
  <2>1. id \in byId /\ c = rec[id].code /\ c \in Codes /\ byCode[c] = id /\ registry[c] = id
    BY <1>1, <1>3, ConstAssumption DEF LifeOf, SameCode, CodesInv, CodesConsistent
  <2>2. /\ rec' = [rec EXCEPT ![id] = Ended(r)]
        /\ byId' = byId \ {id}
        /\ byCode' = [byCode EXCEPT ![c] = None]
        /\ registry' = [registry EXCEPT ![c] = None]
    BY <1>3, <2>1 DEF Destroy, Destroyed, ReleaseCode
  <2>3. /\ \A i \in Ids \ {id} : rec'[i] = rec[i]
        /\ byCode'[c] = None /\ registry'[c] = None
        /\ \A d \in Codes \ {c} : byCode'[d] = byCode[d] /\ registry'[d] = registry[d]
    BY <1>1, <2>1, <2>2
  <2>4. \A d \in Codes \ {c} : byCode[d] # id
    BY <2>1, ConstAssumption DEF CodesInv, CodesConsistent
  <2>5. \A d \in Codes : byCode'[d] # None =>
            /\ byCode'[d] \in byId'
            /\ rec'[byCode'[d]].code = d
            /\ registry'[d] = byCode'[d]
    BY <1>1, <2>1, <2>2, <2>3, <2>4 DEF CodesInv, CodesConsistent
  <2>6. \A i \in byId' : /\ ~rec'[i].deleted /\ rec'[i].code \in Codes
                         /\ byCode'[rec'[i].code] = i
    <3>1. \A i \in byId' : i \in byId /\ i \in Ids \ {id} /\ rec[i].code # c
      BY <1>1, <2>1, <2>2 DEF CodesInv, CodesConsistent
    <3> QED BY <2>3, <3>1 DEF CodesInv, CodesConsistent
  <2>7. \A d \in Codes : registry'[d] \in Ids =>
            \/ byCode'[d] = registry'[d]
            \/ creation'[registry'[d]] \in {"blob", "meta"} /\ rec'[registry'[d]].code = d
    BY <1>1, <2>1, <2>2, <2>3, ConstAssumption DEF CodesInv, CodesConsistent
  <2>8. \A i \in Ids : Creating(i)' => rec'[i].code \in Codes /\ registry'[rec'[i].code] = i
    <3>1. \A i \in Ids : Creating(i)' => Creating(i) /\ i # id
      BY DEF Creating
    <3>2. \A i \in Ids : Creating(i) /\ i # id => rec[i].code # c
      BY <2>1 DEF CodesInv
    <3> QED BY <2>3, <3>1, <3>2 DEF CodesInv
  <2> QED BY <2>5, <2>6, <2>7, <2>8 DEF CodesInv, CodesConsistent
<1> QED BY <1>2, <1>3

LEMMA CodesInit == Init => CodesInv
BY ConstAssumption DEF Init, CodesInv, CodesConsistent, Creating

LEMMA CodesStep == TypeInv /\ ReaderInv /\ LifeInv /\ CodesInv /\ [Next]_vars => CodesInv'
<1> SUFFICES ASSUME TypeInv, ReaderInv, LifeInv, CodesInv, [Next]_vars
             PROVE  CodesInv'
  OBVIOUS
<1>0. /\ TypeOK
      /\ \A i \in Ids : LifeOf(i) /\ rec[i] \in Record
      /\ SavesInv /\ CodesConsistent
      /\ byId \subseteq Ids
      /\ byCode \in [Codes -> Ids \cup {None}]
      /\ registry \in [Codes -> Ids \cup {None, Live}]
      /\ None \notin Ids
  BY ConstAssumption DEF TypeInv, TypeOK, LifeInv, CodesInv
<1>1. ASSUME NEW id \in Ids, NEW ip \in Ips, NEW code \in Codes, NEW n \in 1..MaxReadsLimit,
             CreateUpload(id, ip, code, n)
      PROVE  CodesInv'
  <2>1. /\ creation[id] = "none" /\ registry[code] = None
        /\ rec' = [rec EXCEPT ![id] = [Blank EXCEPT !.code = code, !.owner = ip, !.maxReads = n]]
        /\ creation' = [creation EXCEPT ![id] = "blob"]
        /\ registry' = [registry EXCEPT ![code] = id]
        /\ UNCHANGED <<byId, byCode>>
    BY <1>1 DEF CreateUpload
  <2>2. /\ rec'[id].code = code /\ creation'[id] = "blob" /\ registry'[code] = id
        /\ \A i \in Ids \ {id} : rec'[i] = rec[i] /\ creation'[i] = creation[i]
        /\ \A d \in Codes \ {code} : registry'[d] = registry[d]
    BY <1>0, <2>1 DEF TypeOK, Blank
  <2>3. id \notin byId /\ byCode[code] = None /\ \A d \in Codes : byCode[d] # id
    BY <1>0, <2>1 DEF LifeOf, CodesConsistent
  <2>4. \A d \in Codes : byCode'[d] # None =>
            /\ byCode'[d] \in byId'
            /\ rec'[byCode'[d]].code = d
            /\ registry'[d] = byCode'[d]
    BY <1>0, <2>1, <2>2, <2>3 DEF CodesConsistent
  <2>5. \A i \in byId' : /\ ~rec'[i].deleted /\ rec'[i].code \in Codes
                         /\ byCode'[rec'[i].code] = i
    BY <1>0, <2>1, <2>2, <2>3 DEF CodesInv, CodesConsistent
  <2>6. \A d \in Codes : registry'[d] \in Ids =>
            \/ byCode'[d] = registry'[d]
            \/ creation'[registry'[d]] \in {"blob", "meta"} /\ rec'[registry'[d]].code = d
    BY <1>0, <2>1, <2>2 DEF CodesConsistent
  <2>7. \A i \in Ids : Creating(i)' => rec'[i].code \in Codes /\ registry'[rec'[i].code] = i
    BY <1>0, <2>1, <2>2 DEF Creating, CodesInv
  <2> QED BY <2>4, <2>5, <2>6, <2>7 DEF CodesInv, CodesConsistent
<1>2. ASSUME NEW id \in Ids, CreateBlob(id)
      PROVE  CodesInv'
  <2>1. /\ creation[id] = "blob"
        /\ creation' = [creation EXCEPT ![id] = "meta"]
        /\ UNCHANGED <<rec, byId, byCode, registry>>
    BY <1>2 DEF CreateBlob, maps
  <2>2. \A i \in Ids : Creating(i)' <=> Creating(i)
    BY <1>0, <2>1 DEF Creating, TypeOK
  <2> QED BY <1>0, <2>1, <2>2, CodesFrame DEF SameCode
<1>3. ASSUME NEW id \in Ids, Creating(id),
             creation' = [creation EXCEPT ![id] = "failed"],
             registry' = [registry EXCEPT ![rec[id].code] = None],
             UNCHANGED <<rec, byId, byCode>>
      PROVE  CodesInv'
  <2>1. rec[id].code \in Codes /\ registry[rec[id].code] = id
    BY <1>3 DEF CodesInv
  <2>2. /\ registry'[rec[id].code] = None
        /\ \A d \in Codes \ {rec[id].code} : registry'[d] = registry[d]
        /\ creation'[id] = "failed" /\ \A i \in Ids \ {id} : creation'[i] = creation[i]
    BY <1>0, <1>3, <2>1 DEF TypeOK
  <2>3. id \notin byId /\ \A d \in Codes : byCode[d] # id
    BY <1>0, <1>3 DEF Creating, LifeOf, CodesConsistent
  <2>4. \A d \in Codes : byCode'[d] # None =>
            /\ byCode'[d] \in byId'
            /\ rec'[byCode'[d]].code = d
            /\ registry'[d] = byCode'[d]
    BY <1>0, <1>3, <2>1, <2>2, <2>3 DEF CodesConsistent
  <2>5. \A i \in byId' : /\ ~rec'[i].deleted /\ rec'[i].code \in Codes
                         /\ byCode'[rec'[i].code] = i
    BY <1>3 DEF CodesInv, CodesConsistent
  <2>6. \A d \in Codes : registry'[d] \in Ids =>
            \/ byCode'[d] = registry'[d]
            \/ creation'[registry'[d]] \in {"blob", "meta"} /\ rec'[registry'[d]].code = d
    BY <1>0, <1>3, <2>1, <2>2 DEF CodesConsistent
  <2>7. \A i \in Ids : Creating(i)' => rec'[i].code \in Codes /\ registry'[rec'[i].code] = i
    BY <1>0, <1>3, <2>1, <2>2 DEF Creating, CodesInv
  <2> QED BY <2>4, <2>5, <2>6, <2>7 DEF CodesInv, CodesConsistent
<1>4. ASSUME NEW id \in Ids, CreateBlobFails(id)
      PROVE  CodesInv'
  BY <1>3, <1>4 DEF CreateBlobFails, Creating
<1>5. ASSUME NEW s \in saves, SaveLands(s) \/ SaveFails(s)
      PROVE  CodesInv'
  <2>0. s.id \in Ids
    BY <1>0 DEF TypeOK, SaveCall
  <2>1. CASE CreateFailed(s)
    <3>1. Creating(s.id)
      BY <1>0, <2>1 DEF CreateFailed, SavesInv, Creating
    <3> QED BY <1>3, <2>0, <2>1, <3>1 DEF CreateFailed
  <2>2. CASE CreateDone(s)
    <3> DEFINE id == s.id
               code == rec[id].code
    <3>1. /\ byId' = byId \cup {id}
          /\ byCode' = [byCode EXCEPT ![code] = id]
          /\ creation' = [creation EXCEPT ![id] = "done"]
          /\ UNCHANGED <<rec, registry>>
      BY <2>2 DEF CreateDone
    <3>2. creation[id] = "meta" /\ code \in Codes /\ registry[code] = id /\ ~rec[id].deleted
      BY <1>0, <2>0, <2>2 DEF CreateDone, SavesInv, CodesInv, Creating, LifeOf
    <3>3. /\ byCode'[code] = id
          /\ \A d \in Codes \ {code} : byCode'[d] = byCode[d]
          /\ creation'[id] = "done" /\ \A i \in Ids \ {id} : creation'[i] = creation[i]
      BY <1>0, <2>0, <3>1, <3>2 DEF TypeOK
    <3>4. \A d \in Codes : byCode'[d] # None =>
              /\ byCode'[d] \in byId'
              /\ rec'[byCode'[d]].code = d
              /\ registry'[d] = byCode'[d]
      BY <1>0, <2>0, <3>1, <3>2, <3>3 DEF CodesConsistent
    <3>5. \A i \in byId' : /\ ~rec'[i].deleted /\ rec'[i].code \in Codes
                           /\ byCode'[rec'[i].code] = i
      <4>1. \A i \in byId : rec[i].code \in Codes /\ byCode[rec[i].code] = i
                            /\ registry[rec[i].code] = i /\ ~rec[i].deleted
        BY <1>0 DEF CodesInv, CodesConsistent
      <4> QED BY <2>0, <3>1, <3>2, <3>3, <4>1
    <3>6. \A d \in Codes : registry'[d] \in Ids =>
              \/ byCode'[d] = registry'[d]
              \/ creation'[registry'[d]] \in {"blob", "meta"} /\ rec'[registry'[d]].code = d
      BY <1>0, <2>0, <3>1, <3>2, <3>3 DEF CodesConsistent
    <3>7. \A i \in Ids : Creating(i)' => rec'[i].code \in Codes /\ registry'[rec'[i].code] = i
      BY <2>0, <3>1, <3>3 DEF Creating, CodesInv
    <3> QED BY <3>4, <3>5, <3>6, <3>7 DEF CodesInv, CodesConsistent
  <2>3. CASE AppendSettled(s) \/ OtherSettled(s)
    <3>1. UNCHANGED <<rec, byId, byCode, registry, creation>>
      BY <2>3 DEF AppendSettled, OtherSettled, maps
    <3> QED BY <1>0, <3>1, CodesFrame DEF SameCode, Creating
  <2> QED BY <1>5, <2>1, <2>2, <2>3 DEF SaveLands, SaveFails
<1>6. ASSUME \/ \E id \in Ids :
                    \/ CommitUpload(id) \/ \E index \in 0..MaxFile : AppendPart(id, index)
                    \/ AppendRefused(id) \/ AppendThrows(id) \/ AppendStarts(id)
                    \/ AppendWriteFails(id) \/ Remove(id) \/ RemoveFails(id)
                    \/ OpenBlob(id) \/ SweepSkips(id) \/ GrowOlder(id)
             \/ SweepStart \/ UNCHANGED vars
      PROVE  CodesInv'
  <2>1. UNCHANGED <<rec, byId, byCode, registry, creation>>
    BY <1>6 DEF CommitUpload, AppendPart, AppendRefused, AppendThrows, AppendStarts,
                AppendWriteFails, Remove, RemoveFails, OpenBlob, SweepSkips, GrowOlder,
                SweepStart, vars, maps
  <2> QED BY <1>0, <2>1, CodesFrame DEF SameCode, Creating
<1>7. ASSUME NEW id \in Ids, NEW r \in Record, SameCode(rec[id], r),
             rec' = [rec EXCEPT ![id] = r],
             UNCHANGED <<byId, byCode, registry, creation>>
      PROVE  CodesInv'
  <2>1. \A i \in Ids : SameCode(rec[i], rec'[i])
    BY <1>0, <1>7 DEF SameCode, TypeOK
  <2> QED BY <1>0, <1>7, <2>1, CodesFrame DEF Creating
<1>8. ASSUME NEW id \in Ids, AppendWrites(id)
      PROVE  CodesInv'
  <2>1. PICK part \in Nat : part = Head(queue[id]).index
    <3>1. queue[id] # <<>> /\ queue[id] \in Seq(Call)
      BY <1>8 DEF AppendWrites, TypeInv, LockOK, TypeOK
    <3>2. Head(queue[id]) \in Call
      BY <3>1
    <3> QED BY <3>2 DEF Call
  <2>2. /\ rec' = [rec EXCEPT ![id] = Grown(rec[id], part)]
        /\ UNCHANGED <<byId, byCode, registry, creation>>
    BY <1>8, <2>1 DEF AppendWrites
  <2>3. Grown(rec[id], part) \in Record /\ SameCode(rec[id], Grown(rec[id], part))
    BY <1>0, GrownType, KeepCode
  <2> QED BY <1>7, <2>2, <2>3
<1>9. ASSUME NEW id \in Ids, CommitRuns(id)
      PROVE  CodesInv'
  <2>1. UNCHANGED <<byId, byCode, registry, creation>>
    BY <1>9 DEF CommitRuns, maps
  <2>2. CASE rec' = rec
    BY <1>0, <2>1, <2>2, CodesFrame DEF SameCode, Creating
  <2>3. CASE rec' = [rec EXCEPT ![id] = Published(rec[id])]
    BY <1>0, <1>7, <2>1, <2>3, PublishedType, KeepCode
  <2> QED BY <1>9, <2>2, <2>3 DEF CommitRuns
<1>10. ASSUME NEW id \in Ids, Revoke(id) \/ AppendDestroys(id) \/ SweepDestroys(id)
       PROVE  CodesInv'
  <2>1. creation[id] = "done" /\ Destroy(id, rec[id]) /\ creation' = creation
    BY <1>0, <1>10 DEF Revoke, AppendDestroys, SweepDestroys, Turn, LifeOf
  <2> QED BY <1>0, <2>1, DestroyCodes DEF SameCode
<1>11. ASSUME NEW code \in Codes, BeginRead(code)
       PROVE  CodesInv'
  <2>1. PICK id \in Ids : id = byCode[code]
    BY <1>0, <1>11 DEF BeginRead
  <2>2. /\ rec' = [rec EXCEPT ![id] = [rec[id] EXCEPT !.reading = TRUE]]
        /\ UNCHANGED <<byId, byCode, registry, creation>>
    BY <1>11, <2>1 DEF BeginRead, maps
  <2> QED BY <1>0, <1>7, <2>2, SetReading, KeepCode
<1>12. ASSUME NEW id \in Ids, FinishShort(id)
       PROVE  CodesInv'
  <2>1. /\ rec' = [rec EXCEPT ![id] = [rec[id] EXCEPT !.reading = FALSE]]
        /\ UNCHANGED <<byId, byCode, registry, creation>>
    BY <1>12 DEF FinishShort, maps
  <2> QED BY <1>0, <1>7, <2>1, SetReading, KeepCode
<1>13. ASSUME NEW id \in Ids, FinishComplete(id)
       PROVE  CodesInv'
  <2>1. creation[id] = "done"
    <3>1. streams[id].whole > 0 /\ streams[id] \in [opening : Nat, whole : Nat]
      BY <1>0, <1>13 DEF FinishComplete, TypeOK
    <3>2. rec[id].reading
      BY <3>1 DEF ReaderInv, ReaderOf
    <3> QED BY <1>0, <3>2 DEF LifeOf
  <2>2. Served(rec[id]) \in Record /\ SameCode(rec[id], Served(rec[id]))
    BY <1>0, ServedType, KeepCode
  <2>3. creation' = creation
    BY <1>13 DEF FinishComplete
  <2>4. CASE Destroy(id, Served(rec[id]))
    BY <1>0, <2>1, <2>2, <2>3, <2>4, DestroyCodes
  <2>5. CASE rec' = [rec EXCEPT ![id] = Served(rec[id])] /\ UNCHANGED maps
    BY <1>7, <2>2, <2>3, <2>5 DEF maps
  <2> QED BY <1>13, <2>4, <2>5 DEF FinishComplete
<1>14. ASSUME NEW code \in LiveCodes, LiveCode(code)
       PROVE  CodesInv'
  <2>0. code \in Codes /\ Live \notin Ids \cup {None}
    BY <1>14, ConstAssumption
  <2>1. /\ \/ registry[code] = None /\ registry' = [registry EXCEPT ![code] = Live]
           \/ registry[code] = Live /\ registry' = [registry EXCEPT ![code] = None]
        /\ UNCHANGED <<rec, byId, byCode, creation>>
    BY <1>14 DEF LiveCode
  <2>2. /\ registry[code] \notin Ids /\ registry'[code] \notin Ids
        /\ \A d \in Codes \ {code} : registry'[d] = registry[d]
    BY <1>0, <2>0, <2>1
  <2>3. byCode[code] = None
    BY <1>0, <2>0, <2>2 DEF CodesConsistent
  <2>4. CodesConsistent'
    BY <1>0, <2>1, <2>2, <2>3 DEF CodesConsistent
  <2>5. \A i \in Ids : Creating(i)' => rec'[i].code \in Codes /\ registry'[rec'[i].code] = i
    BY <2>1, <2>2 DEF Creating, CodesInv
  <2> QED BY <2>1, <2>4, <2>5 DEF CodesInv
<1> QED BY <1>1, <1>2, <1>4, <1>5, <1>6, <1>8, <1>9, <1>10, <1>11, <1>12, <1>13, <1>14, Steps

\* A code never leads to two transfers, nor to one that is over, however its
\* creation, revocation, expiry and the live rooms that draw from the same codes
\* interleave (byId, byCode and codes.js).
THEOREM CodesAreConsistent == Spec => []CodesConsistent
<1>1. CodesInv => CodesConsistent
  BY DEF CodesInv
<1> QED BY <1>1, TypeInit, TypeStep, ReaderInit, ReaderStep, LifeInit, LifeStep, CodesInit,
           CodesStep, PTL DEF Spec

----------------------------------------------------------------------------
(* The bytes of an upload *)

\* A part being written is the next one of a record nobody has committed; the
\* blob of a new record is empty; and that of a live one is its parts.
UploadOf(id) ==
    /\ appending[id] = "write" =>
           ~rec[id].committed /\ Head(queue[id]).index = rec[id].nextIndex
    /\ creation[id] = "meta" => blob[id] = <<>>
    /\ "append" \notin Faults /\ id \in byId =>
           blob[id] = Parts(rec[id].nextIndex) /\ rec[id].size = rec[id].nextIndex

UploadInv == \A id \in Ids : UploadOf(id)

\* The fields a part or a commit moves.
SameParts(r, s) == /\ s.size = r.size /\ s.nextIndex = r.nextIndex
                   /\ s.committed = r.committed

LEMMA KeepParts ==
    ASSUME NEW r \in Record, NEW b \in BOOLEAN
    PROVE  /\ SameParts(r, Ended(r))
           /\ SameParts(r, Served(r))
           /\ SameParts(r, [r EXCEPT !.reading = b])
BY DEF SameParts, Ended, Served, Record

LEMMA NextPart ==
    ASSUME NEW n \in Nat
    PROVE  Append(Parts(n), n) = Parts(n + 1)
BY DEF Parts

LEMMA PartsIsSeq ==
    ASSUME NEW n \in Nat
    PROVE  Parts(n) \in Seq(Nat)
BY DEF Parts

LEMMA UploadFrame ==
    ASSUME NEW id \in Ids, UploadOf(id), SameParts(rec[id], rec'[id]),
           appending'[id] = "write" => /\ appending[id] = "write"
                                       /\ Head(queue'[id]) = Head(queue[id]),
           creation'[id] = "meta" => creation[id] = "meta",
           id \in byId' => id \in byId,
           (creation[id] = "meta" \/ id \in byId') => blob'[id] = blob[id]
    PROVE  UploadOf(id)'
BY DEF UploadOf, SameParts

\* Another call joins a queue behind its head.
LEMMA HeadStays ==
    ASSUME NEW q \in Seq(Call), q # <<>>, NEW e \in Call
    PROVE  Head(Append(q, e)) = Head(q)
OBVIOUS

LEMMA DestroyUpload ==
    ASSUME TypeOK, LifeInv, UploadInv, NEW id \in Ids, NEW r \in Record, SameParts(rec[id], r),
           Destroy(id, r), UNCHANGED <<creation, blob, queue>>,
           \A i \in Ids : appending'[i] = "write" => appending[i] = "write"
    PROVE  UploadInv'
<1>1. SameParts(r, r) /\ SameParts(r, Ended(r))
  BY KeepParts DEF SameParts
<1>2. rec' = [rec EXCEPT ![id] = r] \/ rec' = [rec EXCEPT ![id] = Ended(r)]
  BY DEF Destroy
<1>3. \A i \in Ids : SameParts(rec[i], rec'[i])
  BY <1>1, <1>2 DEF SameParts, TypeOK
<1>4. \A i \in Ids : i \in byId' => i \in byId
  BY DEF Destroy, maps
<1> QED BY <1>3, <1>4, UploadFrame DEF UploadInv

LEMMA UploadInit == Init => UploadInv
BY DEF Init, UploadInv, UploadOf

LEMMA UploadStep == TypeInv /\ LifeInv /\ UploadInv /\ [Next]_vars => UploadInv'
<1> SUFFICES ASSUME TypeInv, LifeInv, UploadInv, [Next]_vars
             PROVE  UploadInv'
  OBVIOUS
<1>0. /\ TypeOK /\ LockOK
      /\ \A i \in Ids : LifeOf(i) /\ UploadOf(i) /\ rec[i] \in Record
      /\ SavesInv
  BY DEF TypeInv, TypeOK, LifeInv, UploadInv
<1>1. ASSUME NEW id \in Ids, NEW ip \in Ips, NEW code \in Codes, NEW n \in 1..MaxReadsLimit,
             CreateUpload(id, ip, code, n)
      PROVE  UploadInv'
  <2>1. /\ creation[id] = "none"
        /\ rec' = [rec EXCEPT ![id] = [Blank EXCEPT !.code = code, !.owner = ip, !.maxReads = n]]
        /\ creation' = [creation EXCEPT ![id] = "blob"]
        /\ UNCHANGED <<byId, blob, queue, appending>>
    BY <1>1 DEF CreateUpload, disk, locks
  <2>2. creation'[id] = "blob" /\ id \notin byId /\ appending[id] = "idle"
    BY <1>0, <2>1 DEF TypeOK, LifeOf
  <2>3. UploadOf(id)'
    BY <2>1, <2>2 DEF UploadOf
  <2>4. \A i \in Ids \ {id} : rec'[i] = rec[i] /\ creation'[i] = creation[i]
    BY <1>0, <2>1 DEF TypeOK
  <2>5. \A i \in Ids \ {id} : UploadOf(i)'
    BY <1>0, <2>1, <2>4 DEF UploadOf
  <2> QED BY <2>3, <2>5 DEF UploadInv
<1>2. ASSUME NEW id \in Ids, CreateBlob(id) \/ CreateBlobFails(id)
      PROVE  UploadInv'
  <2>1. /\ creation[id] = "blob"
        /\ \/ creation' = [creation EXCEPT ![id] = "meta"] /\ blob' = [blob EXCEPT ![id] = <<>>]
           \/ creation' = [creation EXCEPT ![id] = "failed"]
        /\ blob' = [blob EXCEPT ![id] = <<>>] \/ blob' = blob
        /\ UNCHANGED <<rec, byId, queue, appending>>
    BY <1>2 DEF CreateBlob, CreateBlobFails, maps, locks
  <2>2. id \notin byId /\ appending[id] = "idle"
    BY <1>0, <2>1 DEF LifeOf
  <2>3. /\ creation'[id] = "meta" => blob'[id] = <<>>
        /\ \A i \in Ids \ {id} : creation'[i] = creation[i] /\ blob'[i] = blob[i]
    BY <1>0, <2>1 DEF TypeOK
  <2>4. UploadOf(id)'
    BY <2>1, <2>2, <2>3 DEF UploadOf
  <2>5. \A i \in Ids \ {id} : UploadOf(i)'
    BY <1>0, <2>1, <2>3 DEF UploadOf
  <2> QED BY <2>4, <2>5 DEF UploadInv
<1>3. ASSUME NEW s \in saves, SaveLands(s) \/ SaveFails(s)
      PROVE  UploadInv'
  <2>0. s.id \in Ids
    BY <1>0 DEF TypeOK, SaveCall
  <2>1. UNCHANGED <<rec, blob>>
    BY <1>3 DEF SaveLands, SaveFails, CreateDone, CreateFailed, AppendSettled, OtherSettled, disk
  <2>2. CASE CreateDone(s) \/ CreateFailed(s)
    <3>1. /\ byId' \subseteq byId \cup {s.id}
          /\ \/ creation' = [creation EXCEPT ![s.id] = "done"]
             \/ creation' = [creation EXCEPT ![s.id] = "failed"]
          /\ UNCHANGED <<queue, appending>>
          /\ creation[s.id] = "meta"
      BY <1>0, <2>2 DEF CreateDone, CreateFailed, locks, SavesInv
    <3>2. /\ creation'[s.id] # "meta"
          /\ \A i \in Ids \ {s.id} : creation'[i] = creation[i] /\ (i \in byId' => i \in byId)
      BY <1>0, <2>0, <3>1 DEF TypeOK
    <3>3. /\ blob[s.id] = <<>> /\ rec[s.id].nextIndex = 0 /\ rec[s.id].size = 0
          /\ appending[s.id] = "idle"
      BY <1>0, <2>0, <3>1 DEF UploadOf, LifeOf
    <3>4. Parts(0) = <<>>
      BY DEF Parts
    <3>5. UploadOf(s.id)'
      BY <2>1, <3>1, <3>2, <3>3, <3>4 DEF UploadOf
    <3>6. \A i \in Ids \ {s.id} : UploadOf(i)'
      BY <1>0, <2>1, <3>1, <3>2 DEF UploadOf
    <3> QED BY <3>5, <3>6 DEF UploadInv
  <2>3. CASE AppendSettled(s) \/ OtherSettled(s)
    <3>1. UNCHANGED <<byId, creation>>
      BY <2>3 DEF AppendSettled, OtherSettled, maps
    <3>2. \A i \in Ids : appending'[i] = "write" => appending[i] = "write" /\ queue'[i] = queue[i]
      BY <1>0, <2>0, <2>3 DEF AppendSettled, OtherSettled, locks, TypeOK
    <3> QED BY <1>0, <2>1, <3>1, <3>2 DEF UploadInv, UploadOf
  <2> QED BY <1>3, <2>2, <2>3 DEF SaveLands, SaveFails
<1>4. ASSUME NEW id \in Ids, NEW e \in Call, queue' = [queue EXCEPT ![id] = Append(@, e)],
             UNCHANGED <<rec, byId, blob, creation, appending>>
      PROVE  UploadInv'
  <2>1. queue[id] \in Seq(Call) /\ (appending[id] = "write" => queue[id] # <<>>)
    BY <1>0 DEF TypeOK, LockOK
  <2>2. /\ appending[id] = "write" => Head(queue'[id]) = Head(queue[id])
        /\ \A i \in Ids \ {id} : queue'[i] = queue[i]
    BY <1>0, <1>4, <2>1, HeadStays DEF TypeOK
  <2> QED BY <1>0, <1>4, <2>2 DEF UploadInv, UploadOf
<1>5. ASSUME NEW id \in Ids, CommitUpload(id) \/ \E index \in 0..MaxFile : AppendPart(id, index)
      PROVE  UploadInv'
  <2>1. UNCHANGED <<rec, byId, blob, creation, appending>>
    BY <1>5 DEF CommitUpload, AppendPart, maps, disk
  <2>2. PICK e \in Call : queue' = [queue EXCEPT ![id] = Append(@, e)]
    <3>1. \A index \in 0..MaxFile : [op |-> "part", index |-> index] \in Call
      BY ConstAssumption DEF Call
    <3>2. [op |-> "commit", index |-> 0] \in Call
      BY DEF Call
    <3> QED BY <1>5, <3>1, <3>2 DEF CommitUpload, AppendPart
  <2> QED BY <1>4, <2>1, <2>2
<1>6. ASSUME NEW id \in Ids, AppendRefused(id) \/ AppendThrows(id)
      PROVE  UploadInv'
  <2>1. UNCHANGED <<rec, byId, blob, creation>>
    BY <1>6 DEF AppendRefused, AppendThrows, maps, disk
  <2>2. \A i \in Ids : appending'[i] = "write" => appending[i] = "write" /\ queue'[i] = queue[i]
    BY <1>0, <1>6 DEF AppendRefused, AppendThrows, Turn, TypeOK
  <2> QED BY <1>0, <2>1, <2>2 DEF UploadInv, UploadOf
<1>7. ASSUME NEW id \in Ids, AppendStarts(id)
      PROVE  UploadInv'
  <2>1. /\ UNCHANGED <<rec, byId, blob, creation, queue>>
        /\ ~rec[id].committed /\ Head(queue[id]).index = rec[id].nextIndex
        /\ appending' = [appending EXCEPT ![id] = "write"]
    BY <1>7 DEF AppendStarts, Refused, maps, disk
  <2>2. \A i \in Ids \ {id} : appending'[i] = appending[i]
    BY <1>0, <2>1 DEF TypeOK
  <2> QED BY <1>0, <2>1, <2>2 DEF UploadInv, UploadOf
<1>8. ASSUME NEW id \in Ids, AppendWrites(id)
      PROVE  UploadInv'
  <2>1. appending[id] = "write" /\ queue[id] # <<>> /\ queue[id] \in Seq(Call)
    BY <1>0, <1>8 DEF AppendWrites, LockOK, TypeOK
  <2>2. PICK part \in Nat : part = Head(queue[id]).index
    <3>1. Head(queue[id]) \in Call
      BY <2>1
    <3> QED BY <3>1 DEF Call
  <2>3. /\ rec' = [rec EXCEPT ![id] = Grown(rec[id], part)]
        /\ blob' = [blob EXCEPT ![id] = Appended(id, part)]
        /\ appending' = [appending EXCEPT ![id] = "save"]
        /\ UNCHANGED <<byId, creation, queue>>
    BY <1>8, <2>2 DEF AppendWrites, others
  <2>4. /\ part = rec[id].nextIndex
        /\ creation[id] = "done"
    BY <1>0, <2>1, <2>2 DEF UploadOf, LifeOf
  <2>5. /\ Grown(rec[id], part).size = rec[id].size + 1
        /\ Grown(rec[id], part).nextIndex = part + 1
    BY <1>0 DEF Grown, Record
  <2>6. /\ rec'[id] = Grown(rec[id], part) /\ blob'[id] = Appended(id, part)
        /\ appending'[id] = "save"
        /\ \A i \in Ids \ {id} : rec'[i] = rec[i] /\ blob'[i] = blob[i]
                                 /\ appending'[i] = appending[i]
    BY <1>0, <2>3 DEF TypeOK
  <2>7. ASSUME "append" \notin Faults, id \in byId'
        PROVE  blob'[id] = Parts(rec'[id].nextIndex) /\ rec'[id].size = rec'[id].nextIndex
    <3>1. blob[id] = Parts(part) /\ rec[id].size = part
      BY <1>0, <2>3, <2>4, <2>7 DEF UploadOf
    <3>2. blob[id] # None
      BY <2>2, <3>1, ConstAssumption, PartsIsSeq
    <3>3. Appended(id, part) = Parts(part + 1)
      BY <3>1, <3>2, NextPart DEF Appended
    <3> QED BY <2>5, <2>6, <3>1, <3>3
  <2>8. UploadOf(id)'
    BY <2>3, <2>4, <2>6, <2>7 DEF UploadOf
  <2>9. \A i \in Ids \ {id} : UploadOf(i)'
    BY <1>0, <2>3, <2>6 DEF UploadOf
  <2> QED BY <2>8, <2>9 DEF UploadInv
<1>9. ASSUME NEW id \in Ids, AppendWriteFails(id)
      PROVE  UploadInv'
  <2>1. /\ UNCHANGED <<rec, byId, creation>>
        /\ appending[id] = "write"
        /\ appending' = [appending EXCEPT ![id] = "idle"]
        /\ "append" \in Faults
        /\ queue' = [queue EXCEPT ![id] = Tail(@)]
        /\ blob' = [blob EXCEPT ![id] = Appended(id, Torn)] \/ blob' = blob
    BY <1>9 DEF AppendWriteFails, Fails, maps
  <2>2. /\ appending'[id] = "idle"
        /\ \A i \in Ids \ {id} : /\ appending'[i] = appending[i] /\ blob'[i] = blob[i]
                                 /\ queue'[i] = queue[i]
    BY <1>0, <2>1 DEF TypeOK
  <2>3. creation[id] = "done"
    BY <1>0, <2>1 DEF LifeOf
  <2>4. UploadOf(id)'
    BY <2>1, <2>2, <2>3 DEF UploadOf
  <2>5. \A i \in Ids \ {id} : UploadOf(i)'
    BY <1>0, <2>1, <2>2 DEF UploadOf
  <2> QED BY <2>4, <2>5 DEF UploadInv
<1>10. ASSUME NEW id \in Ids, CommitRuns(id)
       PROVE  UploadInv'
  <2>1. /\ UNCHANGED <<byId, blob, creation, appending>>
        /\ appending[id] = "idle"
        /\ rec' = rec \/ rec' = [rec EXCEPT ![id] = Published(rec[id])]
        /\ queue' = [queue EXCEPT ![id] = Tail(@)]
    BY <1>10 DEF CommitRuns, Turn, maps, disk
  <2>2. \A i \in Ids \ {id} : rec'[i] = rec[i] /\ queue'[i] = queue[i]
    BY <1>0, <2>1 DEF TypeOK
  <2>3. rec'[id].size = rec[id].size /\ rec'[id].nextIndex = rec[id].nextIndex
    <3>1. /\ Published(rec[id]).size = rec[id].size
          /\ Published(rec[id]).nextIndex = rec[id].nextIndex
      BY <1>0 DEF Published, Record
    <3>2. rec'[id] = rec[id] \/ rec'[id] = Published(rec[id])
      BY <1>0, <2>1 DEF TypeOK
    <3> QED BY <3>1, <3>2
  <2>4. UploadOf(id)'
    BY <1>0, <2>1, <2>3 DEF UploadOf
  <2>5. \A i \in Ids \ {id} : UploadOf(i)'
    BY <1>0, <2>1, <2>2 DEF UploadOf
  <2> QED BY <2>4, <2>5 DEF UploadInv
<1>11. ASSUME NEW id \in Ids, Remove(id) \/ RemoveFails(id)
       PROVE  UploadInv'
  <2>1. /\ UNCHANGED <<rec, byId, creation, queue, appending>>
        /\ removing[id] # "no"
        /\ blob' = [blob EXCEPT ![id] = None] \/ blob' = blob
    BY <1>11 DEF Remove, RemoveFails, maps, locks, disk
  <2>2. creation[id] = "done" /\ id \notin byId
    BY <1>0, <2>1 DEF LifeOf
  <2>3. \A i \in Ids \ {id} : blob'[i] = blob[i]
    BY <1>0, <2>1 DEF TypeOK
  <2>4. UploadOf(id)'
    BY <1>0, <2>1, <2>2 DEF UploadOf
  <2>5. \A i \in Ids \ {id} : UploadOf(i)'
    BY <1>0, <2>1, <2>3 DEF UploadOf
  <2> QED BY <2>4, <2>5 DEF UploadInv
<1>12. ASSUME NEW id \in Ids, Revoke(id) \/ AppendDestroys(id) \/ SweepDestroys(id)
       PROVE  UploadInv'
  <2>1. Destroy(id, rec[id]) /\ UNCHANGED <<creation, blob, queue>>
    BY <1>12 DEF Revoke, AppendDestroys, SweepDestroys, disk, locks
  <2>2. \A i \in Ids : appending'[i] = "write" => appending[i] = "write"
    BY <1>0, <1>12 DEF Revoke, AppendDestroys, SweepDestroys, locks, TypeOK
  <2> QED BY <1>0, <2>1, <2>2, DestroyUpload DEF SameParts
<1>13. ASSUME NEW id \in Ids, NEW r \in Record, SameParts(rec[id], r),
              rec' = [rec EXCEPT ![id] = r],
              UNCHANGED <<byId, blob, creation, queue, appending>>
       PROVE  UploadInv'
  <2>1. \A i \in Ids : SameParts(rec[i], rec'[i])
    BY <1>0, <1>13 DEF SameParts, TypeOK
  <2> QED BY <1>0, <1>13, <2>1, UploadFrame DEF UploadInv
<1>14. ASSUME NEW code \in Codes, BeginRead(code)
       PROVE  UploadInv'
  <2>1. PICK id \in Ids : id = byCode[code]
    BY <1>0, <1>14 DEF BeginRead, TypeOK
  <2>2. /\ rec' = [rec EXCEPT ![id] = [rec[id] EXCEPT !.reading = TRUE]]
        /\ UNCHANGED <<byId, blob, creation, queue, appending>>
    BY <1>14, <2>1 DEF BeginRead, maps, disk, locks
  <2> QED BY <1>0, <1>13, <2>2, SetReading, KeepParts
<1>15. ASSUME NEW id \in Ids, FinishShort(id)
       PROVE  UploadInv'
  <2>1. /\ rec' = [rec EXCEPT ![id] = [rec[id] EXCEPT !.reading = FALSE]]
        /\ UNCHANGED <<byId, blob, creation, queue, appending>>
    BY <1>15 DEF FinishShort, maps, disk, locks
  <2> QED BY <1>0, <1>13, <2>1, SetReading, KeepParts
<1>16. ASSUME NEW id \in Ids, FinishComplete(id)
       PROVE  UploadInv'
  <2>1. Served(rec[id]) \in Record /\ SameParts(rec[id], Served(rec[id]))
    BY <1>0, ServedType, KeepParts
  <2>2. UNCHANGED <<blob, creation, queue, appending>>
    BY <1>16 DEF FinishComplete, disk, locks
  <2>3. CASE Destroy(id, Served(rec[id]))
    BY <1>0, <2>1, <2>2, <2>3, DestroyUpload
  <2>4. CASE rec' = [rec EXCEPT ![id] = Served(rec[id])] /\ UNCHANGED maps
    BY <1>13, <2>1, <2>2, <2>4 DEF maps
  <2> QED BY <1>16, <2>3, <2>4 DEF FinishComplete
<1>17. ASSUME \/ \E id \in Ids : OpenBlob(id) \/ SweepSkips(id) \/ GrowOlder(id)
              \/ SweepStart \/ (\E code \in LiveCodes : LiveCode(code))
              \/ UNCHANGED vars
       PROVE  UploadInv'
  <2>1. UNCHANGED <<rec, byId, blob, creation, queue, appending>>
    BY <1>17 DEF OpenBlob, SweepSkips, GrowOlder, SweepStart, LiveCode, vars,
                 maps, disk, locks
  <2> QED BY <1>0, <2>1 DEF UploadInv, UploadOf
<1> QED BY <1>1, <1>2, <1>3, <1>5, <1>6, <1>7, <1>8, <1>9, <1>10, <1>11, <1>12, <1>14, <1>15,
           <1>16, <1>17, Steps

LEMMA AllInv == Spec => [](TypeInv /\ ReadInv /\ LifeInv /\ UploadInv)
BY TypeInit, TypeStep, ReadInit, ReadStep, ReadersOfReads, LifeInit, LifeStep, UploadInit,
   UploadStep, PTL DEF Spec

\* While no append fails, the blob of every live upload is the parts it
\* acknowledged, each once and in order, however parts, retries, commits and
\* removals interleave on its append lock (appendPart, appendPartLocked).
THEOREM BlobIsExact == Spec => []BlobExact
<1>1. UploadInv /\ TypeOK => BlobExact
  BY DEF UploadInv, UploadOf, BlobExact, TypeOK
<1>2. TypeInv => TypeOK
  BY DEF TypeInv
<1> QED BY <1>1, <1>2, AllInv, PTL

\* What CommittedFrozen says of one record.
Frozen(id) ==
    rec[id].committed /\ ~rec'[id].deleted =>
        /\ rec'[id].committed
        /\ rec'[id].size = rec[id].size
        /\ rec'[id].nextIndex = rec[id].nextIndex
        /\ blob'[id] = blob[id]

LEMMA FrozenFrame ==
    ASSUME NEW id, rec[id].committed => SameParts(rec[id], rec'[id]) /\ blob'[id] = blob[id]
    PROVE  Frozen(id)
BY DEF Frozen, SameParts

LEMMA FrozenDestroy ==
    ASSUME TypeOK, NEW id \in Ids, NEW r \in Record, SameParts(rec[id], r),
           Destroy(id, r), UNCHANGED blob
    PROVE  \A i \in Ids : Frozen(i)
<1>1. SameParts(r, Ended(r)) /\ SameParts(rec[id], r)
  BY KeepParts
<1>2. rec' = [rec EXCEPT ![id] = r] \/ rec' = [rec EXCEPT ![id] = Ended(r)]
  BY DEF Destroy
<1>3. \A i \in Ids : SameParts(rec[i], rec'[i])
  BY <1>1, <1>2 DEF SameParts, TypeOK
<1> QED BY <1>3, FrozenFrame

LEMMA FrozenStep ==
    ASSUME TypeInv, LifeInv, UploadInv, [Next]_vars
    PROVE  \A id \in Ids : Frozen(id)
<1>0. /\ TypeOK /\ LockOK
      /\ \A i \in Ids : LifeOf(i) /\ UploadOf(i) /\ rec[i] \in Record
      /\ rec \in [Ids -> Record] /\ DOMAIN blob = Ids
  BY DEF TypeInv, TypeOK, LifeInv, UploadInv
<1>1. ASSUME NEW id \in Ids, ~rec[id].committed,
             \A i \in Ids \ {id} : rec'[i] = rec[i] /\ blob'[i] = blob[i]
      PROVE  \A i \in Ids : Frozen(i)
  BY <1>1, FrozenFrame DEF SameParts
<1>2. ASSUME NEW id \in Ids, NEW ip \in Ips, NEW code \in Codes, NEW n \in 1..MaxReadsLimit,
             CreateUpload(id, ip, code, n)
      PROVE  \A i \in Ids : Frozen(i)
  <2>1. /\ creation[id] = "none" /\ blob' = blob
        /\ rec' = [rec EXCEPT ![id] = [Blank EXCEPT !.code = code, !.owner = ip, !.maxReads = n]]
    BY <1>2 DEF CreateUpload, disk
  <2> QED BY <1>0, <1>1, <2>1 DEF LifeOf
<1>3. ASSUME NEW id \in Ids, CreateBlob(id) \/ CreateBlobFails(id)
      PROVE  \A i \in Ids : Frozen(i)
  <2>1. /\ creation[id] = "blob" /\ rec' = rec
        /\ blob' = [blob EXCEPT ![id] = <<>>] \/ blob' = blob
    BY <1>3 DEF CreateBlob, CreateBlobFails
  <2> QED BY <1>0, <1>1, <2>1 DEF LifeOf
<1>4. ASSUME NEW id \in Ids, AppendWrites(id) \/ AppendWriteFails(id)
      PROVE  \A i \in Ids : Frozen(i)
  <2>1. /\ appending[id] = "write"
        /\ \/ rec' = rec
           \/ rec' = [rec EXCEPT ![id] = Grown(rec[id], Head(queue[id]).index)]
        /\ \/ blob' = blob
           \/ blob' = [blob EXCEPT ![id] = Appended(id, Head(queue[id]).index)]
           \/ blob' = [blob EXCEPT ![id] = Appended(id, Torn)]
    BY <1>4 DEF AppendWrites, AppendWriteFails
  <2> QED BY <1>0, <1>1, <2>1 DEF UploadOf
<1>5. ASSUME NEW id \in Ids, CommitRuns(id)
      PROVE  \A i \in Ids : Frozen(i)
  <2>1. /\ blob' = blob
        /\ rec' = rec \/ rec' = [rec EXCEPT ![id] = Published(rec[id])]
    BY <1>5 DEF CommitRuns, disk
  <2>2. rec[id].committed => SameParts(rec[id], Published(rec[id]))
    BY <1>0 DEF SameParts, Published, Record
  <2>3. \A i \in Ids : rec[i].committed => SameParts(rec[i], rec'[i])
    BY <1>0, <2>1, <2>2 DEF SameParts
  <2> QED BY <2>1, <2>3, FrozenFrame
<1>6. ASSUME NEW id \in Ids, Remove(id) \/ RemoveFails(id)
      PROVE  \A i \in Ids : Frozen(i)
  <2>1. /\ removing[id] # "no" /\ rec' = rec
        /\ blob' = blob \/ blob' = [blob EXCEPT ![id] = None]
    BY <1>6 DEF Remove, RemoveFails, disk
  <2>2. Frozen(id)
    BY <1>0, <2>1 DEF LifeOf, Frozen
  <2>3. \A i \in Ids \ {id} : Frozen(i)
    BY <1>0, <2>1, FrozenFrame DEF SameParts
  <2> QED BY <2>2, <2>3
<1>7. ASSUME NEW id \in Ids, Revoke(id) \/ AppendDestroys(id) \/ SweepDestroys(id)
      PROVE  \A i \in Ids : Frozen(i)
  <2>1. Destroy(id, rec[id]) /\ blob' = blob
    BY <1>7 DEF Revoke, AppendDestroys, SweepDestroys, disk
  <2>2. SameParts(rec[id], rec[id])
    BY DEF SameParts
  <2> QED BY <1>0, <2>1, <2>2, FrozenDestroy
<1>8. ASSUME NEW id \in Ids, NEW r \in Record, SameParts(rec[id], r),
             rec' = [rec EXCEPT ![id] = r], blob' = blob
      PROVE  \A i \in Ids : Frozen(i)
  <2>1. \A i \in Ids : SameParts(rec[i], rec'[i])
    BY <1>0, <1>8 DEF SameParts
  <2> QED BY <1>8, <2>1, FrozenFrame
<1>9. ASSUME NEW code \in Codes, BeginRead(code)
      PROVE  \A i \in Ids : Frozen(i)
  <2>1. PICK id \in Ids : id = byCode[code]
    BY <1>0, <1>9 DEF BeginRead, TypeOK
  <2>2. rec' = [rec EXCEPT ![id] = [rec[id] EXCEPT !.reading = TRUE]] /\ blob' = blob
    BY <1>9, <2>1 DEF BeginRead, disk
  <2> QED BY <1>0, <1>8, <2>2, SetReading, KeepParts
<1>10. ASSUME NEW id \in Ids, FinishShort(id)
       PROVE  \A i \in Ids : Frozen(i)
  <2>1. rec' = [rec EXCEPT ![id] = [rec[id] EXCEPT !.reading = FALSE]] /\ blob' = blob
    BY <1>10 DEF FinishShort, disk
  <2> QED BY <1>0, <1>8, <2>1, SetReading, KeepParts
<1>11. ASSUME NEW id \in Ids, FinishComplete(id)
       PROVE  \A i \in Ids : Frozen(i)
  <2>1. Served(rec[id]) \in Record /\ SameParts(rec[id], Served(rec[id])) /\ blob' = blob
    BY <1>0, <1>11, ServedType, KeepParts DEF FinishComplete, disk
  <2>2. CASE Destroy(id, Served(rec[id]))
    BY <1>0, <2>1, <2>2, FrozenDestroy
  <2>3. CASE rec' = [rec EXCEPT ![id] = Served(rec[id])]
    BY <1>8, <2>1, <2>3
  <2> QED BY <1>11, <2>2, <2>3 DEF FinishComplete
<1>12. ASSUME \/ \E id \in Ids :
                     \/ CommitUpload(id) \/ \E index \in 0..MaxFile : AppendPart(id, index)
                     \/ AppendRefused(id) \/ AppendThrows(id) \/ AppendStarts(id)
                     \/ OpenBlob(id) \/ SweepSkips(id) \/ GrowOlder(id)
              \/ \E s \in saves : SaveLands(s) \/ SaveFails(s)
              \/ \E code \in LiveCodes : LiveCode(code)
              \/ SweepStart \/ UNCHANGED vars
       PROVE  \A i \in Ids : Frozen(i)
  <2>1. UNCHANGED <<rec, blob>>
    BY <1>12 DEF CommitUpload, AppendPart, AppendRefused, AppendThrows, AppendStarts,
                 OpenBlob, SweepSkips, GrowOlder, SaveLands, SaveFails, CreateDone,
                 CreateFailed, AppendSettled, OtherSettled, LiveCode, SweepStart,
                 vars, disk
  <2> QED BY <2>1, FrozenFrame DEF SameParts
<1> QED BY <1>2, <1>3, <1>4, <1>5, <1>6, <1>7, <1>9, <1>10, <1>11, <1>12, Steps

\* A commit freezes a transfer: no part still in flight or queued behind it moves
\* its blob, its size or its position until it is destroyed (commitUpload's wait
\* on the append lock, and the check of committed in appendPartLocked).
THEOREM CommittedStaysFrozen == Spec => CommittedFrozen
<1>1. ASSUME TypeInv, LifeInv, UploadInv, [Next]_vars
      PROVE  \A id \in Ids : Frozen(id)
  BY <1>1, FrozenStep
<1>2. TypeInv /\ LifeInv /\ UploadInv /\ [Next]_vars => [\A id \in Ids : Frozen(id)]_vars
  BY <1>1
<1>3. Spec => [][\A id \in Ids : Frozen(id)]_vars
  BY <1>2, AllInv, PTL DEF Spec
<1> QED BY <1>3 DEF CommittedFrozen, Frozen

----------------------------------------------------------------------------
(* The ciphertext of a published transfer *)

\* Once destroy is past the blob, a published record has none: the append lock
\* has let no part past its check since the commit.
GoneOf(id) ==
    id \notin stuck /\ rec[id].deleted /\ rec[id].committed /\ removing[id] # "blob"
        => blob[id] = None

GoneInv == \A id \in Ids : GoneOf(id)

\* What the fields of a record that concern its end are.
SameEnd(r, s) == s.deleted = r.deleted /\ s.committed = r.committed

LEMMA KeepEnd ==
    ASSUME NEW r \in Record, NEW part \in Nat, NEW b \in BOOLEAN
    PROVE  /\ SameEnd(r, Grown(r, part))
           /\ SameEnd(r, Served(r))
           /\ SameEnd(r, [r EXCEPT !.reading = b])
BY DEF SameEnd, Grown, Served, Record

LEMMA GoneFrame ==
    ASSUME NEW id \in Ids, GoneOf(id), SameEnd(rec[id], rec'[id]),
           removing'[id] = removing[id], blob'[id] = blob[id],
           stuck \subseteq stuck'
    PROVE  GoneOf(id)'
BY DEF GoneOf, SameEnd

LEMMA DestroyGone ==
    ASSUME TypeOK, GoneInv, NEW id \in Ids, NEW r \in Record, SameEnd(rec[id], r),
           Destroy(id, r), UNCHANGED <<blob, stuck>>
    PROVE  GoneInv'
<1>1. CASE r.deleted
  <2>1. rec' = [rec EXCEPT ![id] = r] /\ removing' = removing
    BY <1>1 DEF Destroy, Destroyed
  <2>2. \A i \in Ids : SameEnd(rec[i], rec'[i])
    BY <2>1 DEF SameEnd, TypeOK
  <2> QED BY <2>1, <2>2, GoneFrame DEF GoneInv
<1>2. CASE ~r.deleted
  <2>1. rec' = [rec EXCEPT ![id] = Ended(r)] /\ removing' = [removing EXCEPT ![id] = "blob"]
    BY <1>2 DEF Destroy, Destroyed
  <2>2. removing'[id] = "blob"
    BY <2>1 DEF TypeOK
  <2>3. \A i \in Ids \ {id} : SameEnd(rec[i], rec'[i]) /\ removing'[i] = removing[i]
    BY <2>1 DEF SameEnd, TypeOK
  <2>4. \A i \in Ids \ {id} : GoneOf(i)'
    BY <2>3, GoneFrame DEF GoneInv
  <2>5. GoneOf(id)'
    BY <2>2 DEF GoneOf
  <2> QED BY <2>4, <2>5 DEF GoneInv
<1> QED BY <1>1, <1>2

LEMMA GoneStep ==
    ASSUME TypeInv, LifeInv, UploadInv, GoneInv, [Next]_vars
    PROVE  GoneInv'
<1>0. /\ TypeOK
      /\ \A i \in Ids : LifeOf(i) /\ UploadOf(i) /\ GoneOf(i) /\ rec[i] \in Record
      /\ rec \in [Ids -> Record] /\ DOMAIN blob = Ids /\ DOMAIN removing = Ids
  BY DEF TypeInv, TypeOK, LifeInv, UploadInv, GoneInv
<1>1. ASSUME NEW id \in Ids, ~(rec'[id].deleted /\ rec'[id].committed),
             UNCHANGED <<removing, stuck>>,
             \A i \in Ids \ {id} : rec'[i] = rec[i] /\ blob'[i] = blob[i]
      PROVE  GoneInv'
  <2>1. \A i \in Ids \ {id} : GoneOf(i)'
    BY <1>0, <1>1, GoneFrame DEF SameEnd
  <2>2. GoneOf(id)'
    BY <1>1 DEF GoneOf
  <2> QED BY <2>1, <2>2 DEF GoneInv
<1>2. ASSUME NEW id \in Ids, NEW ip \in Ips, NEW code \in Codes, NEW n \in 1..MaxReadsLimit,
             CreateUpload(id, ip, code, n)
      PROVE  GoneInv'
  <2>1. /\ UNCHANGED <<blob, removing, stuck>>
        /\ rec' = [rec EXCEPT ![id] = [Blank EXCEPT !.code = code, !.owner = ip, !.maxReads = n]]
    BY <1>2 DEF CreateUpload, disk, others, env
  <2>2. ~rec'[id].deleted
    BY <1>0, <2>1 DEF Blank
  <2> QED BY <1>0, <1>1, <2>1, <2>2
<1>3. ASSUME NEW id \in Ids, CreateBlob(id) \/ CreateBlobFails(id)
      PROVE  GoneInv'
  <2>1. /\ creation[id] = "blob" /\ UNCHANGED <<rec, removing, stuck>>
        /\ blob' = [blob EXCEPT ![id] = <<>>] \/ blob' = blob
    BY <1>3 DEF CreateBlob, CreateBlobFails, others, env
  <2> QED BY <1>0, <1>1, <2>1 DEF LifeOf
<1>4. ASSUME NEW id \in Ids, AppendWrites(id) \/ AppendWriteFails(id)
      PROVE  GoneInv'
  <2>1. /\ appending[id] = "write" /\ UNCHANGED <<removing, stuck>>
        /\ \/ rec' = rec
           \/ rec' = [rec EXCEPT ![id] = Grown(rec[id], Head(queue[id]).index)]
        /\ \/ blob' = blob
           \/ blob' = [blob EXCEPT ![id] = Appended(id, Head(queue[id]).index)]
           \/ blob' = [blob EXCEPT ![id] = Appended(id, Torn)]
    BY <1>4 DEF AppendWrites, AppendWriteFails, others
  <2>2. ~rec[id].committed /\ ~Grown(rec[id], Head(queue[id]).index).committed
    BY <1>0, <2>1 DEF UploadOf, Grown, Record
  <2>3. ~rec'[id].committed
    BY <1>0, <2>1, <2>2
  <2> QED BY <1>0, <1>1, <2>1, <2>3
<1>5. ASSUME NEW id \in Ids, CommitRuns(id)
      PROVE  GoneInv'
  <2>1. /\ UNCHANGED <<blob, removing, stuck>>
        /\ rec' = rec \/ (~rec[id].deleted /\ rec' = [rec EXCEPT ![id] = Published(rec[id])])
    BY <1>5 DEF CommitRuns, disk, others, env
  <2>2. CASE rec' = rec
    BY <1>0, <2>1, <2>2, GoneFrame DEF SameEnd, GoneInv
  <2>3. CASE ~rec[id].deleted /\ rec' = [rec EXCEPT ![id] = Published(rec[id])]
    BY <1>0, <1>1, <2>1, <2>3 DEF Published, Record
  <2> QED BY <2>1, <2>2, <2>3
<1>6. ASSUME NEW id \in Ids, Remove(id)
      PROVE  GoneInv'
  <2>1. /\ UNCHANGED <<rec, stuck>> /\ removing[id] # "no"
        /\ removing' = NextRemoval(id)
        /\ IF removing[id] = "blob" THEN blob' = [blob EXCEPT ![id] = None] ELSE blob' = blob
    BY <1>6 DEF Remove, env
  <2>2. \A i \in Ids \ {id} : removing'[i] = removing[i] /\ blob'[i] = blob[i]
    BY <1>0, <2>1 DEF NextRemoval
  <2>3. \A i \in Ids \ {id} : GoneOf(i)'
    BY <1>0, <2>1, <2>2, GoneFrame DEF SameEnd
  <2>4. GoneOf(id)'
    BY <1>0, <2>1 DEF GoneOf
  <2> QED BY <2>3, <2>4 DEF GoneInv
<1>7. ASSUME NEW id \in Ids, RemoveFails(id)
      PROVE  GoneInv'
  <2>1. /\ UNCHANGED <<rec, blob>> /\ stuck' = stuck \cup {id}
        /\ removing' = NextRemoval(id)
    BY <1>7 DEF RemoveFails, disk
  <2>2. \A i \in Ids \ {id} : removing'[i] = removing[i]
    BY <1>0, <2>1 DEF NextRemoval
  <2>3. \A i \in Ids \ {id} : GoneOf(i)'
    BY <1>0, <2>1, <2>2, GoneFrame DEF SameEnd
  <2>4. GoneOf(id)'
    BY <2>1 DEF GoneOf
  <2> QED BY <2>3, <2>4 DEF GoneInv
<1>8. ASSUME NEW id \in Ids, Revoke(id) \/ AppendDestroys(id) \/ SweepDestroys(id)
      PROVE  GoneInv'
  <2>1. Destroy(id, rec[id]) /\ UNCHANGED <<blob, stuck>>
    BY <1>8 DEF Revoke, AppendDestroys, SweepDestroys, disk, env
  <2> QED BY <1>0, <2>1, DestroyGone DEF GoneInv, SameEnd
<1>9. ASSUME NEW id \in Ids, NEW r \in Record, SameEnd(rec[id], r),
             rec' = [rec EXCEPT ![id] = r], UNCHANGED <<blob, removing, stuck>>
      PROVE  GoneInv'
  <2>1. \A i \in Ids : SameEnd(rec[i], rec'[i])
    BY <1>0, <1>9 DEF SameEnd
  <2> QED BY <1>0, <1>9, <2>1, GoneFrame DEF GoneInv
<1>10. ASSUME NEW code \in Codes, BeginRead(code)
       PROVE  GoneInv'
  <2>1. PICK id \in Ids : id = byCode[code]
    BY <1>0, <1>10 DEF BeginRead, TypeOK
  <2>2. /\ rec' = [rec EXCEPT ![id] = [rec[id] EXCEPT !.reading = TRUE]]
        /\ UNCHANGED <<blob, removing, stuck>>
    BY <1>10, <2>1 DEF BeginRead, disk, env
  <2> QED BY <1>0, <1>9, <2>2, SetReading, KeepEnd
<1>11. ASSUME NEW id \in Ids, FinishShort(id)
       PROVE  GoneInv'
  <2>1. /\ rec' = [rec EXCEPT ![id] = [rec[id] EXCEPT !.reading = FALSE]]
        /\ UNCHANGED <<blob, removing, stuck>>
    BY <1>11 DEF FinishShort, disk, env
  <2> QED BY <1>0, <1>9, <2>1, SetReading, KeepEnd
<1>12. ASSUME NEW id \in Ids, FinishComplete(id)
       PROVE  GoneInv'
  <2>1. /\ Served(rec[id]) \in Record /\ SameEnd(rec[id], Served(rec[id]))
        /\ UNCHANGED <<blob, stuck>>
    BY <1>0, <1>12, ServedType, KeepEnd DEF FinishComplete, disk
  <2>2. CASE Destroy(id, Served(rec[id]))
    BY <1>0, <2>1, <2>2, DestroyGone DEF GoneInv
  <2>3. CASE rec' = [rec EXCEPT ![id] = Served(rec[id])] /\ removing' = removing
    BY <1>9, <2>1, <2>3
  <2> QED BY <1>12, <2>2, <2>3 DEF FinishComplete
<1>13. ASSUME \/ \E id \in Ids :
                     \/ CommitUpload(id) \/ \E index \in 0..MaxFile : AppendPart(id, index)
                     \/ AppendRefused(id) \/ AppendThrows(id) \/ AppendStarts(id)
                     \/ OpenBlob(id) \/ SweepSkips(id) \/ GrowOlder(id)
              \/ \E s \in saves : SaveLands(s) \/ SaveFails(s)
              \/ \E code \in LiveCodes : LiveCode(code)
              \/ SweepStart \/ UNCHANGED vars
       PROVE  GoneInv'
  <2>1. UNCHANGED <<rec, blob, removing, stuck>>
    BY <1>13 DEF CommitUpload, AppendPart, AppendRefused, AppendThrows, AppendStarts,
                 OpenBlob, SweepSkips, GrowOlder, SaveLands, SaveFails, CreateDone,
                 CreateFailed, AppendSettled, OtherSettled, LiveCode, SweepStart,
                 vars, disk, others, env
  <2> QED BY <1>0, <2>1, GoneFrame DEF SameEnd, GoneInv
<1> QED BY <1>2, <1>3, <1>4, <1>5, <1>6, <1>7, <1>8, <1>10, <1>11, <1>12, <1>13, Steps

\* A published transfer that was revoked, used up or expired has no ciphertext on
\* disk once destroy is past its blob, unless removeFile gave up on it: no part
\* still under way writes the file again (destroy, appendPartLocked, commitUpload).
THEOREM CollectedLeavesNothing == Spec => []CollectedIsGone
<1>1. Init => GoneInv
  BY DEF Init, GoneInv, GoneOf, Blank
<1>2. TypeInv /\ LifeInv /\ UploadInv /\ GoneInv /\ [Next]_vars => GoneInv'
  BY GoneStep
<1>3. GoneInv => CollectedIsGone
  BY DEF GoneInv, GoneOf, CollectedIsGone
<1> QED BY <1>1, <1>2, <1>3, AllInv, PTL DEF Spec

----------------------------------------------------------------------------
(* The reservation of an upload *)

\* Whoever created a record is known, and a slot is given back only with a commit
\* or with the end of the record.
SlotOf(id) ==
    /\ creation[id] # "none" => rec[id].owner \in Ips
    /\ rec[id].cleared => rec[id].committed \/ rec[id].deleted

SlotInv == SlotExact /\ \A id \in Ids : SlotOf(id)

\* What the fields of a record that concern its slot are.
SameSlot(r, s) == /\ SameEnd(r, s)
                  /\ s.owner = r.owner
                  /\ s.cleared = r.cleared

LEMMA KeepSlot ==
    ASSUME NEW r \in Record, NEW part \in Nat, NEW b \in BOOLEAN
    PROVE  /\ SameSlot(r, Grown(r, part))
           /\ SameSlot(r, Served(r))
           /\ SameSlot(r, [r EXCEPT !.reading = b])
BY DEF SameSlot, SameEnd, Grown, Served, Record

LEMMA ReservedIsFinite ==
    ASSUME TypeOK, NEW ip \in Ips
    PROVE  IsFiniteSet(Reserved(ip))
<1>1. Reserved(ip) \subseteq Ids
  BY DEF Reserved, TypeOK
<1>2. IsFiniteSet(Ids)
  BY ConstAssumption
<1> QED BY <1>1, <1>2, FS_Subset

LEMMA SlotFrame ==
    ASSUME SlotInv, byId \subseteq Ids, \A i \in Ids : SameSlot(rec[i], rec'[i]),
           \A i \in Ids : creation'[i] # "none" => creation[i] # "none",
           UNCHANGED <<byId, uncommittedByIp>>
    PROVE  SlotInv'
<1>1. \A ip \in Ips : Reserved(ip)' = Reserved(ip)
  BY DEF Reserved, SameSlot, SameEnd
<1>2. SlotExact'
  BY <1>1 DEF SlotInv, SlotExact
<1>3. \A i \in Ids : SlotOf(i)'
  BY DEF SlotInv, SlotOf, SameSlot, SameEnd
<1> QED BY <1>2, <1>3 DEF SlotInv

\* A live upload stops being one, and its address gets one slot back.
LEMMA GivesBack ==
    ASSUME TypeOK, SlotExact, NEW id \in byId, NEW r \in Record, SameSlot(rec[id], r),
           ~r.committed, ~r.cleared, r.owner \in Ips,
           uncommittedByIp' = SlotsWithout(r),
           id \notin byId' \/ rec'[id].committed,
           \A i \in Ids \ {id} : (i \in byId' <=> i \in byId) /\ SameSlot(rec[i], rec'[i]),
           byId' \subseteq byId
    PROVE  SlotExact'
<1> DEFINE owner == r.owner
<1>1. /\ byId \subseteq Ids /\ uncommittedByIp \in [Ips -> Nat]
      /\ rec[id].owner = owner /\ ~rec[id].committed /\ owner \in Ips
  BY DEF TypeOK, SameSlot, SameEnd
<1>2. /\ Reserved(owner)' = Reserved(owner) \ {id}
      /\ id \in Reserved(owner)
  BY <1>1 DEF Reserved, SameSlot, SameEnd
<1>3. \A ip \in Ips \ {owner} : Reserved(ip)' = Reserved(ip)
  BY <1>1 DEF Reserved, SameSlot, SameEnd
<1>4. IsFiniteSet(Reserved(owner))
  BY <1>1, ReservedIsFinite
<1>5. /\ Cardinality(Reserved(owner) \ {id}) = Cardinality(Reserved(owner)) - 1
      /\ IsFiniteSet(Reserved(owner) \ {id})
  BY <1>2, <1>4, FS_RemoveElement
<1>6. Cardinality(Reserved(owner) \ {id}) \in Nat /\ Cardinality(Reserved(owner)) \in Nat
  BY <1>4, <1>5, FS_CardinalityType
<1>7. uncommittedByIp' = [uncommittedByIp EXCEPT ![owner] = IF @ = 0 THEN 0 ELSE @ - 1]
  BY DEF SlotsWithout
<1>8. uncommittedByIp'[owner] = Cardinality(Reserved(owner)')
  BY <1>1, <1>2, <1>5, <1>6, <1>7 DEF SlotExact
<1>9. \A ip \in Ips \ {owner} : uncommittedByIp'[ip] = Cardinality(Reserved(ip)')
  BY <1>1, <1>3, <1>7 DEF SlotExact
<1> QED BY <1>8, <1>9 DEF SlotExact

LEMMA DestroySlot ==
    ASSUME TypeOK, LifeInv, SlotInv, NEW id \in Ids, NEW r \in Record, SameSlot(rec[id], r),
           creation[id] = "done", Destroy(id, r), creation' = creation
    PROVE  SlotInv'
<1>0. LifeOf(id) /\ SlotOf(id) /\ byId \subseteq Ids /\ rec \in [Ids -> Record]
  BY DEF LifeInv, SlotInv, TypeOK
<1>1. CASE r.deleted
  <2>1. rec' = [rec EXCEPT ![id] = r] /\ UNCHANGED <<byId, uncommittedByIp>>
    BY <1>1 DEF Destroy, Destroyed, maps
  <2>2. \A i \in Ids : SameSlot(rec[i], rec'[i])
    BY <1>0, <2>1 DEF SameSlot, SameEnd
  <2> QED BY <1>0, <2>1, <2>2, SlotFrame
<1>2. CASE ~r.deleted
  <2>1. /\ rec' = [rec EXCEPT ![id] = Ended(r)]
        /\ byId' = byId \ {id} /\ uncommittedByIp' = SlotsWithout(r)
    BY <1>2 DEF Destroy, Destroyed
  <2>2. id \in byId /\ r.owner \in Ips /\ rec[id].owner = r.owner
    BY <1>0, <1>2 DEF LifeOf, SlotOf, SameSlot, SameEnd
  <2>3. rec'[id] = Ended(r) /\ \A i \in Ids \ {id} : SameSlot(rec[i], rec'[i])
    BY <1>0, <2>1 DEF SameSlot, SameEnd
  <2>4. Ended(r).deleted /\ Ended(r).owner = r.owner
    BY DEF Ended, Record
  <2>5. \A i \in Ids : SlotOf(i)'
    BY <2>2, <2>3, <2>4 DEF SlotInv, SlotOf, SameSlot, SameEnd
  <2>6. CASE r.committed
    <3>1. uncommittedByIp' = uncommittedByIp
      BY <2>1, <2>6 DEF SlotsWithout
    <3>2. \A ip \in Ips : Reserved(ip)' = Reserved(ip)
      BY <1>0, <2>1, <2>3, <2>6 DEF Reserved, SameSlot, SameEnd
    <3>3. SlotExact'
      BY <3>1, <3>2 DEF SlotInv, SlotExact
    <3> QED BY <2>5, <3>3 DEF SlotInv
  <2>7. CASE ~r.committed
    <3>1. ~r.cleared
      BY <1>0, <1>2, <2>7 DEF SlotOf, SameSlot, SameEnd
    <3>2. SlotExact'
      BY <2>1, <2>2, <2>3, <2>7, <3>1, GivesBack DEF SlotInv
    <3> QED BY <2>5, <3>2 DEF SlotInv
  <2> QED BY <2>6, <2>7
<1> QED BY <1>1, <1>2

LEMMA SlotStep ==
    ASSUME TypeInv, ReadInv, LifeInv, SlotInv, [Next]_vars
    PROVE  SlotInv'
<1>0. /\ TypeOK /\ SavesInv
      /\ \A i \in Ids : LifeOf(i) /\ ReadInvOf(i) /\ SlotOf(i) /\ rec[i] \in Record
      /\ rec \in [Ids -> Record] /\ DOMAIN creation = Ids /\ byId \subseteq Ids
  BY DEF TypeInv, TypeOK, LifeInv, ReadInv, SlotInv
<1> DEFINE Created == \A i \in Ids : creation'[i] # "none" => creation[i] # "none"
<1>1. ASSUME NEW id \in Ids, NEW r \in Record, SameSlot(rec[id], r),
             rec' = [rec EXCEPT ![id] = r], Created, UNCHANGED <<byId, uncommittedByIp>>
      PROVE  SlotInv'
  <2>1. \A i \in Ids : SameSlot(rec[i], rec'[i])
    BY <1>0, <1>1 DEF SameSlot, SameEnd
  <2> QED BY <1>0, <1>1, <2>1, SlotFrame
<1>2. ASSUME NEW id \in Ids, NEW ip \in Ips, NEW code \in Codes, NEW n \in 1..MaxReadsLimit,
             CreateUpload(id, ip, code, n)
      PROVE  SlotInv'
  <2>1. /\ creation[id] = "none" /\ UNCHANGED <<byId, uncommittedByIp>>
        /\ rec' = [rec EXCEPT ![id] = [Blank EXCEPT !.code = code, !.owner = ip, !.maxReads = n]]
        /\ creation' = [creation EXCEPT ![id] = "blob"]
    BY <1>2 DEF CreateUpload
  <2>2. id \notin byId
    BY <1>0, <2>1 DEF LifeOf
  <2>3. rec'[id].owner = ip /\ ~rec'[id].cleared
    BY <1>0, <2>1 DEF Blank
  <2>4. \A i \in Ids \ {id} : rec'[i] = rec[i] /\ creation'[i] = creation[i]
    BY <1>0, <2>1
  <2>5. \A a \in Ips : Reserved(a)' = Reserved(a)
    BY <1>0, <2>1, <2>2, <2>4 DEF Reserved
  <2>6. SlotExact'
    BY <2>1, <2>5 DEF SlotInv, SlotExact
  <2>7. \A i \in Ids : SlotOf(i)'
    BY <1>0, <2>3, <2>4 DEF SlotOf
  <2> QED BY <2>6, <2>7 DEF SlotInv
<1>3. ASSUME NEW s \in saves, CreateDone(s)
      PROVE  SlotInv'
  <2> DEFINE id == s.id
  <2>0. PICK owner \in Ips : owner = rec[id].owner
    BY <1>0, <1>3 DEF CreateDone, SavesInv, TypeOK, SaveCall, SlotOf
  <2>1. /\ id \in Ids /\ creation[id] = "meta" /\ UNCHANGED rec
        /\ byId' = byId \cup {id}
        /\ uncommittedByIp' = [uncommittedByIp EXCEPT ![owner] = @ + 1]
        /\ creation' = [creation EXCEPT ![id] = "done"]
    BY <1>0, <1>3, <2>0 DEF CreateDone, SavesInv, TypeOK, SaveCall
  <2>2. id \notin byId /\ ~rec[id].committed
    BY <1>0, <2>1 DEF LifeOf
  <2>3. Reserved(owner)' = Reserved(owner) \cup {id} /\ id \notin Reserved(owner)
    BY <2>0, <2>1, <2>2 DEF Reserved
  <2>4. IsFiniteSet(Reserved(owner))
    BY <1>0, ReservedIsFinite
  <2>5. Cardinality(Reserved(owner) \cup {id}) = Cardinality(Reserved(owner)) + 1
    BY <2>3, <2>4, FS_AddElement
  <2>6. uncommittedByIp \in [Ips -> Nat]
    BY <1>0 DEF TypeOK
  <2>7. uncommittedByIp'[owner] = Cardinality(Reserved(owner)')
    BY <2>1, <2>2, <2>3, <2>5, <2>6 DEF SlotInv, SlotExact
  <2>8. \A ip \in Ips \ {owner} : Reserved(ip)' = Reserved(ip)
    BY <2>0, <2>1 DEF Reserved
  <2>9. \A ip \in Ips \ {owner} : uncommittedByIp'[ip] = Cardinality(Reserved(ip)')
    BY <2>1, <2>6, <2>8 DEF SlotInv, SlotExact
  <2>10. SlotExact'
    BY <2>7, <2>9 DEF SlotExact
  <2>11. \A i \in Ids : creation'[i] # "none" => creation[i] # "none"
    BY <1>0, <2>1
  <2>12. \A i \in Ids : SlotOf(i)'
    BY <1>0, <2>1, <2>11 DEF SlotOf
  <2> QED BY <2>10, <2>12 DEF SlotInv
<1>4. ASSUME NEW s \in saves, CreateFailed(s) \/ AppendSettled(s) \/ OtherSettled(s)
      PROVE  SlotInv'
  <2>1. UNCHANGED <<rec, byId, uncommittedByIp>>
    BY <1>4 DEF CreateFailed, AppendSettled, OtherSettled, maps
  <2>2. Created
    BY <1>0, <1>4 DEF CreateFailed, AppendSettled, OtherSettled, SavesInv
  <2>3. \A i \in Ids : SameSlot(rec[i], rec'[i])
    BY <2>1 DEF SameSlot, SameEnd
  <2> QED BY <1>0, <2>1, <2>2, <2>3, SlotFrame
<1>5. ASSUME NEW id \in Ids, CreateBlob(id) \/ CreateBlobFails(id)
      PROVE  SlotInv'
  <2>1. creation[id] = "blob" /\ UNCHANGED <<rec, byId, uncommittedByIp>>
    BY <1>5 DEF CreateBlob, CreateBlobFails, maps
  <2>2. Created
    BY <1>0, <1>5, <2>1 DEF CreateBlob, CreateBlobFails
  <2>3. \A i \in Ids : SameSlot(rec[i], rec'[i])
    BY <2>1 DEF SameSlot, SameEnd
  <2> QED BY <1>0, <2>1, <2>2, <2>3, SlotFrame
<1>6. ASSUME NEW id \in Ids, AppendWrites(id)
      PROVE  SlotInv'
  <2> DEFINE part == Head(queue[id]).index
  <2>1. /\ rec' = [rec EXCEPT ![id] = Grown(rec[id], part)]
        /\ appending[id] = "write" /\ UNCHANGED <<byId, uncommittedByIp, creation>>
    BY <1>6 DEF AppendWrites
  <2>2. SameSlot(rec[id], Grown(rec[id], part))
    BY <1>0 DEF SameSlot, SameEnd, Grown, Record
  <2>3. \A i \in Ids : SameSlot(rec[i], rec'[i])
    BY <1>0, <2>1, <2>2 DEF SameSlot, SameEnd
  <2> QED BY <1>0, <2>1, <2>3, SlotFrame
<1>7. ASSUME NEW id \in Ids, CommitRuns(id)
      PROVE  SlotInv'
  <2>1. /\ UNCHANGED <<byId, creation>> /\ queue[id] # <<>>
        /\ \/ UNCHANGED <<rec, uncommittedByIp>>
           \/ /\ ~rec[id].deleted
              /\ rec' = [rec EXCEPT ![id] = Published(rec[id])]
              /\ uncommittedByIp' = SlotsWithout(rec[id])
    BY <1>7 DEF CommitRuns, maps, Turn
  <2>2. CASE UNCHANGED <<rec, uncommittedByIp>>
    BY <1>0, <2>1, <2>2, SlotFrame DEF SameSlot, SameEnd
  <2>3. CASE /\ ~rec[id].deleted
             /\ rec' = [rec EXCEPT ![id] = Published(rec[id])]
             /\ uncommittedByIp' = SlotsWithout(rec[id])
    <3>1. creation[id] = "done" /\ id \in byId /\ rec[id].owner \in Ips
      BY <1>0, <2>1, <2>3 DEF LifeOf, SlotOf
    <3>2. /\ rec'[id].committed /\ rec'[id].owner = rec[id].owner
          /\ \A i \in Ids \ {id} : SameSlot(rec[i], rec'[i])
      BY <1>0, <2>3 DEF Published, Record, SameSlot, SameEnd
    <3>3. \A i \in Ids : SlotOf(i)'
      BY <1>0, <2>1, <3>2 DEF SlotOf, SameSlot, SameEnd
    <3>4. CASE rec[id].committed
      <4>1. Published(rec[id]).cleared = rec[id].cleared
        <5>1. rec[id] \in Record /\ rec[id].cleared \in BOOLEAN
          BY <1>0 DEF Record
        <5>2. Published(rec[id]).cleared = (rec[id].cleared \/ ~rec[id].committed)
          BY <5>1 DEF Published, Record
        <5> QED BY <3>4, <5>1, <5>2
      <4>2. /\ Published(rec[id]).deleted = rec[id].deleted
            /\ Published(rec[id]).owner = rec[id].owner
            /\ Published(rec[id]).committed
        BY <1>0 DEF Published, Record
      <4>3. rec[id].committed \in BOOLEAN /\ Published(rec[id]).committed \in BOOLEAN
        BY <1>0 DEF Published, Record
      <4>4. SameSlot(rec[id], Published(rec[id]))
        BY <3>4, <4>1, <4>2, <4>3 DEF SameSlot, SameEnd
      <4>5. uncommittedByIp' = uncommittedByIp
        BY <2>3, <3>4 DEF SlotsWithout
      <4> QED BY <1>0, <1>1, <2>1, <2>3, <4>4, <4>5, PublishedType
    <3>5. CASE ~rec[id].committed
      <4>1. ~rec[id].cleared
        BY <1>0, <2>3, <3>5 DEF SlotOf
      <4>2. SlotExact'
        BY <1>0, <2>1, <2>3, <3>1, <3>2, <3>5, <4>1, GivesBack
           DEF SlotInv, SameSlot, SameEnd
      <4> QED BY <3>3, <4>2 DEF SlotInv
    <3> QED BY <3>4, <3>5
  <2> QED BY <2>1, <2>2, <2>3
<1>8. ASSUME NEW id \in Ids, Revoke(id) \/ AppendDestroys(id) \/ SweepDestroys(id)
      PROVE  SlotInv'
  <2>1. Destroy(id, rec[id]) /\ UNCHANGED creation
    BY <1>8 DEF Revoke, AppendDestroys, SweepDestroys
  <2>2. creation[id] = "done"
    BY <1>0, <1>8 DEF Revoke, AppendDestroys, SweepDestroys, Turn, LifeOf
  <2> QED BY <1>0, <2>1, <2>2, DestroySlot DEF SameSlot, SameEnd
<1>9. ASSUME NEW code \in Codes, BeginRead(code)
      PROVE  SlotInv'
  <2>1. PICK id \in Ids : id = byCode[code]
    BY <1>0, <1>9 DEF BeginRead, TypeOK
  <2>2. /\ rec' = [rec EXCEPT ![id] = [rec[id] EXCEPT !.reading = TRUE]]
        /\ UNCHANGED <<byId, uncommittedByIp, creation>>
    BY <1>9, <2>1 DEF BeginRead, maps
  <2> QED BY <1>0, <1>1, <2>2, SetReading, KeepSlot
<1>10. ASSUME NEW id \in Ids, FinishShort(id)
       PROVE  SlotInv'
  <2>1. /\ rec' = [rec EXCEPT ![id] = [rec[id] EXCEPT !.reading = FALSE]]
        /\ UNCHANGED <<byId, uncommittedByIp, creation>>
    BY <1>10 DEF FinishShort, maps
  <2> QED BY <1>0, <1>1, <2>1, SetReading, KeepSlot
<1>11. ASSUME NEW id \in Ids, FinishComplete(id)
       PROVE  SlotInv'
  <2>1. /\ Served(rec[id]) \in Record /\ SameSlot(rec[id], Served(rec[id]))
        /\ UNCHANGED creation /\ streams[id].whole > 0
    BY <1>0, <1>11, ServedType, KeepSlot DEF FinishComplete
  <2>2. CASE Destroy(id, Served(rec[id]))
    <3>1. streams[id].opening \in Nat /\ streams[id].whole \in Nat
      BY <1>0 DEF TypeOK
    <3>2. rec[id].reading
      BY <1>0, <2>1, <3>1 DEF ReadInvOf, ReaderOf
    <3>3. creation[id] = "done"
      BY <1>0, <3>2 DEF LifeOf
    <3> QED BY <1>0, <2>1, <2>2, <3>3, DestroySlot
  <2>3. CASE rec' = [rec EXCEPT ![id] = Served(rec[id])] /\ UNCHANGED maps
    BY <1>1, <2>1, <2>3 DEF maps
  <2> QED BY <1>11, <2>2, <2>3 DEF FinishComplete
<1>12. ASSUME \/ \E id \in Ids :
                     \/ CommitUpload(id) \/ \E index \in 0..MaxFile : AppendPart(id, index)
                     \/ AppendRefused(id) \/ AppendThrows(id) \/ AppendStarts(id)
                     \/ AppendWriteFails(id) \/ Remove(id) \/ RemoveFails(id)
                     \/ OpenBlob(id) \/ SweepSkips(id) \/ GrowOlder(id)
              \/ \E code \in LiveCodes : LiveCode(code)
              \/ SweepStart \/ UNCHANGED vars
       PROVE  SlotInv'
  <2>1. UNCHANGED <<rec, byId, uncommittedByIp, creation>>
    BY <1>12 DEF CommitUpload, AppendPart, AppendRefused, AppendThrows, AppendStarts,
                 AppendWriteFails, Remove, RemoveFails, OpenBlob, SweepSkips, GrowOlder,
                 LiveCode, SweepStart, vars, maps
  <2> QED BY <1>0, <2>1, SlotFrame DEF SameSlot, SameEnd
<1>13. ASSUME NEW s \in saves, SaveLands(s) \/ SaveFails(s)
       PROVE  SlotInv'
  BY <1>3, <1>4, <1>13 DEF SaveLands, SaveFails
<1> QED BY <1>2, <1>5, <1>6, <1>7, <1>8, <1>9, <1>10, <1>11, <1>12, <1>13, Steps

\* An address is charged for exactly its live uncommitted uploads: whichever of
\* commit, revocation, quota, size limit and sweep ends one gives the slot back, and
\* no second ending of the same record gives it back again (clearUncommitted).
THEOREM SlotsAreExact == Spec => []SlotExact
<1>1. Init => SlotInv
  <2> SUFFICES ASSUME Init PROVE SlotInv
    OBVIOUS
  <2>1. \A ip \in Ips : Reserved(ip) = {}
    BY DEF Init, Reserved
  <2>2. \A ip \in Ips : uncommittedByIp[ip] = 0
    BY DEF Init
  <2>3. SlotExact
    BY <2>1, <2>2, FS_EmptySet DEF SlotExact
  <2>4. \A i \in Ids : SlotOf(i)
    BY DEF Init, SlotOf, Blank
  <2> QED BY <2>3, <2>4 DEF SlotInv
<1>2. TypeInv /\ ReadInv /\ LifeInv /\ SlotInv /\ [Next]_vars => SlotInv'
  BY SlotStep
<1>3. SlotInv => SlotExact
  BY DEF SlotInv
<1> QED BY <1>1, <1>2, <1>3, AllInv, PTL DEF Spec
=============================================================================
