-------------------------- MODULE StoreRefinement --------------------------
(***************************************************************************)
(* Module Store keeps the promise of module Transfer, takes no transfer    *)
(* away from a reader, and never counts fewer bytes than it holds, for     *)
(* every value of the constants.                                           *)
(***************************************************************************)
EXTENDS StoreSafety, WellFoundedInduction

----------------------------------------------------------------------------
(* What a read, a commit and an offer may rely on *)

\* Every commit in queue q belongs to a record that holds a part.
Grounded(q, r) == \A k \in 1..Len(q) : q[k].op = "commit" => r.size > 0

\* An upload was offered with a budget, only a published one is read, and nothing
\* empty waits to be published.
OfferOf(id) ==
    /\ creation[id] # "none" => rec[id].maxReads > 0
    /\ rec[id].reading => rec[id].committed
    /\ Grounded(queue[id], rec[id])

OfferInv == \A id \in Ids : OfferOf(id)

LEMMA TailGrounded ==
    ASSUME NEW q \in Seq(Call), q # <<>>, NEW r, Grounded(q, r)
    PROVE  Grounded(Tail(q), r)
BY DEF Grounded

LEMMA AppendGrounded ==
    ASSUME NEW q \in Seq(Call), NEW e \in Call, NEW r, Grounded(q, r),
           e.op = "commit" => r.size > 0
    PROVE  Grounded(Append(q, e), r)
BY DEF Grounded

\* The updates of a record that keep what OfferOf says of it.
SafeUpdate(r, s) ==
    /\ s.maxReads = r.maxReads
    /\ s.size >= r.size
    /\ s.reading => r.reading
    /\ r.committed => s.committed

LEMMA SafeUpdates ==
    ASSUME NEW r \in Record, NEW part \in Nat
    PROVE  /\ SafeUpdate(r, r)
           /\ SafeUpdate(r, Grown(r, part))
           /\ SafeUpdate(r, Published(r))
           /\ SafeUpdate(r, Served(r))
           /\ SafeUpdate(r, Ended(r))
           /\ SafeUpdate(r, Ended(Served(r)))
           /\ SafeUpdate(r, [r EXCEPT !.reading = FALSE])
<1>1. SafeUpdate(r, r) /\ SafeUpdate(r, Published(r)) /\ SafeUpdate(r, Ended(r))
  BY DEF SafeUpdate, Published, Ended, Record
<1>2. SafeUpdate(r, Grown(r, part))
  BY DEF SafeUpdate, Grown, Record
<1>3. SafeUpdate(r, Served(r)) /\ SafeUpdate(r, [r EXCEPT !.reading = FALSE])
  BY DEF SafeUpdate, Served, Record
<1>4. SafeUpdate(r, Ended(Served(r)))
  BY DEF SafeUpdate, Served, Ended, Record
<1> QED BY <1>1, <1>2, <1>3, <1>4

LEMMA OfferFrame ==
    ASSUME TypeOK, OfferInv, NEW id \in Ids, NEW r \in Record, SafeUpdate(rec[id], r),
           rec' = [rec EXCEPT ![id] = r],
           \A i \in Ids : creation'[i] # "none" => creation[i] # "none",
           \A i \in Ids : queue'[i] = queue[i] \/ Grounded(queue'[i], rec[i])
    PROVE  OfferInv'
<1>0. /\ \A i \in Ids : rec[i] \in Record /\ rec'[i] \in Record
      /\ rec'[id] = r /\ \A i \in Ids \ {id} : rec'[i] = rec[i]
  BY DEF TypeOK
<1>1. \A i \in Ids : SafeUpdate(rec[i], rec'[i]) /\ rec[i] \in Record /\ rec'[i] \in Record
  BY <1>0, SafeUpdates
<1>2. \A i \in Ids : Grounded(queue'[i], rec[i])
  BY DEF OfferInv, OfferOf
<1>3. \A i \in Ids : rec[i].size \in Nat /\ rec'[i].size \in Nat
  BY <1>1 DEF Record
<1>4. \A i \in Ids : Grounded(queue'[i], rec'[i])
  BY <1>1, <1>2, <1>3 DEF Grounded, SafeUpdate
<1>5. \A i \in Ids : creation'[i] # "none" => rec'[i].maxReads > 0
  BY <1>1 DEF OfferInv, OfferOf, SafeUpdate
<1>6. \A i \in Ids : rec'[i].reading => rec'[i].committed
  BY <1>1 DEF OfferInv, OfferOf, SafeUpdate
<1> QED BY <1>4, <1>5, <1>6 DEF OfferInv, OfferOf

LEMMA OfferInit == Init => OfferInv
BY DEF Init, OfferInv, OfferOf, Grounded, Blank

LEMMA DestroyOffer ==
    ASSUME TypeOK, OfferInv, NEW id \in Ids,
           NEW r \in {rec[id], Served(rec[id])}, Destroy(id, r), UNCHANGED <<creation, queue>>
    PROVE  OfferInv'
<1>1. /\ rec[id] \in Record /\ Served(rec[id]) \in Record
      /\ Ended(rec[id]) \in Record /\ Ended(Served(rec[id])) \in Record
  BY ServedType, EndedType DEF TypeOK
<1>2. rec' = [rec EXCEPT ![id] = r] \/ rec' = [rec EXCEPT ![id] = Ended(r)]
  BY DEF Destroy
<1>3. /\ SafeUpdate(rec[id], r) /\ SafeUpdate(rec[id], Ended(r))
      /\ r \in Record /\ Ended(r) \in Record
  BY <1>1, SafeUpdates
<1> QED BY <1>2, <1>3, OfferFrame

LEMMA OfferStep ==
    ASSUME TypeInv, ReadInv, LifeInv, OfferInv, [Next]_vars
    PROVE  OfferInv'
<1>0. /\ TypeOK /\ LockOK /\ SavesInv
      /\ \A i \in Ids : LifeOf(i) /\ ReadInvOf(i) /\ OfferOf(i) /\ rec[i] \in Record
      /\ rec \in [Ids -> Record] /\ DOMAIN creation = Ids /\ byId \subseteq Ids
      /\ queue \in [Ids -> Seq(Call)]
  BY DEF TypeInv, TypeOK, LifeInv, ReadInv, OfferInv
<1> DEFINE Created == \A i \in Ids : creation'[i] # "none" => creation[i] # "none"
           Queues == \A i \in Ids : queue'[i] = queue[i] \/ Grounded(queue'[i], rec[i])
<1>1. ASSUME rec' = rec, Created, Queues
      PROVE  OfferInv'
  <2>1. \A i \in Ids : creation'[i] # "none" => rec[i].maxReads > 0
    BY <1>0, <1>1 DEF OfferOf
  <2>2. \A i \in Ids : Grounded(queue'[i], rec[i])
    BY <1>0, <1>1 DEF OfferOf
  <2> QED BY <1>0, <1>1, <2>1, <2>2 DEF OfferInv, OfferOf
<1>2. ASSUME NEW id \in Ids, NEW r \in Record, SafeUpdate(rec[id], r),
             rec' = [rec EXCEPT ![id] = r], creation' = creation, Queues
      PROVE  OfferInv'
  BY <1>0, <1>2, OfferFrame
<1>3. ASSUME NEW id \in Ids, NEW ip \in Ips, NEW code \in Codes, NEW n \in 1..MaxReadsLimit,
             CreateUpload(id, ip, code, n)
      PROVE  OfferInv'
  <2>1. /\ creation[id] = "none" /\ queue' = queue
        /\ rec' = [rec EXCEPT ![id] = [Blank EXCEPT !.code = code, !.owner = ip, !.maxReads = n]]
        /\ creation' = [creation EXCEPT ![id] = "blob"]
    BY <1>3 DEF CreateUpload, locks
  <2>2. queue[id] = <<>>
    BY <1>0, <2>1 DEF LifeOf
  <2>3. rec'[id].maxReads = n /\ ~rec'[id].reading
    BY <1>0, <2>1 DEF Blank
  <2>4. n > 0
    BY ConstAssumption
  <2>5. Grounded(queue'[id], rec'[id])
    BY <2>1, <2>2 DEF Grounded
  <2>6. OfferOf(id)'
    BY <2>3, <2>4, <2>5 DEF OfferOf
  <2>7. \A i \in Ids \ {id} : OfferOf(i)'
    BY <1>0, <2>1 DEF OfferOf
  <2> QED BY <2>6, <2>7 DEF OfferInv
<1>4. ASSUME NEW id \in Ids, CreateBlob(id) \/ CreateBlobFails(id)
      PROVE  OfferInv'
  <2>1. /\ creation[id] = "blob" /\ UNCHANGED <<rec, queue>>
        /\ \/ creation' = [creation EXCEPT ![id] = "meta"]
           \/ creation' = [creation EXCEPT ![id] = "failed"]
    BY <1>4 DEF CreateBlob, CreateBlobFails, locks
  <2> QED BY <1>0, <1>1, <2>1
<1>5. ASSUME NEW id \in Ids, queue[id] # <<>>, queue' = [queue EXCEPT ![id] = Tail(@)]
      PROVE  Queues
  BY <1>0, <1>5, TailGrounded DEF OfferOf
<1>6. ASSUME NEW s \in saves, SaveLands(s) \/ SaveFails(s)
      PROVE  OfferInv'
  <2>1. s.id \in Ids /\ rec' = rec
    BY <1>0, <1>6 DEF TypeOK, SaveCall, SaveLands, SaveFails, CreateDone, CreateFailed,
                      AppendSettled, OtherSettled
  <2>2. CASE s.by = "create"
    <3>1. /\ queue' = queue /\ creation[s.id] = "meta"
          /\ \/ creation' = [creation EXCEPT ![s.id] = "done"]
             \/ creation' = [creation EXCEPT ![s.id] = "failed"]
      BY <1>0, <1>6, <2>2 DEF SavesInv, SaveLands, SaveFails, CreateDone, CreateFailed,
                        AppendSettled, OtherSettled, locks
    <3> QED BY <1>0, <1>1, <2>1, <3>1
  <2>3. CASE s.by = "append"
    <3>1. queue' = [queue EXCEPT ![s.id] = Tail(@)] /\ creation' = creation
      BY <1>6, <2>3 DEF SaveLands, SaveFails, CreateDone, CreateFailed, AppendSettled,
                        OtherSettled
    <3>2. queue[s.id] # <<>>
      BY <1>0, <2>1, <2>3 DEF LockOK
    <3> QED BY <1>1, <1>5, <2>1, <3>1, <3>2
  <2>4. CASE s.by \notin {"create", "append"}
    BY <1>1, <1>6, <2>1, <2>4 DEF SaveLands, SaveFails, CreateDone, CreateFailed,
                        AppendSettled, OtherSettled, locks
  <2> QED BY <2>2, <2>3, <2>4
<1>7. ASSUME NEW id \in Ids, CommitUpload(id) \/ \E index \in 0..MaxFile : AppendPart(id, index)
      PROVE  OfferInv'
  <2>1. PICK e \in Call : /\ queue' = [queue EXCEPT ![id] = Append(@, e)]
                          /\ e.op = "commit" => rec[id].size > 0
    <3>1. CASE CommitUpload(id)
      <4>1. [op |-> "commit", index |-> 0] \in Call
        BY DEF Call
      <4> QED BY <3>1, <4>1 DEF CommitUpload
    <3>2. ASSUME NEW index \in 0..MaxFile, AppendPart(id, index)
          PROVE  \E e \in Call : /\ queue' = [queue EXCEPT ![id] = Append(@, e)]
                                 /\ e.op = "commit" => rec[id].size > 0
      <4>1. [op |-> "part", index |-> index] \in Call
        BY DEF Call
      <4> QED BY <3>2, <4>1 DEF AppendPart
    <3> QED BY <1>7, <3>1, <3>2
  <2>2. UNCHANGED <<rec, creation>>
    BY <1>7 DEF CommitUpload, AppendPart
  <2>3. Queues
    BY <1>0, <2>1, AppendGrounded DEF OfferOf
  <2> QED BY <1>1, <2>2, <2>3
<1>8. ASSUME NEW id \in Ids, \/ AppendRefused(id) \/ AppendThrows(id) \/ AppendWriteFails(id)
      PROVE  OfferInv'
  <2>1. UNCHANGED <<rec, creation>> /\ queue' = [queue EXCEPT ![id] = Tail(@)]
    BY <1>8 DEF AppendRefused, AppendThrows, AppendWriteFails
  <2>2. queue[id] # <<>>
    BY <1>0, <1>8 DEF AppendRefused, AppendThrows, AppendWriteFails, Turn, LockOK
  <2> QED BY <1>1, <1>5, <2>1, <2>2
<1>9. ASSUME NEW id \in Ids, AppendWrites(id)
      PROVE  OfferInv'
  <2>1. /\ rec' = [rec EXCEPT ![id] = Grown(rec[id], Head(queue[id]).index)]
        /\ UNCHANGED <<creation, queue>> /\ queue[id] # <<>>
    BY <1>0, <1>9 DEF AppendWrites, LockOK
  <2>2. queue[id] \in Seq(Call)
    BY <1>0
  <2>3. Head(queue[id]) \in Call
    BY <2>1, <2>2
  <2>4. Head(queue[id]).index \in Nat
    BY <2>3 DEF Call
  <2> QED BY <1>0, <1>2, <2>1, <2>4, GrownType, SafeUpdates
<1>10. ASSUME NEW id \in Ids, CommitRuns(id)
       PROVE  OfferInv'
  <2>1. /\ queue[id] # <<>> /\ queue' = [queue EXCEPT ![id] = Tail(@)] /\ creation' = creation
        /\ rec' = rec \/ rec' = [rec EXCEPT ![id] = Published(rec[id])]
    BY <1>10 DEF CommitRuns, Turn
  <2>2. Queues
    BY <1>5, <2>1
  <2> QED BY <1>0, <1>1, <1>2, <2>1, <2>2, PublishedType, SafeUpdates
<1>11. ASSUME NEW id \in Ids, Revoke(id) \/ AppendDestroys(id) \/ SweepDestroys(id)
       PROVE  OfferInv'
  BY <1>0, <1>11, DestroyOffer DEF Revoke, AppendDestroys, SweepDestroys, locks
<1>12. ASSUME NEW code \in Codes, BeginRead(code)
       PROVE  OfferInv'
  <2>1. PICK id \in Ids : /\ id = byCode[code] /\ rec[id].committed
                          /\ rec' = [rec EXCEPT ![id] = [rec[id] EXCEPT !.reading = TRUE]]
                          /\ UNCHANGED <<creation, queue>>
    BY <1>0, <1>12 DEF BeginRead, Peekable, locks
  <2>2. rec'[id] = [rec[id] EXCEPT !.reading = TRUE]
    BY <1>0, <2>1
  <2>3. /\ rec'[id].committed /\ rec'[id].maxReads = rec[id].maxReads
        /\ rec'[id].size = rec[id].size
    BY <1>0, <2>1, <2>2 DEF Record
  <2>4. OfferOf(id)'
    BY <1>0, <2>1, <2>3 DEF OfferOf, Grounded
  <2>5. \A i \in Ids \ {id} : OfferOf(i)'
    BY <1>0, <2>1 DEF OfferOf
  <2> QED BY <2>4, <2>5 DEF OfferInv
<1>13. ASSUME NEW id \in Ids, FinishShort(id)
       PROVE  OfferInv'
  <2>1. /\ rec' = [rec EXCEPT ![id] = [rec[id] EXCEPT !.reading = FALSE]]
        /\ UNCHANGED <<creation, queue>>
    BY <1>13 DEF FinishShort, locks
  <2> QED BY <1>0, <1>2, <2>1, SetReading, SafeUpdates
<1>14. ASSUME NEW id \in Ids, FinishComplete(id)
       PROVE  OfferInv'
  <2>1. UNCHANGED <<creation, queue>>
    BY <1>14 DEF FinishComplete, locks
  <2>2. CASE Destroy(id, Served(rec[id]))
    BY <1>0, <2>1, <2>2, DestroyOffer
  <2>3. CASE rec' = [rec EXCEPT ![id] = Served(rec[id])]
    BY <1>0, <1>2, <2>1, <2>3, ServedType, SafeUpdates
  <2> QED BY <1>14, <2>2, <2>3 DEF FinishComplete
<1>15. ASSUME \/ \E id \in Ids :
                     \/ AppendStarts(id) \/ Remove(id) \/ RemoveFails(id)
                     \/ OpenBlob(id) \/ SweepSkips(id) \/ GrowOlder(id)
              \/ \E code \in LiveCodes : LiveCode(code)
              \/ SweepStart \/ UNCHANGED vars
       PROVE  OfferInv'
  <2>1. UNCHANGED <<rec, creation, queue>>
    BY <1>15 DEF AppendStarts, Remove, RemoveFails, OpenBlob, SweepSkips, GrowOlder,
                 LiveCode, SweepStart, vars, locks
  <2> QED BY <1>1, <2>1
<1> QED BY <1>3, <1>4, <1>6, <1>7, <1>8, <1>9, <1>10, <1>11, <1>12, <1>13, <1>14, <1>15, Steps

LEMMA PromiseInv == Spec => [](TypeInv /\ ReadInv /\ LifeInv /\ UploadInv /\ OfferInv)
<1>1. TypeInv /\ ReadInv /\ LifeInv /\ OfferInv /\ [Next]_vars => OfferInv'
  BY OfferStep
<1> QED BY <1>1, OfferInit, AllInv, PTL DEF Spec

----------------------------------------------------------------------------
(* Readers *)

\* The steps that end a record, and what they leave of its downloads.
LEMMA Endings ==
    ASSUME TypeInv, LifeInv, [Next]_vars, NEW id \in Ids,
           ~rec[id].deleted, rec'[id].deleted
    PROVE  \/ Revoke(id)
           \/ AppendDestroys(id)
           \/ SweepDestroys(id)
           \/ FinishComplete(id)
<1>0. /\ TypeOK /\ LifeOf(id) /\ rec \in [Ids -> Record] /\ rec[id] \in Record
  BY DEF TypeInv, TypeOK, LifeInv
<1>1. ASSUME NEW i \in Ids, NEW r, Destroy(i, r), i # id
      PROVE  FALSE
  <2>1. rec'[id] = rec[id]
    BY <1>0, <1>1 DEF Destroy
  <2> QED BY <2>1
<1>2. ASSUME NEW i \in Ids, NEW r, rec' = [rec EXCEPT ![i] = r], i # id
      PROVE  FALSE
  BY <1>0, <1>2
<1>3. ASSUME NEW r, rec' = [rec EXCEPT ![id] = r], r.deleted = rec[id].deleted
      PROVE  FALSE
  BY <1>0, <1>3
<1>4. ASSUME NEW i \in Ids, NEW ip \in Ips, NEW code \in Codes, NEW n \in 1..MaxReadsLimit,
             CreateUpload(i, ip, code, n)
      PROVE  FALSE
  <2> DEFINE new == [Blank EXCEPT !.code = code, !.owner = ip, !.maxReads = n]
  <2>1. rec' = [rec EXCEPT ![i] = new]
    BY <1>4 DEF CreateUpload
  <2>2. new.deleted = FALSE
    BY DEF Blank
  <2> QED BY <1>0, <2>1, <2>2
<1>5. ASSUME NEW i \in Ids, AppendWrites(i)
      PROVE  FALSE
  <2>1. rec' = [rec EXCEPT ![i] = Grown(rec[i], Head(queue[i]).index)]
    BY <1>5 DEF AppendWrites
  <2>2. Grown(rec[id], Head(queue[id]).index).deleted = rec[id].deleted
    BY <1>0 DEF Grown, Record
  <2> QED BY <1>2, <1>3, <2>1, <2>2
<1>6. ASSUME NEW i \in Ids, CommitRuns(i)
      PROVE  FALSE
  <2>1. rec' = rec \/ rec' = [rec EXCEPT ![i] = Published(rec[i])]
    BY <1>6 DEF CommitRuns
  <2>2. Published(rec[id]).deleted = rec[id].deleted
    BY <1>0 DEF Published, Record
  <2> QED BY <1>2, <1>3, <2>1, <2>2
<1>7. ASSUME NEW i \in Ids, Revoke(i) \/ AppendDestroys(i) \/ SweepDestroys(i)
      PROVE  i = id
  BY <1>1, <1>7 DEF Revoke, AppendDestroys, SweepDestroys
<1>8. ASSUME NEW code \in Codes, BeginRead(code)
      PROVE  FALSE
  <2>1. PICK i \in Ids : rec' = [rec EXCEPT ![i] = [rec[i] EXCEPT !.reading = TRUE]]
    BY <1>0, <1>8 DEF BeginRead, TypeOK
  <2>2. [rec[id] EXCEPT !.reading = TRUE].deleted = rec[id].deleted
    BY <1>0 DEF Record
  <2> QED BY <1>2, <1>3, <2>1, <2>2
<1>9. ASSUME NEW i \in Ids, FinishShort(i)
      PROVE  FALSE
  <2>1. rec' = [rec EXCEPT ![i] = [rec[i] EXCEPT !.reading = FALSE]]
    BY <1>9 DEF FinishShort
  <2>2. [rec[id] EXCEPT !.reading = FALSE].deleted = rec[id].deleted
    BY <1>0 DEF Record
  <2> QED BY <1>2, <1>3, <2>1, <2>2
<1>10. ASSUME NEW i \in Ids, FinishComplete(i)
       PROVE  i = id
  BY <1>1, <1>2, <1>10 DEF FinishComplete
<1>11. ASSUME \/ \E i \in Ids :
                     \/ CommitUpload(i) \/ \E index \in 0..MaxFile : AppendPart(i, index)
                     \/ CreateBlob(i) \/ CreateBlobFails(i)
                     \/ AppendRefused(i) \/ AppendThrows(i) \/ AppendWriteFails(i)
                     \/ AppendStarts(i) \/ Remove(i) \/ RemoveFails(i)
                     \/ OpenBlob(i) \/ SweepSkips(i) \/ GrowOlder(i)
              \/ \E s \in saves : SaveLands(s) \/ SaveFails(s)
              \/ \E code \in LiveCodes : LiveCode(code)
              \/ SweepStart \/ UNCHANGED vars
       PROVE  FALSE
  <2>1. rec' = rec
    BY <1>11 DEF CommitUpload, AppendPart, CreateBlob, CreateBlobFails, AppendRefused,
                 AppendThrows, AppendWriteFails, AppendStarts, Remove, RemoveFails, OpenBlob,
                 SweepSkips, GrowOlder, SaveLands, SaveFails, CreateDone, CreateFailed,
                 AppendSettled, OtherSettled, LiveCode, SweepStart, vars
  <2> QED BY <2>1
<1> QED BY <1>4, <1>5, <1>6, <1>7, <1>8, <1>9, <1>10, <1>11, Steps

\* What ReaderUndisturbed says of one record.
Undisturbed(id) ==
    streams'[id] # [opening |-> 0, whole |-> 0] /\ ~rec[id].deleted /\ rec'[id].deleted
        => Revoke(id)

LEMMA NoReaderLeft ==
    ASSUME TypeInv, ReadInv, LifeInv, OfferInv, [Next]_vars, NEW id \in Ids
    PROVE  Undisturbed(id)
<1> SUFFICES ASSUME ~rec[id].deleted, rec'[id].deleted, ~Revoke(id)
             PROVE  streams'[id] = [opening |-> 0, whole |-> 0]
  BY DEF Undisturbed
<1>0. /\ ReadInvOf(id) /\ OfferOf(id)
      /\ streams \in [Ids -> [opening : Nat, whole : Nat]]
      /\ streams[id] \in [opening : Nat, whole : Nat]
  BY DEF TypeInv, TypeOK, ReadInv, OfferInv
<1>1. ASSUME NEW s \in [opening : Nat, whole : Nat], s.opening + s.whole = 0
      PROVE  s = [opening |-> 0, whole |-> 0]
  <2>1. s.opening = 0 /\ s.whole = 0
    BY <1>1
  <2> QED BY <2>1
<1>2. ASSUME ~rec[id].reading, streams' = streams
      PROVE  streams'[id] = [opening |-> 0, whole |-> 0]
  <2>1. streams[id].opening + streams[id].whole = 0
    BY <1>0, <1>2 DEF ReadInvOf, ReaderOf
  <2> QED BY <1>0, <1>1, <1>2, <2>1
<1>3. CASE AppendDestroys(id)
  <2>1. ~rec[id].committed /\ streams' = streams
    BY <1>3 DEF AppendDestroys, Refused
  <2> QED BY <1>0, <1>2, <2>1 DEF OfferOf
<1>4. CASE SweepDestroys(id)
  BY <1>2, <1>4 DEF SweepDestroys, Sweepable
<1>5. CASE FinishComplete(id)
  <2>1. /\ streams[id].whole > 0
        /\ streams' = [streams EXCEPT ![id].whole = @ - 1]
    BY <1>5 DEF FinishComplete
  <2>2. streams[id].opening \in Nat /\ streams[id].whole \in Nat
    BY <1>0
  <2>3. streams[id].opening + streams[id].whole \in {0, 1}
    BY <1>0 DEF ReadInvOf, ReaderOf
  <2>4. streams[id].opening = 0 /\ streams[id].whole = 1
    BY <2>1, <2>2, <2>3
  <2>5. streams'[id] = [streams[id] EXCEPT !.whole = 0]
    BY <1>0, <2>1, <2>4
  <2> QED BY <1>0, <2>4, <2>5
<1> QED BY <1>3, <1>4, <1>5, Endings

\* Nothing but a revocation takes a transfer away from someone who is reading it:
\* the sweeper passes it over, an append that outgrows its limits finds it
\* published, and the delivery that spends the budget is the only one under way
\* (sweep, appendPartLocked and finish).
THEOREM ReadersAreUndisturbed == Spec => ReaderUndisturbed
<1>1. ASSUME TypeInv, ReadInv, LifeInv, OfferInv, [Next]_vars
      PROVE  \A id \in Ids : Undisturbed(id)
  BY <1>1, NoReaderLeft
<1>2. TypeInv /\ ReadInv /\ LifeInv /\ OfferInv /\ [Next]_vars
          => [\A id \in Ids : Undisturbed(id)]_vars
  BY <1>1
<1>3. Spec => [][\A id \in Ids : Undisturbed(id)]_vars
  BY <1>2, PromiseInv, PTL DEF Spec
<1> QED BY <1>3 DEF ReaderUndisturbed, Undisturbed

----------------------------------------------------------------------------
(* The transfers of module Transfer *)

\* What module Transfer sees of a record besides its phase.
Held(id) == IF id \in byId THEN rec[id].size ELSE 0
Allowed(id) == IF Phase(id) = "absent" THEN 0 ELSE rec[id].maxReads
Readers(id) == streams[id].opening + streams[id].whole

\* A step that module Transfer does not see in record id.
Quiet(id) ==
    /\ Phase(id)' = Phase(id)
    /\ Held(id)' = Held(id)
    /\ Allowed(id)' = Allowed(id)
    /\ Readers(id)' = Readers(id)
    /\ delivered'[id] = delivered[id]

\* What a record must keep for that.
LEMMA QuietFrame ==
    ASSUME NEW id, id \in byId' <=> id \in byId,
           rec'[id].committed = rec[id].committed,
           rec'[id].deleted = rec[id].deleted,
           rec'[id].maxReads = rec[id].maxReads,
           id \in byId => rec'[id].size = rec[id].size,
           Readers(id)' = Readers(id), delivered'[id] = delivered[id]
    PROVE  Quiet(id)
BY DEF Quiet, Phase, Held, Allowed

LEMMA Stutters ==
    ASSUME delivered \in [Ids -> Nat], delivered' \in [Ids -> Nat],
           \A i \in Ids : Quiet(i)
    PROVE  UNCHANGED Promise!vars
<1>1. [i \in Ids |-> Phase(i)]' = [i \in Ids |-> Phase(i)]
  BY DEF Quiet
<1>2. [i \in Ids |-> Held(i)]' = [i \in Ids |-> Held(i)]
  BY DEF Quiet
<1>3. [i \in Ids |-> Allowed(i)]' = [i \in Ids |-> Allowed(i)]
  BY DEF Quiet
<1>4. [i \in Ids |-> Readers(i)]' = [i \in Ids |-> Readers(i)]
  BY DEF Quiet
<1>5. delivered' = delivered
  BY DEF Quiet
<1> QED BY <1>1, <1>2, <1>3, <1>4, <1>5 DEF Promise!vars, Held, Allowed, Readers

\* A step that module Transfer sees in record id alone.
LEMMA OneMoves ==
    ASSUME delivered \in [Ids -> Nat], delivered' \in [Ids -> Nat],
           NEW id \in Ids, \A i \in Ids \ {id} : Quiet(i)
    PROVE  /\ [i \in Ids |-> Phase(i)]' = [[i \in Ids |-> Phase(i)] EXCEPT ![id] = Phase(id)']
           /\ [i \in Ids |-> Held(i)]' = [[i \in Ids |-> Held(i)] EXCEPT ![id] = Held(id)']
           /\ [i \in Ids |-> Allowed(i)]' = [[i \in Ids |-> Allowed(i)] EXCEPT ![id] = Allowed(id)']
           /\ [i \in Ids |-> Readers(i)]' = [[i \in Ids |-> Readers(i)] EXCEPT ![id] = Readers(id)']
           /\ delivered' = [delivered EXCEPT ![id] = delivered'[id]]
<1>1. [i \in Ids |-> Phase(i)]' = [[i \in Ids |-> Phase(i)] EXCEPT ![id] = Phase(id)']
  BY DEF Quiet
<1>2. [i \in Ids |-> Held(i)]' = [[i \in Ids |-> Held(i)] EXCEPT ![id] = Held(id)']
  BY DEF Quiet
<1>3. [i \in Ids |-> Allowed(i)]' = [[i \in Ids |-> Allowed(i)] EXCEPT ![id] = Allowed(id)']
  BY DEF Quiet
<1>4. [i \in Ids |-> Readers(i)]' = [[i \in Ids |-> Readers(i)] EXCEPT ![id] = Readers(id)']
  BY DEF Quiet
<1>5. delivered' = [delivered EXCEPT ![id] = delivered'[id]]
  BY DEF Quiet
<1> QED BY <1>1, <1>2, <1>3, <1>4, <1>5

\* Only one record moves, and its counts of deliveries are numbers.
Alone(id) ==
    /\ delivered \in [Ids -> Nat] /\ delivered' \in [Ids -> Nat]
    /\ \A i \in Ids \ {id} : Quiet(i)

\* Fields of record id that module Transfer sees unchanged.
KeepsPhase(id) == Phase(id)' = Phase(id)
KeepsHeld(id) == Held(id)' = Held(id)
KeepsAllowed(id) == Allowed(id)' = Allowed(id)
KeepsReaders(id) == Readers(id)' = Readers(id) /\ delivered'[id] = delivered[id]

LEMMA Keeping ==
    ASSUME NEW id \in Ids, Alone(id)
    PROVE  /\ KeepsPhase(id) => [i \in Ids |-> Phase(i)]' = [i \in Ids |-> Phase(i)]
           /\ KeepsHeld(id) => [i \in Ids |-> Held(i)]' = [i \in Ids |-> Held(i)]
           /\ KeepsAllowed(id) => [i \in Ids |-> Allowed(i)]' = [i \in Ids |-> Allowed(i)]
           /\ KeepsReaders(id) => /\ [i \in Ids |-> Readers(i)]' = [i \in Ids |-> Readers(i)]
                                  /\ delivered' = delivered
<1>1. KeepsPhase(id) => \A i \in Ids : Phase(i)' = Phase(i)
  BY DEF Alone, KeepsPhase, Quiet
<1>2. KeepsHeld(id) => \A i \in Ids : Held(i)' = Held(i)
  BY DEF Alone, KeepsHeld, Quiet
<1>3. KeepsAllowed(id) => \A i \in Ids : Allowed(i)' = Allowed(i)
  BY DEF Alone, KeepsAllowed, Quiet
<1>4. KeepsReaders(id) => \A i \in Ids : Readers(i)' = Readers(i)
  BY DEF Alone, KeepsReaders, Quiet
<1>5. KeepsReaders(id) => delivered' = delivered
  BY DEF Alone, KeepsReaders, Quiet
<1> QED BY <1>1, <1>2, <1>3, <1>4, <1>5

LEMMA Offers ==
    ASSUME NEW id \in Ids, Alone(id), KeepsHeld(id), KeepsReaders(id),
           Phase(id) = "absent", Phase(id)' = "uploading", Allowed(id)' \in Nat \ {0}
    PROVE  Promise!Offer(id)
<1>1. /\ [i \in Ids |-> Phase(i)]' = [[i \in Ids |-> Phase(i)] EXCEPT ![id] = Phase(id)']
      /\ [i \in Ids |-> Allowed(i)]' = [[i \in Ids |-> Allowed(i)] EXCEPT ![id] = Allowed(id)']
  BY OneMoves DEF Alone
<1>2. /\ [i \in Ids |-> Held(i)]' = [i \in Ids |-> Held(i)]
      /\ [i \in Ids |-> Readers(i)]' = [i \in Ids |-> Readers(i)]
      /\ delivered' = delivered
  BY Keeping
<1> QED BY <1>1, <1>2 DEF Promise!Offer, Held, Allowed, Readers

LEMMA Extends ==
    ASSUME NEW id \in Ids, Alone(id), KeepsPhase(id), KeepsAllowed(id), KeepsReaders(id),
           Phase(id) = "uploading", Held(id)' = Held(id) + 1
    PROVE  Promise!Extend(id)
<1>1. [i \in Ids |-> Held(i)]' = [[i \in Ids |-> Held(i)] EXCEPT ![id] = Held(id)']
  BY OneMoves DEF Alone
<1>2. /\ [i \in Ids |-> Phase(i)]' = [i \in Ids |-> Phase(i)]
      /\ [i \in Ids |-> Allowed(i)]' = [i \in Ids |-> Allowed(i)]
      /\ [i \in Ids |-> Readers(i)]' = [i \in Ids |-> Readers(i)]
      /\ delivered' = delivered
  BY Keeping
<1> QED BY <1>1, <1>2 DEF Promise!Extend, Held, Allowed, Readers

LEMMA Publishes ==
    ASSUME NEW id \in Ids, Alone(id), KeepsHeld(id), KeepsAllowed(id), KeepsReaders(id),
           Phase(id) = "uploading", Held(id) > 0, Phase(id)' = "ready"
    PROVE  Promise!Publish(id)
<1>1. [i \in Ids |-> Phase(i)]' = [[i \in Ids |-> Phase(i)] EXCEPT ![id] = Phase(id)']
  BY OneMoves DEF Alone
<1>2. /\ [i \in Ids |-> Held(i)]' = [i \in Ids |-> Held(i)]
      /\ [i \in Ids |-> Allowed(i)]' = [i \in Ids |-> Allowed(i)]
      /\ [i \in Ids |-> Readers(i)]' = [i \in Ids |-> Readers(i)]
      /\ delivered' = delivered
  BY Keeping
<1> QED BY <1>1, <1>2 DEF Promise!Publish, Held, Allowed, Readers

LEMMA Opens ==
    ASSUME NEW id \in Ids, Alone(id), KeepsPhase(id), KeepsHeld(id), KeepsAllowed(id),
           Phase(id) = "ready", Readers(id) = 0, delivered[id] < Allowed(id),
           Readers(id)' = 1, delivered'[id] = delivered[id]
    PROVE  Promise!Open(id)
<1>1. [i \in Ids |-> Readers(i)]' = [[i \in Ids |-> Readers(i)] EXCEPT ![id] = Readers(id)']
  BY OneMoves DEF Alone
<1>2. /\ [i \in Ids |-> Phase(i)]' = [i \in Ids |-> Phase(i)]
      /\ [i \in Ids |-> Held(i)]' = [i \in Ids |-> Held(i)]
      /\ [i \in Ids |-> Allowed(i)]' = [i \in Ids |-> Allowed(i)]
      /\ delivered' = delivered
  BY Keeping, OneMoves DEF Alone, Quiet
<1> QED BY <1>1, <1>2 DEF Promise!Open, Held, Allowed, Readers

LEMMA Abandons ==
    ASSUME NEW id \in Ids, Alone(id), KeepsPhase(id), KeepsHeld(id), KeepsAllowed(id),
           Readers(id) = 1, Readers(id)' = 0, delivered'[id] = delivered[id]
    PROVE  Promise!Abandon(id)
<1>1. [i \in Ids |-> Readers(i)]' = [[i \in Ids |-> Readers(i)] EXCEPT ![id] = Readers(id)']
  BY OneMoves DEF Alone
<1>2. /\ [i \in Ids |-> Phase(i)]' = [i \in Ids |-> Phase(i)]
      /\ [i \in Ids |-> Held(i)]' = [i \in Ids |-> Held(i)]
      /\ [i \in Ids |-> Allowed(i)]' = [i \in Ids |-> Allowed(i)]
      /\ delivered' = delivered
  BY Keeping, OneMoves DEF Alone, Quiet
<1> QED BY <1>1, <1>2 DEF Promise!Abandon, Held, Allowed, Readers

LEMMA Retires ==
    ASSUME NEW id \in Ids, Alone(id), KeepsAllowed(id), KeepsReaders(id),
           Phase(id) \in {"uploading", "ready"}, Phase(id)' = "over", Held(id)' = 0
    PROVE  Promise!Retire(id)
<1>1. /\ [i \in Ids |-> Phase(i)]' = [[i \in Ids |-> Phase(i)] EXCEPT ![id] = Phase(id)']
      /\ [i \in Ids |-> Held(i)]' = [[i \in Ids |-> Held(i)] EXCEPT ![id] = Held(id)']
  BY OneMoves DEF Alone
<1>2. /\ [i \in Ids |-> Allowed(i)]' = [i \in Ids |-> Allowed(i)]
      /\ [i \in Ids |-> Readers(i)]' = [i \in Ids |-> Readers(i)]
      /\ delivered' = delivered
  BY Keeping
<1> QED BY <1>1, <1>2 DEF Promise!Retire, Held, Allowed, Readers

LEMMA Delivers ==
    ASSUME NEW id \in Ids, Alone(id), KeepsAllowed(id),
           Readers(id) = 1, Readers(id)' = 0, delivered'[id] = delivered[id] + 1,
           IF delivered[id] + 1 = Allowed(id)
           THEN Phase(id)' = "over" /\ Held(id)' = 0
           ELSE KeepsPhase(id) /\ KeepsHeld(id)
    PROVE  Promise!Deliver(id)
<1>1. /\ [i \in Ids |-> Readers(i)]' = [[i \in Ids |-> Readers(i)] EXCEPT ![id] = Readers(id)']
      /\ [i \in Ids |-> Phase(i)]' = [[i \in Ids |-> Phase(i)] EXCEPT ![id] = Phase(id)']
      /\ [i \in Ids |-> Held(i)]' = [[i \in Ids |-> Held(i)] EXCEPT ![id] = Held(id)']
      /\ delivered' = [delivered EXCEPT ![id] = delivered'[id]]
  BY OneMoves DEF Alone
<1>2. [i \in Ids |-> Allowed(i)]' = [i \in Ids |-> Allowed(i)]
  BY Keeping
<1>3. CASE delivered[id] + 1 = Allowed(id)
  BY <1>1, <1>2, <1>3 DEF Promise!Deliver, Held, Allowed, Readers
<1>4. CASE delivered[id] + 1 # Allowed(id)
  <2>1. /\ [i \in Ids |-> Phase(i)]' = [i \in Ids |-> Phase(i)]
        /\ [i \in Ids |-> Held(i)]' = [i \in Ids |-> Held(i)]
    BY <1>4, Keeping
  <2> QED BY <1>1, <1>2, <1>4, <2>1 DEF Promise!Deliver, Held, Allowed, Readers
<1> QED BY <1>3, <1>4

\* A record outside of a step is quiet in it.
LEMMA Untouched ==
    ASSUME NEW id, id \in byId' <=> id \in byId, rec'[id] = rec[id],
           streams'[id] = streams[id], delivered'[id] = delivered[id]
    PROVE  Quiet(id)
<1>1. Readers(id)' = Readers(id)
  BY DEF Readers
<1> QED BY <1>1, QuietFrame

LEMMA DestroyRetires ==
    ASSUME TypeOK, TypeOK', LifeInv, NEW id \in Ids, creation[id] = "done",
           Destroy(id, rec[id]), UNCHANGED <<creation, streams, delivered>>
    PROVE  (\A i \in Ids : Quiet(i)) \/ Promise!Retire(id)
<1>0. /\ rec \in [Ids -> Record] /\ rec[id] \in Record /\ LifeOf(id) /\ byId \subseteq Ids
      /\ delivered \in [Ids -> Nat] /\ delivered' \in [Ids -> Nat]
  BY DEF TypeOK, LifeInv
<1>1. CASE rec[id].deleted
  <2>1. rec' = [rec EXCEPT ![id] = rec[id]] /\ byId' = byId
    BY <1>1 DEF Destroy, Destroyed, maps
  <2>2. rec' = rec
    BY <1>0, <2>1
  <2> QED BY <2>1, <2>2, Untouched
<1>2. CASE ~rec[id].deleted
  <2>1. rec' = [rec EXCEPT ![id] = Ended(rec[id])] /\ byId' = byId \ {id}
    BY <1>2 DEF Destroy, Destroyed
  <2>2. id \in byId
    BY <1>0, <1>2 DEF LifeOf
  <2>3. \A i \in Ids \ {id} : Quiet(i)
    BY <1>0, <2>1, Untouched
  <2>4. rec'[id] = Ended(rec[id])
    BY <1>0, <2>1
  <2>5. rec'[id].deleted = TRUE /\ rec'[id].maxReads = rec[id].maxReads
    BY <1>0, <2>4 DEF Ended, Record
  <2>6. Phase(id) \in {"uploading", "ready"} /\ Phase(id)' = "over" /\ Held(id)' = 0
    BY <2>1, <2>2, <2>5 DEF Phase, Held
  <2>7. KeepsAllowed(id)
    BY <2>5, <2>6 DEF KeepsAllowed, Allowed
  <2>8. KeepsReaders(id)
    BY DEF KeepsReaders, Readers
  <2>9. Alone(id)
    BY <1>0, <2>3 DEF Alone
  <2> QED BY <2>6, <2>7, <2>8, <2>9, Retires
<1> QED BY <1>1, <1>2

LEMMA CompleteDelivers ==
    ASSUME TypeInv, TypeOK', ReadInv, LifeInv, NEW id \in Ids, FinishComplete(id)
    PROVE  Promise!Deliver(id)
<1>0. /\ rec \in [Ids -> Record] /\ rec[id] \in Record /\ LifeOf(id) /\ ReadInvOf(id)
      /\ byId \subseteq Ids /\ delivered \in [Ids -> Nat] /\ delivered' \in [Ids -> Nat]
      /\ streams \in [Ids -> [opening : Nat, whole : Nat]]
  BY DEF TypeInv, TypeOK, LifeInv, ReadInv
<1> DEFINE r == Served(rec[id])
<1>1. /\ streams[id].whole > 0
      /\ streams' = [streams EXCEPT ![id].whole = @ - 1]
      /\ delivered' = [delivered EXCEPT ![id] = @ + 1]
  BY DEF FinishComplete
<1>2. streams[id].opening \in Nat /\ streams[id].whole \in Nat
  BY <1>0
<1>3. Readers(id) = 1 /\ rec[id].reading
  BY <1>0, <1>1, <1>2 DEF ReadInvOf, ReaderOf, Readers
<1>4. Readers(id)' = 0
  <2>1. streams'[id] = [streams[id] EXCEPT !.whole = streams[id].whole - 1]
    BY <1>0, <1>1
  <2>2. /\ streams'[id].opening = streams[id].opening
        /\ streams'[id].whole = streams[id].whole - 1
    BY <1>0, <2>1
  <2> QED BY <1>2, <1>3, <2>2 DEF Readers
<1>5. creation[id] = "done"
  BY <1>0, <1>3 DEF LifeOf
<1>6. /\ r \in Record /\ r.deleted = rec[id].deleted /\ r.committed = rec[id].committed
      /\ r.maxReads = rec[id].maxReads /\ r.size = rec[id].size
      /\ r.reads = rec[id].reads + 1
  BY <1>0, ServedType DEF Served, Record
<1>7. Exhausted(r) <=> delivered[id] + 1 = rec[id].maxReads
  <2>1. rec[id].reads \in Nat /\ rec[id].maxReads \in Nat
    BY <1>0 DEF Record
  <2> QED BY <1>0, <1>3, <1>6, <2>1 DEF Exhausted, ReadInvOf, ReaderOf
<1>8. Phase(id) # "absent"
  BY <1>0, <1>5 DEF Phase, LifeOf
<1>9. Allowed(id) = rec[id].maxReads
  BY <1>8 DEF Allowed
<1>10. delivered'[id] = delivered[id] + 1 /\ \A i \in Ids \ {id} : delivered'[i] = delivered[i]
  BY <1>0, <1>1
<1>11. \A i \in Ids \ {id} : streams'[i] = streams[i]
  BY <1>0, <1>1
<1>12. CASE Exhausted(r)
  <2>1. Destroy(id, r)
    BY <1>12 DEF FinishComplete
  <2>2. CASE r.deleted
    <3>1. rec' = [rec EXCEPT ![id] = r] /\ byId' = byId
      BY <2>1, <2>2 DEF Destroy, Destroyed, maps
    <3>2. id \notin byId
      BY <1>0, <1>5, <1>6, <2>2 DEF LifeOf
    <3>3. rec'[id] = r /\ \A i \in Ids \ {id} : rec'[i] = rec[i]
      BY <1>0, <3>1
    <3>4. Phase(id)' = "over" /\ Held(id)' = 0
      BY <2>2, <3>1, <3>2, <3>3 DEF Phase, Held
    <3>5. KeepsAllowed(id)
      BY <1>6, <1>9, <3>3, <3>4 DEF KeepsAllowed, Allowed
    <3>6. Alone(id)
      BY <1>0, <1>10, <1>11, <3>1, <3>3, Untouched DEF Alone
    <3> QED BY <1>3, <1>4, <1>7, <1>9, <1>10, <1>12, <3>4, <3>5, <3>6, Delivers
  <2>3. CASE ~r.deleted
    <3>1. rec' = [rec EXCEPT ![id] = Ended(r)] /\ byId' = byId \ {id}
      BY <2>1, <2>3 DEF Destroy, Destroyed
    <3>2. rec'[id] = Ended(r) /\ \A i \in Ids \ {id} : rec'[i] = rec[i]
      BY <1>0, <3>1
    <3>3. Ended(r).deleted = TRUE /\ Ended(r).maxReads = r.maxReads
      BY <1>6 DEF Ended, Record
    <3>4. Phase(id)' = "over" /\ Held(id)' = 0
      BY <3>1, <3>2, <3>3 DEF Phase, Held
    <3>5. KeepsAllowed(id)
      BY <1>6, <1>9, <3>2, <3>3, <3>4 DEF KeepsAllowed, Allowed
    <3>6. Alone(id)
      BY <1>0, <1>10, <1>11, <3>1, <3>2, Untouched DEF Alone
    <3> QED BY <1>3, <1>4, <1>7, <1>9, <1>10, <1>12, <3>4, <3>5, <3>6, Delivers
  <2> QED BY <2>2, <2>3
<1>13. CASE ~Exhausted(r)
  <2>1. rec' = [rec EXCEPT ![id] = r] /\ byId' = byId
    BY <1>13 DEF FinishComplete, maps
  <2>2. rec'[id] = r /\ \A i \in Ids \ {id} : rec'[i] = rec[i]
    BY <1>0, <2>1
  <2>3. KeepsPhase(id) /\ KeepsHeld(id) /\ KeepsAllowed(id)
    BY <1>6, <2>1, <2>2 DEF KeepsPhase, KeepsHeld, KeepsAllowed, Phase, Held, Allowed
  <2>4. Alone(id)
    BY <1>0, <1>10, <1>11, <2>1, <2>2, Untouched DEF Alone
  <2> QED BY <1>3, <1>4, <1>7, <1>9, <1>10, <1>13, <2>3, <2>4, Delivers
<1> QED BY <1>12, <1>13

\* Every step of the store is a step of module Transfer, or none of its business.
LEMMA PromiseStep ==
    ASSUME TypeInv, TypeOK', ReadInv, LifeInv, UploadInv, OfferInv, [Next]_vars
    PROVE  [Promise!Next]_(Promise!vars)
<1>0. /\ TypeOK /\ LockOK /\ SavesInv
      /\ \A i \in Ids : LifeOf(i) /\ ReadInvOf(i) /\ UploadOf(i) /\ OfferOf(i)
      /\ \A i \in Ids : rec[i] \in Record
      /\ rec \in [Ids -> Record] /\ byId \subseteq Ids
      /\ queue \in [Ids -> Seq(Call)]
      /\ streams \in [Ids -> [opening : Nat, whole : Nat]]
      /\ delivered \in [Ids -> Nat] /\ delivered' \in [Ids -> Nat]
  BY DEF TypeInv, TypeOK, LifeInv, ReadInv, UploadInv, OfferInv
<1>1. ASSUME \A i \in Ids : Quiet(i)
      PROVE  [Promise!Next]_(Promise!vars)
  BY <1>0, <1>1, Stutters
<1>2. ASSUME NEW id \in Ids,
             \/ Promise!Offer(id) \/ Promise!Extend(id) \/ Promise!Publish(id)
             \/ Promise!Open(id) \/ Promise!Abandon(id) \/ Promise!Deliver(id)
             \/ Promise!Retire(id)
      PROVE  [Promise!Next]_(Promise!vars)
  BY <1>2 DEF Promise!Next
<1>3. ASSUME NEW id \in Ids, NEW ip \in Ips, NEW code \in Codes, NEW n \in 1..MaxReadsLimit,
             CreateUpload(id, ip, code, n)
      PROVE  [Promise!Next]_(Promise!vars)
  <2>1. /\ creation[id] = "none" /\ UNCHANGED <<byId, streams, delivered>>
        /\ rec' = [rec EXCEPT ![id] = [Blank EXCEPT !.code = code, !.owner = ip, !.maxReads = n]]
    BY <1>3 DEF CreateUpload, others, env
  <2>2. id \notin byId /\ ~rec[id].deleted
    BY <1>0, <2>1 DEF LifeOf
  <2>3. rec'[id].deleted = FALSE
    BY <1>0, <2>1 DEF Blank
  <2>4. Quiet(id)
    BY <2>1, <2>2, <2>3 DEF Quiet, Phase, Held, Allowed, Readers
  <2>5. \A i \in Ids \ {id} : Quiet(i)
    BY <1>0, <2>1, Untouched
  <2> QED BY <1>1, <2>4, <2>5
<1>4. ASSUME NEW s \in saves, s.by = "create", SaveLands(s)
      PROVE  [Promise!Next]_(Promise!vars)
  <2>1. /\ byId' = byId \cup {s.id} /\ UNCHANGED <<rec, streams, delivered>>
    BY <1>4 DEF SaveLands, CreateDone, AppendSettled, OtherSettled, others, env
  <2>2. s.id \in Ids /\ creation[s.id] = "meta"
    BY <1>0, <1>4 DEF SavesInv, TypeOK, SaveCall
  <2>3. /\ s.id \notin byId /\ ~rec[s.id].deleted /\ ~rec[s.id].committed
        /\ rec[s.id].size = 0 /\ rec[s.id].maxReads > 0 /\ rec[s.id].maxReads \in Nat
    BY <1>0, <2>2 DEF LifeOf, OfferOf, Record
  <2>4. /\ Phase(s.id) = "absent" /\ Phase(s.id)' = "uploading"
        /\ Allowed(s.id)' \in Nat \ {0}
    BY <2>1, <2>3 DEF Phase, Allowed
  <2>5. KeepsHeld(s.id) /\ KeepsReaders(s.id)
    BY <2>1, <2>3 DEF KeepsHeld, KeepsReaders, Held, Readers
  <2>6. Alone(s.id)
    BY <1>0, <2>1, Untouched DEF Alone
  <2> QED BY <1>2, <2>2, <2>4, <2>5, <2>6, Offers
<1>5. ASSUME NEW id \in Ids, AppendWrites(id)
      PROVE  [Promise!Next]_(Promise!vars)
  <2>1. /\ rec' = [rec EXCEPT ![id] = Grown(rec[id], Head(queue[id]).index)]
        /\ appending[id] = "write" /\ UNCHANGED <<byId, streams, delivered>>
    BY <1>5 DEF AppendWrites, others
  <2>2. ~rec[id].committed
    BY <1>0, <2>1 DEF UploadOf
  <2>3. rec'[id] = Grown(rec[id], Head(queue[id]).index)
    BY <1>0, <2>1
  <2>4. /\ rec'[id].committed = rec[id].committed /\ rec'[id].deleted = rec[id].deleted
        /\ rec'[id].maxReads = rec[id].maxReads /\ rec'[id].size = rec[id].size + 1
    BY <1>0, <2>3 DEF Grown, Record
  <2>5. \A i \in Ids \ {id} : Quiet(i)
    BY <1>0, <2>1, Untouched
  <2>6. KeepsReaders(id)
    BY <2>1 DEF KeepsReaders, Readers
  <2>7. CASE id \in byId
    <3>1. Phase(id) = "uploading" /\ KeepsPhase(id) /\ Held(id)' = Held(id) + 1
      BY <2>1, <2>2, <2>4, <2>7 DEF Phase, KeepsPhase, Held
    <3>2. KeepsAllowed(id)
      BY <2>4, <3>1 DEF KeepsAllowed, Allowed, KeepsPhase
    <3>3. Alone(id)
      BY <1>0, <2>5 DEF Alone
    <3> QED BY <1>2, <2>6, <3>1, <3>2, <3>3, Extends
  <2>8. CASE id \notin byId
    <3>1. Quiet(id)
      BY <2>1, <2>4, <2>6, <2>8, QuietFrame DEF KeepsReaders
    <3> QED BY <1>1, <2>5, <3>1
  <2> QED BY <2>7, <2>8
<1>6. ASSUME NEW id \in Ids, CommitRuns(id)
      PROVE  [Promise!Next]_(Promise!vars)
  <2>1. /\ queue[id] # <<>> /\ Head(queue[id]).op = "commit"
        /\ UNCHANGED <<byId, streams, delivered>>
        /\ IF rec[id].deleted THEN rec' = rec
           ELSE rec' = [rec EXCEPT ![id] = Published(rec[id])]
    BY <1>6 DEF CommitRuns, Turn, others, env, maps
  <2>2. CASE rec[id].deleted
    BY <1>1, <2>1, <2>2, Untouched
  <2>3. CASE ~rec[id].deleted
    <3>1. /\ rec'[id] = Published(rec[id])
          /\ \A i \in Ids \ {id} : rec'[i] = rec[i]
      BY <1>0, <2>1, <2>3
    <3>2. /\ rec'[id].committed = TRUE /\ rec'[id].deleted = rec[id].deleted
          /\ rec'[id].maxReads = rec[id].maxReads /\ rec'[id].size = rec[id].size
      BY <1>0, <3>1 DEF Published, Record
    <3>3. id \in byId
      BY <1>0, <2>1, <2>3 DEF LifeOf
    <3>4. \A i \in Ids \ {id} : Quiet(i)
      BY <2>1, <3>1, Untouched
    <3>5. KeepsReaders(id)
      BY <2>1 DEF KeepsReaders, Readers
    <3>6. CASE rec[id].committed
      <4>1. rec[id].committed \in BOOLEAN
        BY <1>0 DEF Record
      <4>2. rec'[id].committed = rec[id].committed
        BY <3>2, <3>6, <4>1
      <4>3. Quiet(id)
        BY <2>1, <3>2, <3>5, <4>2, QuietFrame DEF KeepsReaders
      <4> QED BY <1>1, <3>4, <4>3
    <3>7. CASE ~rec[id].committed
      <4>1. Phase(id) = "uploading" /\ Phase(id)' = "ready"
        BY <2>1, <3>2, <3>3, <3>7 DEF Phase
      <4>2. 1 \in 1..Len(queue[id]) /\ queue[id][1].op = "commit"
        BY <1>0, <2>1
      <4>3. Held(id) > 0
        BY <1>0, <3>3, <4>2 DEF Held, OfferOf, Grounded
      <4>4. KeepsHeld(id) /\ KeepsAllowed(id)
        BY <2>1, <3>2, <4>1 DEF KeepsHeld, KeepsAllowed, Held, Allowed
      <4>5. Alone(id)
        BY <1>0, <3>4 DEF Alone
      <4> QED BY <1>2, <3>5, <4>1, <4>3, <4>4, <4>5, Publishes
    <3> QED BY <3>6, <3>7
  <2> QED BY <2>2, <2>3
<1>7. ASSUME NEW id \in Ids, Revoke(id) \/ AppendDestroys(id) \/ SweepDestroys(id)
      PROVE  [Promise!Next]_(Promise!vars)
  <2>1. creation[id] = "done"
    BY <1>0, <1>7 DEF Revoke, AppendDestroys, SweepDestroys, Turn, LifeOf
  <2>2. Destroy(id, rec[id]) /\ UNCHANGED <<creation, streams, delivered>>
    BY <1>7 DEF Revoke, AppendDestroys, SweepDestroys, env
  <2> QED BY <1>0, <1>1, <1>2, <2>1, <2>2, DestroyRetires
<1>8. ASSUME NEW code \in Codes, BeginRead(code)
      PROVE  [Promise!Next]_(Promise!vars)
  <2>1. PICK id \in Ids :
            /\ id \in byId /\ rec[id].committed /\ ~rec[id].reading
            /\ ~isExpired(rec[id], age[id])
            /\ rec' = [rec EXCEPT ![id] = [rec[id] EXCEPT !.reading = TRUE]]
            /\ streams' = [streams EXCEPT ![id].opening = @ + 1]
            /\ UNCHANGED <<byId, delivered>>
    BY <1>0, <1>8 DEF BeginRead, Peekable, Busy, TypeOK, maps, env
  <2>2. rec'[id] = [rec[id] EXCEPT !.reading = TRUE]
    BY <1>0, <2>1
  <2>3. /\ rec'[id].committed = rec[id].committed /\ rec'[id].deleted = rec[id].deleted
        /\ rec'[id].maxReads = rec[id].maxReads /\ rec'[id].size = rec[id].size
    BY <1>0, <2>2 DEF Record
  <2>4. KeepsPhase(id) /\ KeepsHeld(id) /\ KeepsAllowed(id) /\ Phase(id) = "ready"
    BY <2>1, <2>3 DEF KeepsPhase, KeepsHeld, KeepsAllowed, Phase, Held, Allowed
  <2>5. streams[id].opening \in Nat /\ streams[id].whole \in Nat
    BY <1>0
  <2>6. Readers(id) = 0
    BY <1>0, <2>1 DEF ReadInvOf, ReaderOf, Readers
  <2>7. Readers(id)' = 1
    <3>1. streams'[id] = [streams[id] EXCEPT !.opening = streams[id].opening + 1]
      BY <1>0, <2>1
    <3>2. /\ streams'[id].opening = streams[id].opening + 1
          /\ streams'[id].whole = streams[id].whole
      BY <1>0, <3>1
    <3> QED BY <2>5, <2>6, <3>2 DEF Readers
  <2>8. delivered[id] < Allowed(id)
    <3>1. rec[id].reads \in Nat /\ rec[id].maxReads \in Nat
      BY <1>0 DEF Record
    <3>2. ~(rec[id].reads >= rec[id].maxReads)
      BY <2>1 DEF isExpired, Exhausted
    <3> QED BY <1>0, <2>4, <3>1, <3>2 DEF ReadInvOf, ReaderOf, Allowed
  <2>9. Alone(id)
    BY <1>0, <2>1, Untouched DEF Alone
  <2> QED BY <1>2, <2>1, <2>4, <2>6, <2>7, <2>8, <2>9, Opens
<1>9. ASSUME NEW id \in Ids, OpenBlob(id)
      PROVE  [Promise!Next]_(Promise!vars)
  <2>1. /\ streams[id].opening > 0 /\ UNCHANGED <<rec, byId, delivered>>
        /\ streams' = [streams EXCEPT ![id] = [opening |-> @.opening - 1, whole |-> @.whole + 1]]
    BY <1>9 DEF OpenBlob, maps, env
  <2>2. streams[id].opening \in Nat /\ streams[id].whole \in Nat
    BY <1>0
  <2>3. streams'[id] = [opening |-> streams[id].opening - 1, whole |-> streams[id].whole + 1]
    BY <1>0, <2>1
  <2>4. Readers(id)' = Readers(id)
    BY <2>1, <2>2, <2>3 DEF Readers
  <2>5. Quiet(id)
    BY <2>1, <2>4, QuietFrame
  <2>6. \A i \in Ids \ {id} : Quiet(i)
    BY <1>0, <2>1, Untouched
  <2> QED BY <1>1, <2>5, <2>6
<1>10. ASSUME NEW id \in Ids, FinishShort(id)
       PROVE  [Promise!Next]_(Promise!vars)
  <2>1. /\ rec' = [rec EXCEPT ![id] = [rec[id] EXCEPT !.reading = FALSE]]
        /\ UNCHANGED <<byId, delivered>>
        /\ \/ streams[id].opening > 0 /\ streams' = [streams EXCEPT ![id].opening = @ - 1]
           \/ streams[id].whole > 0 /\ streams' = [streams EXCEPT ![id].whole = @ - 1]
    BY <1>10 DEF FinishShort, maps, env
  <2>2. streams[id].opening \in Nat /\ streams[id].whole \in Nat
    BY <1>0
  <2>3. Readers(id) = 1
    BY <1>0, <2>1, <2>2 DEF ReadInvOf, ReaderOf, Readers
  <2>4. Readers(id)' = 0
    <3>1. \/ streams'[id] = [streams[id] EXCEPT !.opening = streams[id].opening - 1]
          \/ streams'[id] = [streams[id] EXCEPT !.whole = streams[id].whole - 1]
      BY <1>0, <2>1
    <3>2. streams[id] \in [opening : Nat, whole : Nat]
      BY <1>0
    <3>3. CASE streams'[id] = [streams[id] EXCEPT !.opening = streams[id].opening - 1]
      <4>1. /\ streams'[id].opening = streams[id].opening - 1
            /\ streams'[id].whole = streams[id].whole
        BY <3>2, <3>3
      <4> QED BY <2>2, <2>3, <4>1 DEF Readers
    <3>4. CASE streams'[id] = [streams[id] EXCEPT !.whole = streams[id].whole - 1]
      <4>1. /\ streams'[id].opening = streams[id].opening
            /\ streams'[id].whole = streams[id].whole - 1
        BY <3>2, <3>4
      <4> QED BY <2>2, <2>3, <4>1 DEF Readers
    <3> QED BY <3>1, <3>3, <3>4
  <2>5. rec'[id] = [rec[id] EXCEPT !.reading = FALSE]
    BY <1>0, <2>1
  <2>6. /\ rec'[id].committed = rec[id].committed /\ rec'[id].deleted = rec[id].deleted
        /\ rec'[id].maxReads = rec[id].maxReads /\ rec'[id].size = rec[id].size
    BY <1>0, <2>5 DEF Record
  <2>7. KeepsPhase(id) /\ KeepsHeld(id) /\ KeepsAllowed(id)
    BY <2>1, <2>6 DEF KeepsPhase, KeepsHeld, KeepsAllowed, Phase, Held, Allowed
  <2>8. Alone(id)
    BY <1>0, <2>1, Untouched DEF Alone
  <2> QED BY <1>2, <2>1, <2>3, <2>4, <2>7, <2>8, Abandons
<1>11. ASSUME NEW id \in Ids, FinishComplete(id)
       PROVE  [Promise!Next]_(Promise!vars)
  BY <1>2, <1>11, CompleteDelivers
<1>12. ASSUME NEW s \in saves, SaveFails(s) \/ (s.by # "create" /\ SaveLands(s))
       PROVE  [Promise!Next]_(Promise!vars)
  <2>1. UNCHANGED <<rec, byId, streams, delivered>>
    BY <1>12 DEF SaveLands, SaveFails, CreateDone, CreateFailed, AppendSettled, OtherSettled,
                 maps, others, env
  <2> QED BY <1>1, <2>1, Untouched
<1>13. ASSUME \/ \E id \in Ids :
                     \/ CommitUpload(id) \/ \E index \in 0..MaxFile : AppendPart(id, index)
                     \/ CreateBlob(id) \/ CreateBlobFails(id)
                     \/ AppendRefused(id) \/ AppendThrows(id) \/ AppendWriteFails(id)
                     \/ AppendStarts(id) \/ Remove(id) \/ RemoveFails(id)
                     \/ SweepSkips(id) \/ GrowOlder(id)
              \/ \E code \in LiveCodes : LiveCode(code)
              \/ SweepStart \/ UNCHANGED vars
       PROVE  [Promise!Next]_(Promise!vars)
  <2>1. UNCHANGED <<rec, byId, streams, delivered>>
    BY <1>13 DEF CommitUpload, AppendPart, CreateBlob, CreateBlobFails, AppendRefused,
                 AppendThrows, AppendWriteFails, AppendStarts, Remove, RemoveFails,
                 SweepSkips, GrowOlder, LiveCode, SweepStart, vars, maps,
                 others, env
  <2> QED BY <1>1, <2>1, Untouched
<1>14. ASSUME NEW s \in saves, SaveLands(s) \/ SaveFails(s)
       PROVE  [Promise!Next]_(Promise!vars)
  BY <1>4, <1>12, <1>14
<1> QED BY <1>3, <1>5, <1>6, <1>7, <1>8, <1>9, <1>10, <1>11, <1>13, <1>14, Steps

\* Every handler of the store, cut at its awaits and mixed with every other, does
\* to a transfer what module Transfer allows, or nothing: it is offered, extended,
\* published, read and ended as if each request ran alone (store.js).
THEOREM StoreImplementsTransfer == Spec => ImplementsTransfer
<1>1. Init => Promise!Init
  <2> SUFFICES ASSUME Init PROVE Promise!Init
    OBVIOUS
  <2>1. \A id \in Ids : /\ Phase(id) = "absent" /\ id \notin byId
                        /\ streams[id].opening + streams[id].whole = 0
    BY DEF Init, Phase, Blank
  <2> QED BY <2>1 DEF Init, Promise!Init
<1>2. /\ TypeInv /\ ReadInv /\ LifeInv /\ UploadInv /\ OfferInv /\ [Next]_vars /\ TypeInv'
      => [Promise!Next]_(Promise!vars)
  BY PromiseStep DEF TypeInv
<1> QED BY <1>1, <1>2, PromiseInv, PTL DEF Spec, ImplementsTransfer, Promise!Spec

----------------------------------------------------------------------------
(* Sums: what the fold behind TotalSize computes, for every finite set *)

\* Among sets of elements of a finite set there is a smallest one.
LEMMA SmallestSet ==
    ASSUME NEW D, IsFiniteSet(D), NEW T, T \subseteq SUBSET D, T # {}
    PROVE  \E m \in T : \A s \in T : s \subseteq m => s = m
<1>1. T \subseteq FiniteSubsetsOf(D)
  BY FS_Subset DEF FiniteSubsetsOf
<1>2. IsWellFoundedOn(StrictSubsetOrdering(D), FiniteSubsetsOf(D))
  BY FS_StrictSubsetOrderingWellFounded
<1>3. PICK m \in T : \A s \in T : ~(<<s, m>> \in StrictSubsetOrdering(D))
  BY <1>1, <1>2, WFMin
<1>4. ASSUME NEW s \in T, s \subseteq m, s # m
      PROVE  <<s, m>> \in StrictSubsetOrdering(D)
  <2> DEFINE p == <<s, m>>
  <2>1. p \in (SUBSET D) \X (SUBSET D)
    OBVIOUS
  <2>2. p[1] \subseteq p[2] /\ p[1] # p[2]
    BY <1>4
  <2> HIDE DEF p
  <2>3. p \in StrictSubsetOrdering(D)
    BY <2>1, <2>2 DEF StrictSubsetOrdering
  <2> QED BY <2>3 DEF p
<1>5. ASSUME NEW s \in T, s \subseteq m
      PROVE  s = m
  <2> SUFFICES ASSUME s # m PROVE FALSE
    OBVIOUS
  <2>1. <<s, m>> \in StrictSubsetOrdering(D)
    BY <1>4, <1>5
  <2> QED BY <1>3, <2>1, Zenon
<1> QED BY <1>5

\* One element for each unit of v over S.
Units(v, S) == UNION {{x} \X (1..v[x]) : x \in S}

LEMMA UnitsOfOne ==
    ASSUME NEW n \in Nat, NEW x
    PROVE  IsFiniteSet({x} \X (1..n)) /\ Cardinality({x} \X (1..n)) = n
<1>1. IsFiniteSet({x}) /\ Cardinality({x}) = 1
  BY FS_Singleton
<1>2. IsFiniteSet(1..n) /\ Cardinality(1..n) = n
  BY FS_Interval
<1>3. /\ IsFiniteSet({x} \X (1..n))
      /\ Cardinality({x} \X (1..n)) = Cardinality({x}) * Cardinality(1..n)
  BY <1>1, <1>2, FS_Product
<1> QED BY <1>1, <1>2, <1>3

LEMMA UnitsFinite ==
    ASSUME NEW D, IsFiniteSet(D), NEW v \in [D -> Nat], NEW S \in SUBSET D
    PROVE  IsFiniteSet(Units(v, S))
<1> DEFINE T == {s \in SUBSET D : ~IsFiniteSet(Units(v, s))}
<1>1. SUFFICES ASSUME T # {} PROVE FALSE
  OBVIOUS
<1>2. PICK m \in T : \A s \in T : s \subseteq m => s = m
  <2>1. T \subseteq SUBSET D
    OBVIOUS
  <2> HIDE DEF T
  <2> QED BY <1>1, <2>1, SmallestSet
<1>3. CASE m = {}
  <2>1. Units(v, m) = {}
    BY <1>3 DEF Units
  <2> QED BY <2>1, <1>2, FS_EmptySet
<1>4. CASE m # {}
  <2>1. PICK x \in m : TRUE
    BY <1>4
  <2> DEFINE A == Units(v, m \ {x})
             B == {x} \X (1..v[x])
  <2>2. IsFiniteSet(A)
    BY <1>2, <2>1
  <2>3. x \in D /\ v[x] \in Nat
    BY <1>2, <2>1
  <2>4. Units(v, m) = A \cup B
    BY <2>1 DEF Units
  <2>5. IsFiniteSet(B)
    BY <2>3, UnitsOfOne
  <2> HIDE DEF A, B
  <2>6. IsFiniteSet(A \cup B)
    BY <2>2, <2>5, FS_Union
  <2> QED BY <1>2, <2>4, <2>6
<1> QED BY <1>3, <1>4

LEMMA UnitsWithout ==
    ASSUME NEW D, IsFiniteSet(D), NEW v \in [D -> Nat], NEW S \in SUBSET D, NEW x \in S
    PROVE  Cardinality(Units(v, S)) = v[x] + Cardinality(Units(v, S \ {x}))
<1> DEFINE A == Units(v, S \ {x})
           B == {x} \X (1..v[x])
<1>1. v[x] \in Nat /\ S \ {x} \in SUBSET D
  OBVIOUS
<1>2. IsFiniteSet(A)
  BY <1>1, UnitsFinite
<1>3. IsFiniteSet(B) /\ Cardinality(B) = v[x]
  BY <1>1, UnitsOfOne
<1>4. Units(v, S) = A \cup B
  BY DEF Units
<1>5. A \cap B = {}
  BY DEF Units
<1>6. Cardinality(A) \in Nat
  BY <1>2, FS_CardinalityType
<1> HIDE DEF A, B
<1>7. Cardinality(A \cup B) = Cardinality(A) + Cardinality(B) - Cardinality(A \cap B)
  BY <1>2, <1>3, FS_Union
<1>8. Cardinality(A \cap B) = 0
  BY <1>5, FS_EmptySet
<1>9. Cardinality(A \cup B) = v[x] + Cardinality(A)
  BY <1>1, <1>3, <1>6, <1>7, <1>8
<1> QED BY <1>4, <1>9 DEF A

\* The sum of v over S.
SumOver(v, S) == FoldFunctionOnSet(+, 0, v, S)

\* It is the number of units.
LEMMA FoldIsUnits ==
    ASSUME NEW D, IsFiniteSet(D), NEW v \in [D -> Nat], NEW S \in SUBSET D
    PROVE  SumOver(v, S) = Cardinality(Units(v, S))
<1> DEFINE Eq(f) == f = [s \in SUBSET S |->
                         IF s = {} THEN 0
                         ELSE LET x == CHOOSE x \in s : TRUE IN v[x] + f[s \ {x}]]
           g == [s \in SUBSET S |-> Cardinality(Units(v, s))]
           f == CHOOSE f : Eq(f)
<1>1. SumOver(v, S) = f[S]
  BY DEF SumOver, FoldFunctionOnSet, MapThenFoldSet
<1>2. ASSUME NEW s \in SUBSET S
      PROVE  g[s] = IF s = {} THEN 0
                    ELSE LET x == CHOOSE x \in s : TRUE IN v[x] + g[s \ {x}]
  <2>1. CASE s = {}
    <3>1. Units(v, s) = {}
      BY <2>1 DEF Units
    <3> QED BY <2>1, <3>1, FS_EmptySet
  <2>2. CASE s # {}
    <3> DEFINE x == CHOOSE x \in s : TRUE
    <3>1. x \in s
      BY <2>2
    <3>2. s \in SUBSET D /\ s \ {x} \in SUBSET S
      OBVIOUS
    <3> HIDE DEF x
    <3>3. Cardinality(Units(v, s)) = v[x] + Cardinality(Units(v, s \ {x}))
      BY <3>1, <3>2, UnitsWithout
    <3>4. g[s] = v[x] + g[s \ {x}]
      BY <3>2, <3>3
    <3> QED BY <2>2, <3>4 DEF x
  <2> QED BY <2>1, <2>2
<1>3. Eq(g)
  BY <1>2
<1>4. Eq(f)
  BY <1>3
<1> HIDE DEF f
<1>5. \A s \in SUBSET S : f[s] = IF s = {} THEN 0
                           ELSE LET x == CHOOSE x \in s : TRUE IN v[x] + f[s \ {x}]
  BY <1>4
<1> HIDE DEF g, Eq
<1> DEFINE T == {s \in SUBSET S : f[s] # g[s]}
<1>6. T = {}
  <2>1. SUFFICES ASSUME T # {} PROVE FALSE
    OBVIOUS
  <2>2. T \subseteq SUBSET S /\ IsFiniteSet(S)
    BY FS_Subset
  <2>3. PICK m \in T : \A s \in T : s \subseteq m => s = m
    <3> HIDE DEF T
    <3> QED BY <2>1, <2>2, SmallestSet
  <2>4. CASE m = {}
    BY <1>2, <1>5, <2>3, <2>4
  <2>5. CASE m # {}
    <3> DEFINE x == CHOOSE x \in m : TRUE
    <3>1. x \in m
      BY <2>5
    <3>2. f[m] = v[x] + f[m \ {x}] /\ g[m] = v[x] + g[m \ {x}]
      BY <1>2, <1>5, <2>3, <2>5
    <3> HIDE DEF x
    <3>3. m \ {x} \notin T /\ m \ {x} \in SUBSET S
      BY <2>3, <3>1
    <3> QED BY <2>3, <3>2, <3>3
  <2> QED BY <2>4, <2>5
<1> QED BY <1>1, <1>6 DEF g

\* So a sum splits over any element, and depends on the values of its set only.
LEMMA SumSplits ==
    ASSUME NEW D, IsFiniteSet(D), NEW v \in [D -> Nat], NEW S \in SUBSET D
    PROVE  /\ SumOver(v, S) \in Nat
           /\ \A x \in S : SumOver(v, S)
                               = v[x] + SumOver(v, S \ {x})
<1>1. IsFiniteSet(Units(v, S))
  BY UnitsFinite
<1>2. SumOver(v, S) = Cardinality(Units(v, S))
  BY FoldIsUnits
<1>3. Cardinality(Units(v, S)) \in Nat
  BY <1>1, FS_CardinalityType
<1>4. ASSUME NEW x \in S
      PROVE  SumOver(v, S) = v[x] + SumOver(v, S \ {x})
  <2>1. S \ {x} \in SUBSET D
    OBVIOUS
  <2>2. SumOver(v, S \ {x}) = Cardinality(Units(v, S \ {x}))
    BY <2>1, FoldIsUnits
  <2>3. Cardinality(Units(v, S)) = v[x] + Cardinality(Units(v, S \ {x}))
    BY UnitsWithout
  <2> QED BY <1>2, <2>2, <2>3
<1> QED BY <1>2, <1>3, <1>4

LEMMA SumOfSame ==
    ASSUME NEW D, IsFiniteSet(D), NEW v \in [D -> Nat], NEW w \in [D -> Nat],
           NEW S \in SUBSET D, \A x \in S : w[x] = v[x]
    PROVE  SumOver(w, S) = SumOver(v, S)
<1>1. Units(w, S) = Units(v, S)
  BY DEF Units
<1> QED BY <1>1, FoldIsUnits

----------------------------------------------------------------------------
(* The counter behind the quota *)

Sizes == [id \in Ids |-> rec[id].size]

LEMMA Totals ==
    /\ NeverUndercounted <=> bytesOnDisk >= SumOver(Sizes, byId)
    /\ NeverUndercounted' <=> bytesOnDisk' >= SumOver(Sizes', byId')
<1>1. TotalSize(byId) = SumOver(Sizes, byId)
  BY DEF TotalSize, SumOver, Sizes
<1>2. TotalSize(byId)' = SumOver(Sizes', byId')
  BY DEF TotalSize, SumOver, Sizes, FoldFunctionOnSet, MapThenFoldSet
<1> QED BY <1>1, <1>2 DEF NeverUndercounted

LEMMA SizesType ==
    /\ TypeOK => Sizes \in [Ids -> Nat] /\ byId \in SUBSET Ids
    /\ TypeOK' => Sizes' \in [Ids -> Nat] /\ byId' \in SUBSET Ids
<1>1. TypeOK => \A i \in Ids : rec[i] \in Record
  BY DEF TypeOK
<1>2. TypeOK' => \A i \in Ids : rec'[i] \in Record
  BY DEF TypeOK
<1> QED BY <1>1, <1>2 DEF TypeOK, Record, Sizes

\* No live record changes its size.
LEMMA CountFrame ==
    ASSUME TypeOK, TypeOK', NeverUndercounted, byId' = byId,
           \A i \in byId : rec'[i].size = rec[i].size, bytesOnDisk' = bytesOnDisk
    PROVE  NeverUndercounted'
<1>1. /\ Sizes \in [Ids -> Nat] /\ Sizes' \in [Ids -> Nat] /\ byId \in SUBSET Ids
      /\ IsFiniteSet(Ids)
  BY SizesType, ConstAssumption
<1>2. \A i \in byId : Sizes'[i] = Sizes[i]
  BY <1>1 DEF Sizes
<1>3. SumOver(Sizes', byId) = SumOver(Sizes, byId)
  BY <1>1, <1>2, SumOfSame
<1> QED BY <1>3, Totals

\* An empty record joins the map.
LEMMA CountNew ==
    ASSUME TypeOK, TypeOK', NeverUndercounted, NEW id \in Ids \ byId, rec[id].size = 0,
           byId' = byId \cup {id}, rec' = rec, bytesOnDisk' = bytesOnDisk
    PROVE  NeverUndercounted'
<1>1. /\ Sizes \in [Ids -> Nat] /\ Sizes' = Sizes /\ byId' \in SUBSET Ids
      /\ IsFiniteSet(Ids) /\ byId' \ {id} = byId /\ id \in byId' /\ Sizes[id] = 0
  BY SizesType, ConstAssumption DEF Sizes
<1>2. SumOver(Sizes, byId') = 0 + SumOver(Sizes, byId)
  BY <1>1, SumSplits
<1>3. SumOver(Sizes, byId) \in Nat
  BY <1>1, SizesType, SumSplits
<1>4. SumOver(Sizes', byId') = SumOver(Sizes, byId)
  BY <1>1, <1>2, <1>3
<1> QED BY <1>4, Totals

\* A live record grows by a part, and so does the counter.
LEMMA CountPart ==
    ASSUME TypeOK, TypeOK', NeverUndercounted, NEW id \in byId,
           rec'[id].size = rec[id].size + 1, \A i \in Ids \ {id} : rec'[i] = rec[i],
           byId' = byId, bytesOnDisk' = bytesOnDisk + 1
    PROVE  NeverUndercounted'
<1> DEFINE remaining == SumOver(Sizes, byId \ {id})
<1>1. /\ Sizes \in [Ids -> Nat] /\ Sizes' \in [Ids -> Nat] /\ byId \in SUBSET Ids
      /\ IsFiniteSet(Ids) /\ id \in Ids /\ byId \ {id} \in SUBSET Ids
  BY SizesType, ConstAssumption
<1>2. /\ Sizes'[id] = Sizes[id] + 1
      /\ \A i \in byId \ {id} : Sizes'[i] = Sizes[i]
  BY <1>1 DEF Sizes
<1>3. SumOver(Sizes', byId \ {id}) = remaining
  BY <1>1, <1>2, SumOfSame
<1>4. /\ SumOver(Sizes, byId) = Sizes[id] + remaining
      /\ remaining \in Nat
  BY <1>1, SumSplits
<1>5. SumOver(Sizes', byId) = Sizes'[id] + remaining
  BY <1>1, <1>3, SumSplits
<1>6. bytesOnDisk >= SumOver(Sizes, byId)
  BY Totals
<1>7. bytesOnDisk \in Nat /\ Sizes[id] \in Nat
  BY <1>1 DEF TypeOK
<1> HIDE DEF remaining
<1>8. bytesOnDisk' >= SumOver(Sizes', byId)
  BY <1>2, <1>4, <1>5, <1>6, <1>7
<1> QED BY <1>8, Totals

\* A record leaves the map with its bytes; one destroyed before leaves nothing.
LEMMA CountDestroy ==
    ASSUME TypeOK, TypeOK', LifeInv, NeverUndercounted, NEW id \in Ids, NEW r \in Record,
           r.size = rec[id].size, r.deleted = rec[id].deleted,
           creation[id] = "done", Destroy(id, r)
    PROVE  NeverUndercounted'
<1>0. rec \in [Ids -> Record] /\ LifeOf(id) /\ byId \subseteq Ids
  BY DEF TypeOK, LifeInv
<1>1. CASE r.deleted
  <2>1. rec' = [rec EXCEPT ![id] = r] /\ UNCHANGED <<byId, bytesOnDisk>>
    BY <1>1 DEF Destroy, Destroyed, maps
  <2>2. \A i \in byId : rec'[i].size = rec[i].size
    BY <1>0, <2>1
  <2> QED BY <2>1, <2>2, CountFrame
<1>2. CASE ~r.deleted
  <2> DEFINE remaining == SumOver(Sizes, byId \ {id})
  <2>1. /\ rec' = [rec EXCEPT ![id] = Ended(r)] /\ byId' = byId \ {id}
        /\ bytesOnDisk' = IF bytesOnDisk >= r.size THEN bytesOnDisk - r.size ELSE 0
    BY <1>2 DEF Destroy, Destroyed
  <2>2. id \in byId
    BY <1>0, <1>2 DEF LifeOf
  <2>3. /\ Sizes \in [Ids -> Nat] /\ Sizes' \in [Ids -> Nat] /\ byId \in SUBSET Ids
        /\ IsFiniteSet(Ids) /\ byId \ {id} \in SUBSET Ids
    BY SizesType, ConstAssumption
  <2>4. \A i \in byId \ {id} : Sizes'[i] = Sizes[i]
    BY <1>0, <2>1 DEF Sizes
  <2>5. SumOver(Sizes', byId \ {id}) = remaining
    BY <2>3, <2>4, SumOfSame
  <2>6. /\ SumOver(Sizes, byId) = Sizes[id] + remaining
        /\ remaining \in Nat
    BY <2>2, <2>3, SumSplits
  <2>7. bytesOnDisk >= SumOver(Sizes, byId)
    BY Totals
  <2>8. bytesOnDisk \in Nat /\ Sizes[id] \in Nat /\ Sizes[id] = r.size
    BY <2>3 DEF TypeOK, Sizes
  <2> HIDE DEF remaining
  <2>9. bytesOnDisk' >= remaining
    BY <2>1, <2>6, <2>7, <2>8
  <2>10. bytesOnDisk' >= SumOver(Sizes', byId')
    BY <2>1, <2>5, <2>9
  <2> QED BY <2>10, Totals
<1> QED BY <1>1, <1>2

LEMMA CountStep ==
    ASSUME TypeInv, TypeOK', ReadInv, LifeInv, NeverUndercounted, [Next]_vars
    PROVE  NeverUndercounted'
<1>0. /\ TypeOK /\ SavesInv
      /\ \A i \in Ids : LifeOf(i) /\ ReadInvOf(i) /\ rec[i] \in Record
      /\ rec \in [Ids -> Record] /\ byId \subseteq Ids
  BY DEF TypeInv, TypeOK, LifeInv, ReadInv
<1>1. ASSUME NEW id \in Ids, NEW r, r.size = rec[id].size, rec' = [rec EXCEPT ![id] = r],
             UNCHANGED <<byId, bytesOnDisk>>
      PROVE  NeverUndercounted'
  <2>1. \A i \in byId : rec'[i].size = rec[i].size
    BY <1>0, <1>1
  <2> QED BY <1>0, <1>1, <2>1, CountFrame
<1>2. ASSUME NEW id \in Ids, NEW ip \in Ips, NEW code \in Codes, NEW n \in 1..MaxReadsLimit,
             CreateUpload(id, ip, code, n)
      PROVE  NeverUndercounted'
  <2>1. /\ creation[id] = "none" /\ UNCHANGED <<byId, bytesOnDisk>>
        /\ rec' = [rec EXCEPT ![id] = [Blank EXCEPT !.code = code, !.owner = ip, !.maxReads = n]]
    BY <1>2 DEF CreateUpload
  <2>2. \A i \in byId : rec'[i].size = rec[i].size
    BY <1>0, <2>1 DEF LifeOf
  <2> QED BY <1>0, <2>1, <2>2, CountFrame
<1>3. ASSUME NEW s \in saves, s.by = "create", SaveLands(s)
      PROVE  NeverUndercounted'
  <2>1. byId' = byId \cup {s.id} /\ UNCHANGED <<rec, bytesOnDisk>>
    BY <1>3 DEF SaveLands, CreateDone, AppendSettled, OtherSettled
  <2>2. s.id \in Ids /\ creation[s.id] = "meta"
    BY <1>0, <1>3 DEF SavesInv, TypeOK, SaveCall
  <2>3. s.id \notin byId /\ rec[s.id].size = 0
    BY <1>0, <2>2 DEF LifeOf
  <2> QED BY <1>0, <2>1, <2>2, <2>3, CountNew
<1>4. ASSUME NEW id \in Ids, AppendWrites(id)
      PROVE  NeverUndercounted'
  <2>1. /\ rec' = [rec EXCEPT ![id] = Grown(rec[id], Head(queue[id]).index)]
        /\ byId' = byId /\ bytesOnDisk' = bytesOnDisk + 1
    BY <1>4 DEF AppendWrites
  <2>2. rec'[id].size = rec[id].size + 1 /\ \A i \in Ids \ {id} : rec'[i] = rec[i]
    BY <1>0, <2>1 DEF Grown, Record
  <2>3. CASE id \in byId
    BY <1>0, <2>1, <2>2, <2>3, CountPart
  <2>4. CASE id \notin byId
    <3>1. \A i \in byId : rec'[i] = rec[i]
      BY <1>0, <2>2, <2>4
    <3> DEFINE total == SumOver(Sizes, byId)
    <3>2. /\ Sizes \in [Ids -> Nat] /\ Sizes' \in [Ids -> Nat] /\ byId \in SUBSET Ids
          /\ IsFiniteSet(Ids)
      BY <1>0, SizesType, ConstAssumption
    <3>3. \A i \in byId : Sizes'[i] = Sizes[i]
      BY <1>0, <3>1 DEF Sizes
    <3>4. SumOver(Sizes', byId) = total /\ total \in Nat
      BY <3>2, <3>3, SumOfSame, SumSplits
    <3>5. bytesOnDisk >= total
      BY Totals
    <3> HIDE DEF total
    <3>6. bytesOnDisk \in Nat
      BY <1>0 DEF TypeOK
    <3>7. bytesOnDisk' >= SumOver(Sizes', byId)
      BY <2>1, <3>4, <3>5, <3>6
    <3> QED BY <2>1, <3>7, Totals
  <2> QED BY <2>3, <2>4
<1>5. ASSUME NEW id \in Ids, CommitRuns(id)
      PROVE  NeverUndercounted'
  <2>1. /\ UNCHANGED <<byId, bytesOnDisk>>
        /\ rec' = rec \/ rec' = [rec EXCEPT ![id] = Published(rec[id])]
    BY <1>5 DEF CommitRuns, maps
  <2>2. Published(rec[id]).size = rec[id].size
    BY <1>0 DEF Published, Record
  <2>3. CASE rec' = rec
    BY <1>0, <2>1, <2>3, CountFrame
  <2> QED BY <1>1, <2>1, <2>2, <2>3
<1>6. ASSUME NEW id \in Ids, Revoke(id) \/ AppendDestroys(id) \/ SweepDestroys(id)
      PROVE  NeverUndercounted'
  <2>1. creation[id] = "done"
    BY <1>0, <1>6 DEF Revoke, AppendDestroys, SweepDestroys, Turn, LifeOf
  <2>2. Destroy(id, rec[id])
    BY <1>6 DEF Revoke, AppendDestroys, SweepDestroys
  <2> QED BY <1>0, <2>1, <2>2, CountDestroy
<1>7. ASSUME NEW code \in Codes, BeginRead(code)
      PROVE  NeverUndercounted'
  <2>1. PICK id \in Ids : rec' = [rec EXCEPT ![id] = [rec[id] EXCEPT !.reading = TRUE]]
    <3>1. byCode[code] \in Ids
      BY <1>0, <1>7 DEF BeginRead, TypeOK
    <3> QED BY <1>7, <3>1 DEF BeginRead
  <2>2. [rec[id] EXCEPT !.reading = TRUE].size = rec[id].size
    BY <1>0 DEF Record
  <2> QED BY <1>1, <1>7, <2>1, <2>2 DEF BeginRead, maps
<1>8. ASSUME NEW id \in Ids, FinishShort(id)
      PROVE  NeverUndercounted'
  <2>1. rec' = [rec EXCEPT ![id] = [rec[id] EXCEPT !.reading = FALSE]]
    BY <1>8 DEF FinishShort
  <2>2. [rec[id] EXCEPT !.reading = FALSE].size = rec[id].size
    BY <1>0 DEF Record
  <2> QED BY <1>1, <1>8, <2>1, <2>2 DEF FinishShort, maps
<1>9. ASSUME NEW id \in Ids, FinishComplete(id)
      PROVE  NeverUndercounted'
  <2>1. creation[id] = "done"
    <3>1. streams[id].whole > 0
      BY <1>9 DEF FinishComplete
    <3>2. streams[id].whole \in Nat /\ streams[id].opening \in Nat
      BY <1>0 DEF TypeOK
    <3>3. rec[id].reading
      BY <1>0, <3>1, <3>2 DEF ReadInvOf, ReaderOf
    <3> QED BY <1>0, <3>3 DEF LifeOf
  <2>2. /\ Served(rec[id]) \in Record
        /\ Served(rec[id]).size = rec[id].size /\ Served(rec[id]).deleted = rec[id].deleted
    BY <1>0, ServedType DEF Served, Record
  <2>3. CASE Destroy(id, Served(rec[id]))
    BY <1>0, <2>1, <2>2, <2>3, CountDestroy
  <2>4. CASE rec' = [rec EXCEPT ![id] = Served(rec[id])] /\ UNCHANGED maps
    BY <1>1, <2>2, <2>4 DEF maps
  <2> QED BY <1>9, <2>3, <2>4 DEF FinishComplete
<1>10. ASSUME NEW s \in saves, SaveFails(s) \/ (s.by # "create" /\ SaveLands(s))
       PROVE  NeverUndercounted'
  <2>1. UNCHANGED <<rec, byId, bytesOnDisk>>
    BY <1>10 DEF SaveLands, SaveFails, CreateDone, CreateFailed, AppendSettled, OtherSettled,
                 maps
  <2> QED BY <1>0, <2>1, CountFrame
<1>11. ASSUME NEW s \in saves, SaveLands(s) \/ SaveFails(s)
       PROVE  NeverUndercounted'
  BY <1>3, <1>10, <1>11
<1>12. ASSUME \/ \E id \in Ids :
                     \/ CommitUpload(id) \/ \E index \in 0..MaxFile : AppendPart(id, index)
                     \/ CreateBlob(id) \/ CreateBlobFails(id)
                     \/ AppendRefused(id) \/ AppendThrows(id) \/ AppendWriteFails(id)
                     \/ AppendStarts(id) \/ Remove(id) \/ RemoveFails(id)
                     \/ OpenBlob(id) \/ SweepSkips(id) \/ GrowOlder(id)
              \/ \E code \in LiveCodes : LiveCode(code)
              \/ SweepStart \/ UNCHANGED vars
       PROVE  NeverUndercounted'
  <2>1. UNCHANGED <<rec, byId, bytesOnDisk>>
    BY <1>12 DEF CommitUpload, AppendPart, CreateBlob, CreateBlobFails, AppendRefused,
                 AppendThrows, AppendWriteFails, AppendStarts, Remove, RemoveFails, OpenBlob,
                 SweepSkips, GrowOlder, LiveCode, SweepStart, vars, maps
  <2> QED BY <1>0, <2>1, CountFrame
<1> QED BY <1>2, <1>4, <1>5, <1>6, <1>7, <1>8, <1>9, <1>11, <1>12, Steps

\* The counter behind the quota covers the bytes of every live record: no record is
\* taken off it twice, and a part charged to a record already destroyed errs on the
\* safe side (destroy's early return, appendPartLocked after its write).
THEOREM QuotaNeverUndercounts == Spec => []NeverUndercounted
<1>1. Init => NeverUndercounted
  <2> SUFFICES ASSUME Init PROVE NeverUndercounted
    OBVIOUS
  <2>1. Sizes \in [Ids -> Nat] /\ IsFiniteSet(Ids)
    BY ConstAssumption DEF Init, Sizes, Blank
  <2>2. Units(Sizes, {}) = {}
    BY DEF Units
  <2>3. SumOver(Sizes, {}) = 0
    BY <2>1, <2>2, FoldIsUnits, FS_EmptySet
  <2> QED BY <2>3, Totals DEF Init
<1>2. TypeInv /\ TypeInv' /\ ReadInv /\ LifeInv /\ NeverUndercounted /\ [Next]_vars
          => NeverUndercounted'
  BY CountStep DEF TypeInv
<1> QED BY <1>1, <1>2, AllInv, PTL DEF Spec

=============================================================================
