# Verification of quick-secure-file-transfer

TLA+ models of the transfer server, of live sessions between two devices from
the room to the last chunk, of stored transfers as the two browsers see them and
of the archives they carry, checked with TLC on small instances. Every safety
property the runs check is also proved with TLAPS, for every value of the
constants. Every definition is translated from the source; `PROJECT.json` maps
each one to its lines. Paths below are relative to the repository, whose root is
`src/` in that map.

## The system

Two devices move one file, named by a six-digit code and encrypted end to end.
A *live* transfer runs between two open browsers, directly over WebRTC or
through the server's relay. A *stored* transfer is uploaded to the server and
collected later.

| Part | State it keeps | Operations | Hard behaviour |
|---|---|---|---|
| Blob store, `server/store.js` | `byId`, `byCode`, `uncommittedByIp`, `bytesOnDisk`; two files per record | `createUpload`, `appendPart`, `commitUpload`, `revoke`, `peek`, `beginRead`/`finish`, `sweep`, `init` | every handler awaits file operations in its middle; files fail; the process ends |
| Code registry, `server/codes.js` | code → live room or record | `allocate`, `reserve`, `resolve`, `release` | shared by both halves of the server |
| Lookup guard, `server/guard.js`, `RateLimiter` of `server/util.js` | attempts per address, misses per code | `checkCodeLookup`, `noteFailure`, `noteSuccess`, sweeps | two surfaces share one budget; refunds; codes that come and go |
| Live rooms, `server/live.js` | `rooms`, `socketRoom`, `roomsByIp`, `socketsByIp` | `live:host`, `join`, `signal`, `data`, `bye`, connection, disconnect, the idle timer | five ways to end a room, in any order |
| Routes, `server/routes.js`; assembly, `server/index.js`, `config.js` | – | HTTP in front of the above; timers; shutdown | a download that closes early; a shutdown that waits for nothing |
| Live transfer, `client/src/session/liveSend.ts`, `liveReceive.ts`, `pump.ts` | credits, message queues, the pushed stream | handshake, metadata, chunks, credits, confirmation | two event loops, each with several async functions; cancelling; lost connections |
| Links, `client/src/transport/link.ts`, `p2p.ts`, `signal.ts` | the channel or socket, signal history | `establishLink`, `send`, `close`, `waitFor` | both devices must choose the same link; loss of either connection |
| Handshake, `session/handshake.ts`, `crypto/kex.ts` | three messages | `awaitStep`, `kex-abort` | timeouts, replayed history |
| Secure channel and container, `crypto/channel.ts`, `stream.ts`, `format.ts` | counters, the final flag | `seal`, `open` | order, truncation |
| Stored transfer client, `session/stored.ts`, `transport/api.ts` | the part being filled | `uploadPart` with retries, `commitUpload`, `revokeUpload` | lost answers, repeats |
| Chunks and streams, `chunker.ts` | what is held back, what is queued | `rechunk`, `ByteCursor`, `backpressuredSource` | boundaries, a pull nobody answers |
| Archives, `zip.ts`, `unzip.ts` | offset, the entry being read, the directory so far | `zipSize`, `zipStream`, `readZipIndex`, `extractEntry` | sizes are promised before bytes are read |
| QR codes, interface, service worker | – | pure functions, rendering, a shell cache | – |

How they interact: the routes call the guard and the store; `live:join` calls
the same guard; store and rooms draw codes from one registry. A live device
talks to its room over one socket, which carries signalling and, on the relay,
the frames as well. `liveSend` and `liveReceive` exchange READY, CREDIT, DATA
and DONE over whichever link was agreed on.

What makes each part correct:

- **Store**: a blob is exactly the parts acknowledged; a commit freezes it; it is
  delivered whole no more often than its budget, to one reader at a time; what
  is over leaves no ciphertext; codes lead to one record; slots and the quota
  counter are exact enough to bind; expired and abandoned records go; a restart
  loses nothing that has both its files, resurrects nothing and rewrites nothing.
- **Guard**: only failures count, each once, and one budget holds over every way
  of looking a code up.
- **Live rooms**: the maps agree; slots are charged exactly; a frame stays in
  its pair; a receiver is never replaced; whoever loses a session is told.
- **Session set-up**: both devices decide on the same link; nothing is sent where
  nobody listens; a payload is taken only behind a handshake; a wrong passphrase
  is named on both screens; every wait ends.
- **Stored transfer client**: what is published is the whole container, whatever
  was repeated or came late; an upload that failed can no longer be collected; what
  is handed over is the whole file.
- **Archives**: the length that was declared, every file as it was read, no two
  entries of one name.
- **Live transfer**: in flight never more than the window; "verified" is true
  when the sender says it; a confirmation is not overtaken by a close; nobody
  waits forever.

## Modules

| Module | Models | State and actions |
|---|---|---|
| `Transfer` | what a stored transfer promises, with no files or locks | `phase`, `parts`, `budget`, `readers`, `delivered` |
| `Store` | `store.js`, `codes.js` | `rec`, `byId`, `byCode`, `registry`, `uncommittedByIp`, `bytesOnDisk` are the maps and counters of the source; `blob`, `meta` are the disk; `creation`, `saves`, `queue`, `appending`, `removing`, `streams`, `sweeping` hold the rest of each handler that is suspended at an await |
| `StoreRestart` | the store with crashes and `init` | extends `Store` with `boot`, the sidecars still to be read |
| `Guard` | `guard.js`, `RateLimiter`, the three HTTP lookups (`/resolve`, `/store`, `/store/.../meta`) | `hits`, `codeFailures`, `registry`, `clock`; a lookup is one step, since nothing in it awaits |
| `LiveRooms` | `live.js` | extends `Guard`; its four maps, and `buffer`, what is emitted to a socket and not yet written |
| `LiveTransfer` | both ends of a live transfer, the pumps, the gate, the drain task and the link | one program counter per async function, two wires, two pumps |
| `Session` | both devices before the transfer: `liveSend`, `liveReceive`, `awaitStep` and the key exchange, `tryDirectConnection`, `establishLink`, the replay of `signal.ts` | `dev[d]`: the phase of the session function, the step of the handshake, the attempt and the report of the link, the signals heard; `toward[d]`: what the server has for the device; `pipe`: the direct channel |
| `StoredClient` | `stored.ts`, `api.ts`, `rechunk`, `ByteCursor`, `ChunkSealer`/`ChunkOpener`, the sender's screen | `up` and `down` are the two session functions with their buffers; `server` is one record with its bytes; `net` the requests under way |
| `Archive` | `zip.ts` and the reading of its archives in `unzip.ts` | `out`, `index`, `current`, `central` are those of `zipStream`; `disk` is the length a file has by now, and `kept` how much of it is still as it was chosen |
| `MC...` | instances of the above for TLC | constants and symmetry |
| `StoreSafety`, `StoreRefinement`, `StoreRestartProofs`, `LiveProofs` (with the theorems about `Guard`), `LiveTransferProofs`, `SessionProofs`, `StoredClientProofs`, `ArchiveProofs` | proofs | |

A step is the code from one await to the next, because Node and the browser run
each as one event loop. In `Store` a file operation and the code its completion
resumes are one step: what happens between the two is invisible to the process.
A request that is refused changes nothing and is not a step.

`LiveRooms` *composes* with `Guard`: `live:join` uses the operators of
`checkCodeLookup`, and `ImplementsGuard` says that its lookups are a behaviour
of `GuardSpec`. `Store` implements `Transfer` under a refinement mapping, which
reads the phase off the maps and flags (`Promise`, `ImplementsTransfer`).

`Session` *composes* with `LiveTransfer` in sequence: it ends in the phase
`transfer` with an agreed link and an accepted metadata, which is where
`LiveTransfer!Init` begins. `StoredClient` uses the answers of `Store`
(`Current`, `IsDuplicate`, `After`) over one record, and lets the server drop
that record whenever `Store` may. Of the file operations it keeps the one that a
client can meet: an append that fails half-way, or whose process ends before the
sidecar is written, leaves bytes in the blob for a part the client sends again
(`HalfDone`). A revocation between an append and its sidecar, and what that
leaves on disk, is `Store`'s (`RemovedFromDisk`), and so is a sidecar that
cannot be written.

Abstractions. Parts have one length and stand for their index; a blob is the
sequence of parts in it. The store's clock is the four ages that `isExpired`
tells apart. A frame stands for its sender. In `LiveTransfer` chunks are
numbered, decryption is a step that may lag behind arrival, and what is on the
way and not yet received is the sender's buffer. The relay's throttle reads
Socket.IO's own queue (`outboundBacklog`), which may hold any part of what is on
the way, so on the relay the model lets `send` both wait and pass when that is
past the limit. `LiveTransfer` models transfers without compression, where the
drain task reads the pushed stream directly.

In `Session` a passphrase is right or wrong (`match`), a message of the exchange
is its step, and a confirmation holds exactly when the passphrases match. A timer
may run out at any moment its wait is unanswered; `expired` remembers one that
did while its answer could still come, because what the code promises then is
less. In `StoredClient` a byte is a token that carries what the AEAD binds it to
(`chunkNonce`, `chunkAad`), so a stretch of ciphertext opens only as the very
chunk it was sealed as; the file is of a few bytes, cut into chunks of two and
parts of three, so parts and chunks never line up. In `Archive` a fixed-width
structure is as many bytes as tell its fields apart, and the bytes of a file may
themselves look like an end record. The bytes of the selected file and those of a
later version of it differ. The response of a download is one promise of bytes, of
which any number may have arrived; between the server and the browser lies the
network, so the server may settle it before the browser has all of it (`Settles`).

Definitions that stand directly above one with the same parameters and are
named for a mistake (`NeverBusy` above `Busy`, `ClosedAtOnce` above `Closed`)
are not part of any specification. They are the defects each property was tried
against: substituted for the definition below them, TLC must find the property
violated. `PROJECT.json` lists the pairs under `mutants`.

## What the runs check

| Run | Instance | Distinct states | Shows |
|---|---|---|---|
| `store_one` | 1 record, 1 code (also drawn by a live room), 2 parts, 2 queued calls, 2 reads, all ages | 221 542 | the blob, the commit, the read budget, the reader, removal, the refinement of `Transfer`, and that expired and abandoned records go |
| `store_two` | 2 records of 1 address, quota of 2 parts, 1 failing file operation of any kind | 1 088 124 | slots and the quota counter |
| `store_restart` | 2 records competing for 1 code, 1 crash at any step, boot included, 1 sidecar that cannot be read | 1 388 390 | codes, transfers that have both files, and published blobs across a restart |
| `guard` | 2 addresses, 2 codes, limit 2, window 2, 4 ticks | 410 730 | failures count once, one budget |
| `live_rooms` | 3 sockets of 2 addresses, 2 codes, buffer 1, 1 frame of backlog in a socket that starts a session | 387 871 | the rooms' properties and `ImplementsGuard` |
| `live_transfer` | 7 chunks, window 3, refill at 2, high water 1, either link | 143 714 | the transfer's safety, and that it ends |
| `session` | 1 sender, 1 receiver, equal or different passphrases, every timer, 1 cancel, 1 loss of a socket, the channel or the room | 352 008 | agreement on the link, frames that are heard, trust, the reason shown, and that set-up ends |
| `stored_client` | files of 0, 2 and 3 bytes, chunks of 2, parts of 3, 2 faults, 1 byte of a part appended by halves, cancels | 840 838 | upload, retry, revocation and download, and that both ends come to an end |
| `archive` | 2 to 4 files of up to 2 bytes, 4 names, a reader that lists 3, 1 rewrite on disk, of any length | 3 034 416 | length, contents, the reader's limit, names |
| `boot_counts`, `gone_for_good`, `waits_end` | as small as the case allows | to the first counterexample | the disagreements below |

Why the bounds are enough for the cases that matter. One record suffices for
what concerns a record alone: two queued calls give a part repeated behind
itself, a commit or revocation between the two, and a read budget of two lets a
delivery leave the record alive or end it. Two records give a sweep that walks
from one to the next, two reservations that overlap, and two sidecars with one
code; one fault or one crash can fall at every step. Three sockets give a host,
a receiver and an intruder, or two rooms of one address; a buffer of one reaches
congestion at the second frame. A window of three with a refill of two and seven
chunks goes through three refills, and a window above the high-water mark, as 32
chunks of 64 KiB are above 1 MiB, lets the sender block for either reason. Two
faults let a part lose its answer twice and still be sent, or an answer and a
revocation be lost together; a file of three bytes is two chunks and needs two
parts, one of two fits one chunk exactly, an empty one is a header, the metadata
and one empty chunk. Three files, two of one name, give a suffix and a directory
of several records; a fourth is one more than the reader lists. Symmetry is used
in runs of safety properties only.

The bounds by name: `MaxQueue`, `Ages`, `LiveCodes`, `MaxFaults` (Store),
`MaxCrashes` (StoreRestart), `MaxClock`, `MaxKept` (Guard), `MaxBacklog`
(LiveRooms: how far behind a socket may be that starts or joins a session),
`MaxTorn` and `MaxFaults` (StoredClient), `MaxFiles`, `MaxSize` and `Untouched`
(Archive: one file is written to, once); `MaxBuffer`, `MaxEntries` and
`CountWrap` are the code's own limits made small. Runs do not check for
deadlock: every system here may come to rest, and what must not rest is stated
as liveness.

### Fairness

`Store!Fairness`: Node runs every continuation that is ready, a file operation
completes or fails, and the interval timer starts sweep after sweep, each of
which comes to every record of its snapshot; a sweep may start while an earlier
one still awaits a removal. No client is assumed to do anything.
`LiveTransfer!Fairness`: continuations run, the link delivers what still can be
delivered, and timers fire; nobody has to choose a destination, to cancel, to
lose a connection or to fail a write. `Session!FairSpec`: what the two event
loops can do they do, the server passes on what it has while the room is open,
and timers fire (`Progress`); ICE need never connect, no user need act and
nothing need be lost. `StoredClient!FairSpec`: the uploading loop goes on and a
request is answered or fails in the end (`Uploads`, `Answered`); the downloading
loop goes on (`Downloads`); no late request need ever arrive. A broken
destination is exempt from `ClientsEnd`: the stored download has the loop that
`waits_end` is about.

The exemption in `SetupEnds` is a device whose own socket is lost in one of the
two waits without a clock, `waitForPeer` and the wait for the user's choice:
nothing in `signal.ts` reports the loss to it.

### Where the code and its documents disagree

- `boot_counts`: a record that `init` must not restore, because it expired
  while the server was down, has no blob or claims a code that is taken, goes
  through `destroy`, which takes its size off a counter that never held it; the
  quota then admits that much more for the life of the process (`store.js:114`
  and `:199`, against the comment on `destroy`). Without a restart the counter
  never reads low (`NeverUndercounted`).
- `gone_for_good`: a revoked transfer is restored if the process ends before
  the first removal (`store.js:193`, against `store.js:100`). The other half of
  the property, `RemovedFromDisk`, fails without a crash: a part still being
  appended when its upload is revoked or swept puts the blob and the sidecar back
  after they were removed, and nothing removes them before the next start
  (`store.js:348`, against the comment on `removeFile`). For a transfer that was
  *committed* this cannot happen (`CollectedIsGone`), since the commit waits for
  the append lock.
- `waits_end`: a sender waits forever when the direct connection goes while its
  buffer is above the mark (`link.ts:94-117`, against `deferred.ts:28`). The run
  has that link only and no failing destination. With `Links = {"relay"}` the same
  property fails on a device that loses its own socket and is told by nobody
  (`link.ts:141-148`, `signal.ts:33-54`); with `MayDrop = FALSE` and `SinkFails =
  TRUE`, on a failing destination that stops the drain task and not the receive
  loop (`liveReceive.ts:146-173`, against its own comment; the stored download
  has the same loop, `stored.ts:199-224`). `BothReleased` says what is true: a
  device comes to an end unless its own connection or its destination is what
  failed, and on a direct link the receiver does in any case.

Read off the models, without a run of their own:

- Overlapping reservations of one address pass the ceiling together
  (`store.js:236` and `:269`, against `config.js:61`). What is charged is exact
  all the same (`SlotExact`).
- A dropped connection can burn a one-read transfer (`routes.js:222`, against
  `routes.js:216`): `writableFinished` means handed to the operating system, so
  a connection that breaks after that counts as a delivery (`Settles`, then
  `Cut`). The other direction holds: a file handed over used its read.
- The sender is told that the file is no longer on the server whether or not the
  revocation got through (`transferScreen.ts:357`, over `api.ts:121-127`, which
  swallows the failure; `RevokeAnswered`). `FailureLeavesNothing` names that case.
- A part may be published twice over. When `appendFile` fails half-way, or the
  process ends between `appendFile` and `writeMeta` and is back within the
  client's three tries, the bytes stay in the blob and the part is still the one
  expected, so the repeat of `api.ts:98-104` is appended behind them
  (`store.js:348-353`, against `store.js:299-303`; `HalfDone`). The commit
  succeeds. What is published is not the container, so the receiver's AEAD
  refuses it, and where the blob is longer than its record the read is never
  counted. Hence the condition `"torn" \notin lost` of `UploadExact`;
  `DeliveredWhole` needs none for what it says of the file.
- A file that is rewritten with the same length while it is being archived
  enters the archive as it is by then, or in part as it was and in part as it
  is: `zip.ts:164` compares lengths (`FileChanges`, `SameSize`). `ArchiveWhole`
  says that every file comes out as it was read.
- A restart does orphan files (`store.js:12-13` says that it does not): `init`
  goes by the sidecars, so a blob without one is never found again. `destroy`
  removes the blob first, but a sidecar that `init` cannot read is removed alone
  (`store.js:124-126`, `BootDrops`), and a reservation cut off between its two
  writes has no sidecar yet. Hence the condition of `BothFilesFound`.
- The code of a live room is a miss to `GET /store/:code` and its `/meta`
  (`routes.js:171-175`), so twenty of those count against an address, and the
  per-code counter goes up for a code that is in use (`Collect`); it has no effect
  before that code is free again (`guard.js:56`).
- A part the server refuses for good is sent again: the error of a 4xx answer is
  thrown inside the `try` and caught by it (`api.ts:95-101`, against its
  comment; `TriesAgain`).
- Names are made unique unless one of them already ends in a number:
  `photo.jpg`, `photo.jpg` and `photo (1).jpg` become two `photo (1).jpg`
  (`zip.ts:95-101`, against the comment at `:86`); hence the condition of
  `NamesDiffer`.
- A selection of more than 65 535 files has a count that does not fit its two
  bytes (`zip.ts:243`), so the reader lists the beginning of the archive or gives
  it up (`EndRecord`, `Unreadable`), where `unzip.ts:11` says that no bundle of
  this program needs ZIP64; hence the condition `Len(files) < CountWrap` of
  `ArchiveWhole`. One of more than 20 000 is handed over whole (`MaxEntries`).

## What is proved

For every number of records, codes, addresses and sockets, every limit and every
choice of failing operations, from the named assumptions on the constants
(`ConstAssumption`, `GuardAssumption`, `LiveAssumption`, `TransferAssumption`,
`SessionAssumption`, `StoredAssumption`, `ArchiveAssumption`) and nothing else:

| Theorem | Property | Inductive invariant and why it is needed |
|---|---|---|
| `TypeCorrect` | `TypeOK` | with `LockOK`: whoever holds the append lock is in the queue, so `Head` is defined |
| `ReadBudgetHolds` | `ReadBudget` | `ReadInv`: a stream that is open belongs to the record that is `reading`, and its delivery still fits the budget |
| `CodesAreConsistent` | `CodesConsistent` | `CodesInv` with the life of a record: an id that is still being created holds its code, and only there may the registry be ahead of the maps |
| `BlobIsExact` | `BlobExact` | `UploadInv`: what each suspended step of an append has already done to the blob and not yet to the record |
| `CommittedStaysFrozen` | `CommittedFrozen` | the same, with: a committed record has no append past its check |
| `CollectedLeavesNothing` | `CollectedIsGone` | `GoneInv`: from the moment `destroy` is past the blob of a published record, not only once it has ended, because a sidecar still to be removed keeps `destroy` going |
| `SlotsAreExact` | `SlotExact` | `SlotInv`: a record that was created has an address, and `cleared` is set only by a commit or an end, so each of the two gives back what `createUpload` took and neither gives it back after the other |
| `ReadersAreUndisturbed` | `ReaderUndisturbed` | action property: a record ends by revocation, by an append that outgrew its limits, by the sweep or by its last delivery (`Endings`); `OfferInv` and the invariants above exclude the middle two while it is read, and leave no other reader when the last delivery ends it |
| `StoreImplementsTransfer` | `ImplementsTransfer` | step by step: under `Promise` the initial state maps to `Transfer!Init`, and each step of the store, file operations and suspended handlers included, to a step of `Transfer` or to a stutter; it needs the invariants above, `UploadInv` for the parts and `ReadInv` for the readers |
| `QuotaNeverUndercounts` | `NeverUndercounted` | the sum over the live records is the number of elements of a finite set with one element per unit, so what a step adds or takes away is a fact about cardinality |
| `RestartTypesCorrect`, `RestartKeepsCodes` | `RTypeOK`, `CodesConsistent` | `RInv`: the invariants of `Store` that speak of one life of the process, with `BootInv`: while `init` runs only removals are under way, and an id is named by a record exactly once its sidecar was read |
| `RestartFindsTransfers` | `BothFilesFound` | `DiskInv`, what every handler leaves on disk at each of its awaits: of a record that is over, the blob is gone or every sidecar on disk and on its way says deleted (`Leftover`), unless `removeFile` gave up |
| `PublishedStays` | `PublishedNeverRewritten` | `DiskInv`: a sidecar that says committed, on disk or on its way, belongs to a record into which no part can be written (`Sealed`), so whenever the process ends, what `init` loads refuses parts too |
| `FailuresCount`, `BudgetIsOne` | `OnlyFailuresCount`, `OneBudget` | `GuardInv`: attempts carry distinct places in time and an address holds finitely many, so a refund takes back exactly the attempt before it |
| `LiveTypesCorrect`, `RoomsAgree`, `LiveBudgetIsOne` | `TypeOK`, `RoomsConsistent`, `OneBudget` | `LiveInv`: both invariants, and that a socket that was admitted has an address |
| `LiveImplementsGuard` | `ImplementsGuard` | every event maps to a step of `Guard` or to none |
| `ChargesAreExact` | `ChargedExactly` | `ChargeInv`: the two counters separately, with the set each one counts changing by one element |
| `ReceiverStays`, `FramesStayInPair`, `LosersAreTold` | `ReceiverKept`, `RelayedWithinPair`, `NobodyLeftWaiting` | action properties from `LiveInv`, one lemma per event |
| `TransferTypesCorrect` | `TypeOK` of `LiveTransfer` | with `SenderInv`: between the top of the loop and the link there is always a chunk left to send |
| `WindowRespected` | `WindowHolds` | `CreditInv`: credits in hand, taken, spent, due for every message on the way and counted towards the next are never more than the window and what the receiver counted; it needs `ControlInv` (the first message is the only `READY`, every later credit is a whole refill) and `PathInv` (what lies between the two loops is the difference of their counters) |
| `VerifiedIsTrue` | `VerifiedMeansWritten` | `PathInv` with `DrainInv`: every queue holds consecutive chunks, and what was taken off the pump is written, being written or in the stream's queue |
| `ConfirmationIsHeard` | `ConfirmationHeard` | `HeardInv`: while the connections hold, the sender's pump is closed only behind the receiver's last word, and a pump that drained has nothing left in it |
| `SessionTypesCorrect` | `TypeOK` of `Session` | `SetupInv` |
| `LinksAgreed` | `LinksAgree` | `ToldInv`: what a device was told of the other, or will be, is so; `DecidedInv`: the direct link is used after two successes, the relay after a failure or by a device that was left or has left |
| `NoFrameDropped` | `NothingDropped` | `FrameOn`: a frame under way was sent over the sender's own link, and while nothing was lost or late the receiver has attached to that link |
| `PayloadFromPeer` | `PayloadTrusted` | `FramesInv`: what the receiver took came over a link both had decided on, from a sender whose handshake is done; a sender's is done only if the passphrases match |
| `WrongPassphraseTold` | `AuthTold` | `AuthInv`: the sender always finds out first (`StepsInv`, `BlameInv`), and its abort lies ahead of the news of its end in the one queue that leads to the receiver (`Warned`), which waits for nothing that could end it before it hears the abort |
| `ClientTypesCorrect` | `TypeOK` of `StoredClient` | `UpTyped` and `ReadingOK`: what is asked of a source or a cursor is within what is left of it |
| `FailuresLeaveNothing` | `FailureLeavesNothing` | `CallInv`: at most one request is waited for, and what else is in `net` comes late; `RevokeInv`: the slot is gone from the answer of the revocation on, not only when the upload has failed |
| `RetriesSurvive` | `RetrySurvives` | `OrderInv`: the server is at most one part ahead of the answer, and what is under way for the part in hand carries its very bytes; `CommitInv`: only a complete upload is committed; `RetryInv`: every attempt has cost a fault |
| `UploadsAreExact` | `UploadExact` | `RechunkInv`: what the source handed over is what is sealed, about to be sealed, held back and being filled, in this order; `StreamInv`: the server's blob, the part being filled and what `sealStream` gave out are the container so far, unless a part was appended by halves; `StrayInv`: while none was, the record's size is the blob's |
| `DeliveriesAreWhole` | `DeliveredWhole` | `UploadsAreExact` with `GenuineInv`: even after a part was appended by halves, every byte the server holds is one the sender sealed, so whatever opens is the chunk it says it is; `FeedInv`: what is written and what waits to be written are the chunks opened, in order; and `EndInv`: the ciphertext in hand ends where the cursor is, and a chunk marked last is the last of the file; `CountInv`: a response that was neither cut nor longer than its record counts its read |
| `EntriesDiffer` | `NamesDiffer` | no step changes the selection; of two files with one key the later has more before it (`BeforeGrows`, a fact about cardinality), so their suffixes differ |
| `ArchivesAreWhole` | `ArchiveWhole` | `ArchiveInv`: what was written is whole entries, then the header and the first part of the entry in hand, unless its file is no longer what was promised, and then the stream can only fail; `OutIs`, `EndIs`, `RecordIs`, `CutIs` read the finished archive back the way `unzip.ts` does |

Some of these speak of values defined by recursion: the bytes charged (a fold
over the live records), the container and the archive (`FlattenSeq` over their
parts), the declared length and the positions of the directory's records. The
library's induction theorems take an operator as a parameter, which the provers
cannot instantiate, so each of these inductions is written as a least counterexample,
from the well-foundedness of `<` on the numbers (`NatInduct`) and of strict
inclusion on the subsets of a finite set (`SmallestSet`).

The theorems on restarts hold for any number of crashes, at any step of a handler
or of `init`, and with failing file operations, where the run has one crash and
one unreadable sidecar.

Only model-checked. Liveness (`TimeEndsThem`, `BothReleased`, `SetupEnds`,
`ClientsEnd`) rests on fairness and so on `ENABLED`, which the prover does not
handle. The three disagreements above are counterexamples, which TLC finds.

## Plan

Done, in this order: `Store` with `Transfer`, `StoreRestart`, `Guard`,
`LiveRooms`, `LiveTransfer`, `Session`, `StoredClient`, `Archive`.

To come. Proofs: the slots of an address across restarts. Models:
the compressed path of a live transfer, where gzip stands between the pushed
stream and the chunks; how far overlapping appends may take `bytesOnDisk` past
its quota (`store.js:343`); `StoredClient` composed with `Store`, file
operations included, instead of with its answers.

## Not modelled, and why

The group arithmetic of the key exchange, key derivation and AEAD are external
primitives: the models use what they promise. Gzip, archives made elsewhere
(deflated entries, ZIP64, directories) and the checksum are formats of others,
tested in the repository over real data. QR codes and passphrases are pure
encodings whose reference definition would be as long as the code. The service
worker caches the application's shell and lets every transfer request pass; when
a new version takes over is the browser's life cycle. The interface is rendering,
apart from what it does to a transfer, which is modelled: cancelling, choosing a
destination, deleting, and what the sender is told. What ICE does between two
browsers is a choice of the model. The init rate limit of the routes uses the
same `RateLimiter` as the guard, without refunds. `resolveIp`, headers, origins,
path prefixes and static files are configuration.
