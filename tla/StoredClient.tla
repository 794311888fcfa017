---------------------------- MODULE StoredClient ----------------------------
(***************************************************************************)
(* Store and forward as the two browsers see it: the upload of              *)
(* session/stored.ts through transport/api.ts, the download of the same     *)
(* file, and what the sender's screen says, against the answers of          *)
(* routes.js and store.js.  Requests may be lost, answered late or after    *)
(* the caller gave up; the server may drop the transfer at any time.        *)
(*                                                                         *)
(* A byte is a token.  A sealed chunk is its body and one tag; each token   *)
(* carries what the AEAD binds it to (counter, final flag, body), so a      *)
(* stretch of ciphertext opens only as the very chunk it was sealed as.     *)
(* With compression the file is the compressed stream: nothing here looks   *)
(* at what the bytes are.                                                   *)
(*                                                                         *)
(* A definition directly above one with the same parameters, and named for  *)
(* what it gets wrong, is a defect the properties are tried against.        *)
(***************************************************************************)
EXTENDS Naturals, Sequences, SequencesExt

CONSTANTS
    Sizes,       \* lengths of the file, in bytes
    ChunkSize,   \* plaintext bytes per sealed chunk
    PartSize,    \* bytes per upload request
    MaxFaults,   \* how many things may go wrong
    MaxTorn      \* how many bytes of a part may stay of an append that failed

ASSUME StoredAssumption ==
    /\ Sizes \subseteq Nat
    /\ {ChunkSize, PartSize} \subseteq Nat \ {0}
    /\ {MaxFaults, MaxTorn} \subseteq Nat

VARIABLES
    up,          \* the sender: storedSend, rechunk and uploadPart
    down,        \* the receiver: storedReceive and ByteCursor
    sink,        \* the receiver's destination
    server,      \* the record of the transfer on the server
    net,         \* requests under way
    screen,      \* what the sender is told
    aborted,     \* the AbortControllers the users have fired
    faults,      \* how many things went wrong
    lost         \* what was lost in a way its sender could not know

vars == <<up, down, sink, server, net, screen, aborted, faults, lost>>

----------------------------------------------------------------------------
(* The container *)

Least(a, b) == IF a < b THEN a ELSE b

Tag == 1

SealedMeta == 1 + Tag

\* The nonce and the associated data of a chunk are made of these two.
Bound(i, final) == [chunk |-> i, final |-> final]

Seal(i, final, body) ==
    [k \in 1..Len(body) + Tag |-> [bound |-> Bound(i, final), of |-> body, at |-> k]]

OpensAnyhow(c, i, final) == c # <<>> /\ c = Seal(i, c[1].bound.final, c[1].of)

\* The AEAD accepts a chunk only at its place, whole, and as last or not last.
Opens(c, i, final) == c # <<>> /\ c = Seal(i, final, c[1].of)

Header == <<[bound |-> Bound(0, FALSE), of |-> <<>>, at |-> 0]>>

Metadata == Seal(0, FALSE, <<0>>)

File == [k \in 1..up.size |-> k]

\* What the container of a file is, whatever way it was produced.
Container(n) ==
    LET whole == (n + ChunkSize - 1) \div ChunkSize
        count == IF whole = 0 THEN 1 ELSE whole
        Piece(j) == [k \in 1..Least(ChunkSize, n - (j - 1) * ChunkSize) |->
                        (j - 1) * ChunkSize + k]
    IN  Header \o Metadata
          \o FlattenSeq([j \in 1..count |-> Seal(j, j = count, Piece(j))])

SealedTotalLength(n) ==
    LET full == n \div ChunkSize
        rest == n - full * ChunkSize
    IN  1 + SealedMeta + full * (ChunkSize + Tag)
          + (IF rest > 0 \/ n = 0 THEN rest + Tag ELSE 0)

----------------------------------------------------------------------------
(* Types *)

Bytes == Seq(UNION {0..n : n \in Sizes})

Token == [bound : [chunk : Nat, final : BOOLEAN], of : Bytes, at : Nat]

Status == {"ok", "4xx", "5xx", "error"}

Request == [op : {"part", "commit", "revoke"}, index : Nat, body : Seq(Token),
            live : BOOLEAN]        \* the caller still waits for the answer

Upload ==
    [pc : {"init", "send", "part", "commit", "revoke", "stored", "deleting", "deleted",
           "failed"},
     size    : Sizes,
     at      : Nat,                \* bytes read from the source
     input   : Bytes,              \* the rest of the last piece read
     chunk   : Bytes,              \* rechunk: buffer.subarray(0, filled)
     pending : Seq(Bytes),         \* rechunk: the chunk held back
     ended   : BOOLEAN,            \* rechunk: the source is done
     yields  : Seq([bytes : Bytes, final : BOOLEAN]),
     counter : Nat,                \* ChunkSealer.counter
     out     : Seq(Token),         \* what push has not copied yet
     buffer  : Seq(Token),         \* the part being filled
     index   : Nat,                \* partIndex
     try     : 0..2,               \* attempt
     fetch   : {"none", "waiting"} \cup Status,
     why     : {"none", "init", "source", "cancelled", "part", "commit"}]

Download ==
    [pc : {"idle", "header", "meta", "dest", "chunk", "end", "push", "drain", "done",
           "failed"},
     right   : BOOLEAN,            \* the passphrase is the sender's
     arrived : Nat, pos : Nat,     \* ByteCursor: bytes received, bytes read
     eof     : BOOLEAN,
     sealed  : Seq(Token),
     counter : Nat,                \* ChunkOpener.counter
     last    : BOOLEAN]            \* isFinal, ChunkOpener.finished

Record ==
    [slot    : {"none", "open", "committed", "gone"},
     next    : Nat,                \* nextIndex
     blob    : Seq(Token),
     stray   : Nat,                \* bytes of the blob that record.size leaves out
     conn    : {"none", "open", "cut", "settled"},
     counted : BOOLEAN]            \* the read was counted

\* The last clauses bound what is held in memory.
TypeOK ==
    /\ up \in Upload /\ down \in Download /\ server \in Record
    /\ sink \in [state : {"none", "open", "broken", "closed", "aborted"},
                 written : Bytes, feed : Seq(Bytes)]
    /\ net \subseteq Request
    /\ screen \in {"working", "cancelled", "failed", "stored", "deleted"}
    /\ aborted \subseteq {"sender", "receiver"}
    /\ faults \in 0..MaxFaults
    /\ lost \subseteq {"part", "commit", "revoke", "slot", "download", "torn", "end"}
    /\ Len(up.buffer) <= PartSize /\ Len(up.chunk) < ChunkSize
    /\ Len(up.pending) <= 1 /\ Len(sink.feed) <= 2

Init ==
    /\ \E n \in Sizes :
         up = [pc |-> "init", size |-> n, at |-> 0, input |-> <<>>, chunk |-> <<>>,
               pending |-> <<>>, ended |-> FALSE, yields |-> <<>>, counter |-> 0,
               out |-> <<>>, buffer |-> <<>>, index |-> 0, try |-> 0, fetch |-> "none",
               why |-> "none"]
    /\ down = [pc |-> "idle", right |-> TRUE, arrived |-> 0, pos |-> 0, eof |-> FALSE,
               sealed |-> <<>>, counter |-> 0, last |-> FALSE]
    /\ sink = [state |-> "none", written |-> <<>>, feed |-> <<>>]
    /\ server = [slot |-> "none", next |-> 0, blob |-> <<>>, stray |-> 0,
                 conn |-> "none", counted |-> FALSE]
    /\ net = {}
    /\ screen = "working"
    /\ aborted = {}
    /\ faults = 0
    /\ lost = {}

----------------------------------------------------------------------------
(* The upload *)

Up(v) == up' = v /\ UNCHANGED <<down, sink, server, net, screen, aborted, faults, lost>>

Fault == faults < MaxFaults /\ faults' = faults + 1

\* Whatever goes wrong after the slot was reserved leads through the catch.
Throws(v, why) == [v EXCEPT !.pc = "revoke", !.why = why, !.fetch = "none"]

Reserved ==
    /\ up.pc = "init"
    /\ up' = [up EXCEPT !.pc = "send", !.out = Header \o Metadata, !.counter = 1]
    /\ server' = [server EXCEPT !.slot = "open"]
    /\ UNCHANGED <<down, sink, net, screen, aborted, faults, lost>>

\* The reservation is refused, or it is made and the answer does not arrive:
\* there is no ticket to revoke, and the slot is left to the sweeper.
NotReserved ==
    /\ up.pc = "init"
    /\ Fault
    /\ up' = [up EXCEPT !.pc = "failed", !.why = "init"]
    /\ \/ UNCHANGED <<server, lost>>
       \/ /\ server' = [server EXCEPT !.slot = "open"]
          /\ lost' = lost \cup {"slot"}
    /\ screen' = IF "sender" \in aborted THEN screen ELSE "failed"
    /\ UNCHANGED <<down, sink, net, aborted>>

Sending == up.pc = "send" /\ up.out = <<>> /\ up.yields = <<>>

\* push: copies into the part; a full part is flushed before it goes on.
Pushes ==
    /\ up.pc = "send" /\ up.out # <<>>
    /\ LET take == Least(PartSize - Len(up.buffer), Len(up.out))
           part == up.buffer \o SubSeq(up.out, 1, take)
       IN  Up([up EXCEPT !.buffer = part,
                         !.out = SubSeq(@, take + 1, Len(@)),
                         !.pc = IF Len(part) = PartSize THEN "part" ELSE @])

Seals ==
    /\ up.pc = "send" /\ up.out = <<>> /\ up.yields # <<>>
    /\ Up(IF "sender" \in aborted THEN Throws(up, "cancelled")
          ELSE LET y == up.yields[1]
               IN  [up EXCEPT !.out = Seal(up.counter, y.final, y.bytes),
                              !.counter = @ + 1, !.yields = Tail(@)])

\* The source hands over pieces of any length.
Reads ==
    /\ Sending /\ up.input = <<>> /\ up.at < up.size
    /\ \E k \in 1..up.size - up.at :
         Up([up EXCEPT !.input = SubSeq(File, up.at + 1, up.at + k), !.at = @ + k])

SourceFails ==
    /\ Sending /\ up.input = <<>> /\ ~up.ended
    /\ Fault
    /\ up' = Throws(up, "source")
    /\ UNCHANGED <<down, sink, server, net, screen, aborted, lost>>

Yield(bytes, final) == [bytes |-> bytes, final |-> final]

HeldBack(final) == [j \in 1..Len(up.pending) |-> Yield(up.pending[j], final)]

\* rechunk: a full chunk pushes out the one held back.
Fills ==
    /\ Sending /\ up.input # <<>>
    /\ LET take == Least(ChunkSize - Len(up.chunk), Len(up.input))
           chunk == up.chunk \o SubSeq(up.input, 1, take)
           rest == SubSeq(up.input, take + 1, Len(up.input))
       IN  Up(IF Len(chunk) < ChunkSize
              THEN [up EXCEPT !.chunk = chunk, !.input = rest]
              ELSE [up EXCEPT !.chunk = <<>>, !.input = rest,
                              !.yields = HeldBack(FALSE), !.pending = <<chunk>>])

\* A file that fills its last chunk exactly ends with an empty one.
LastYieldsAlwaysShort == HeldBack(FALSE) \o <<Yield(up.chunk, TRUE)>>

LastYields ==
    IF up.chunk # <<>> \/ up.pending = <<>>
    THEN HeldBack(FALSE) \o <<Yield(up.chunk, TRUE)>>
    ELSE HeldBack(TRUE)

SourceEnds ==
    /\ Sending /\ up.input = <<>> /\ up.at = up.size /\ ~up.ended
    /\ Up([up EXCEPT !.ended = TRUE, !.yields = LastYields, !.chunk = <<>>,
                     !.pending = <<>>])

Flushes ==
    /\ Sending /\ up.ended
    /\ Up([up EXCEPT !.pc = IF up.buffer = <<>> THEN "commit" ELSE "part"])

\* A fetch whose signal has fired rejects at once.
Asks(op) ==
    /\ up.fetch = "none"
    /\ net' = net \cup {[op |-> op, index |-> up.index, live |-> TRUE,
                        body |-> IF op = "part" THEN up.buffer ELSE <<>>]}
    /\ up' = [up EXCEPT !.fetch = "waiting"]
    /\ UNCHANGED <<down, sink, server, screen, aborted, faults, lost>>

PartSent ==
    /\ up.pc = "part"
    /\ IF "sender" \in aborted
       THEN up.fetch = "none" /\ Up(Throws(up, "cancelled"))
       ELSE Asks("part")

Unheard(r) == [r EXCEPT !.live = FALSE]

\* The request that was aborted may have reached the server all the same.
PartAborted ==
    /\ up.pc = "part" /\ up.fetch = "waiting" /\ "sender" \in aborted
    /\ \E r \in net : r.live
         /\ net' \in {net \ {r}, (net \ {r}) \cup {Unheard(r)}}
    /\ up' = Throws(up, "cancelled")
    /\ UNCHANGED <<down, sink, server, screen, aborted, faults, lost>>

TriesAgainUncounted(v) == [v EXCEPT !.fetch = "none"]

TriesAgainOnceMore(v) ==
    IF v.try < 3 THEN [v EXCEPT !.try = @ + 1, !.fetch = "none"]
    ELSE Throws(v, "part")

TriesAgain(v) ==
    IF v.try < 2 THEN [v EXCEPT !.try = @ + 1, !.fetch = "none"]
    ELSE Throws(v, "part")

\* A 4xx is thrown inside the try, so it is repeated like any other failure.
PartAnswered ==
    /\ up.pc = "part" /\ up.fetch \in Status
    /\ Up(IF up.fetch = "ok"
          THEN [up EXCEPT !.pc = "send", !.index = @ + 1, !.buffer = <<>>, !.try = 0,
                          !.fetch = "none"]
          ELSE IF "sender" \in aborted /\ up.fetch # "5xx" THEN Throws(up, "cancelled")
          ELSE TriesAgain(up))

CommitSent == up.pc = "commit" /\ Asks("commit")

GivesUpQuietly(v) == [v EXCEPT !.pc = "failed", !.why = "commit"]

GivesUp(v) == Throws(v, "commit")

\* The result is shown even over `Cancelled.`: the commit has no signal.
CommitAnswered ==
    /\ up.pc = "commit" /\ up.fetch \in Status
    /\ IF up.fetch = "ok"
       THEN /\ up' = [up EXCEPT !.pc = "stored", !.fetch = "none"]
            /\ screen' = "stored"
       ELSE up' = GivesUp(up) /\ UNCHANGED screen
    /\ UNCHANGED <<down, sink, server, net, aborted, faults, lost>>

RevokeSent == up.pc \in {"revoke", "deleting"} /\ Asks("revoke")

\* Best effort: nobody looks at the answer.
RevokeAnswered ==
    /\ up.pc \in {"revoke", "deleting"} /\ up.fetch \in Status
    /\ up' = [up EXCEPT !.pc = IF @ = "revoke" THEN "failed" ELSE "deleted",
                        !.fetch = "none"]
    /\ screen' = IF up.pc = "deleting" THEN "deleted"
                 ELSE IF "sender" \in aborted THEN screen ELSE "failed"
    /\ UNCHANGED <<down, sink, server, net, aborted, faults, lost>>

SenderCancels ==
    /\ screen = "working"
    /\ screen' = "cancelled"
    /\ aborted' = aborted \cup {"sender"}
    /\ UNCHANGED <<up, down, sink, server, net, faults, lost>>

SenderDeletes == up.pc = "stored" /\ Up([up EXCEPT !.pc = "deleting"])

----------------------------------------------------------------------------
(* The server's answers *)

Current(r) == CASE server.slot = "gone" -> "4xx"
                [] server.slot = "committed" /\ r.op = "part" -> "4xx"
                [] OTHER -> "ok"

IsDuplicateNever(r) == FALSE

IsDuplicate(r) == r.index + 1 = server.next

Answer(r) ==
    IF r.op = "part" /\ Current(r) = "ok" /\ ~IsDuplicate(r) /\ r.index # server.next
    THEN "4xx" ELSE Current(r)

\* The append, its counters and the sidecar are one step; what a revocation in
\* between leaves on the disk is the matter of Store (RemovedFromDisk).
After(r) ==
    IF Answer(r) # "ok" THEN server
    ELSE CASE r.op = "commit" -> [server EXCEPT !.slot = "committed"]
           [] r.op = "revoke" -> [server EXCEPT !.slot = "gone"]
           [] r.op = "part" /\ IsDuplicate(r) -> server
           [] OTHER -> [server EXCEPT !.blob = @ \o r.body, !.next = r.index + 1]

Answers(r) ==
    /\ server' = After(r)
    /\ net' = net \ {r}
    /\ up' = IF r.live THEN [up EXCEPT !.fetch = Answer(r)] ELSE up
    /\ UNCHANGED <<down, sink, screen, aborted, faults, lost>>

Late == \E r \in net : ~r.live /\ Answers(r)

Answered == \E r \in net : r.live /\ Answers(r)

\* appendFile fails half-way, or the process ends before the part it appended is
\* in the sidecar: the bytes stay and the part is still the one expected.  A
\* process that starts again takes the size from the file.
HalfDone(r) ==
    /\ r.op = "part" /\ Answer(r) = "ok" /\ ~IsDuplicate(r)
    /\ \E k \in 1..Least(MaxTorn, Len(r.body)), restarted \in BOOLEAN :
          server' = [server EXCEPT !.blob = @ \o SubSeq(r.body, 1, k),
                                   !.stray = IF restarted THEN 0 ELSE @ + k]

Effect(r) ==
    \/ server' \in {server, After(r)} /\ lost' = lost \cup {r.op}
    \/ HalfDone(r) /\ lost' = lost \cup {r.op, "torn"}

\* The connection or the server fails, before, after or within the effect, or
\* the request comes through after its sender stopped waiting.
RequestFails ==
    \E r \in net :
      /\ r.live
      /\ Fault
      /\ \/ Effect(r) /\ net' = net \ {r}
         \/ /\ net' = (net \ {r}) \cup {Unheard(r)}
            /\ lost' = lost \cup {r.op}
            /\ UNCHANGED server
      /\ \E s \in {"5xx", "error"} : up' = [up EXCEPT !.fetch = s]
      /\ UNCHANGED <<down, sink, screen, aborted>>

\* A part its sender gave up is appended by halves while it is sent again.
LateFails ==
    \E r \in net :
      /\ ~r.live
      /\ Fault
      /\ Effect(r) /\ net' = net \ {r}
      /\ UNCHANGED <<up, down, sink, screen, aborted>>

\* Expiry, the sweeper, the size limit and the quota.
ServerDrops ==
    /\ server.slot \in {"open", "committed"}
    /\ Fault
    /\ server' = [server EXCEPT !.slot = "gone"]
    /\ lost' = lost \cup {"slot"}
    /\ UNCHANGED <<up, down, sink, net, screen, aborted>>

----------------------------------------------------------------------------
(* The download *)

Down(v) == down' = v /\ UNCHANGED <<up, sink, server, net, screen, aborted, faults, lost>>

Queued == down.arrived - down.pos

\* The receiver enters the code and a passphrase, the right one or not.
Starts ==
    /\ down.pc = "idle" /\ server.slot # "none"
    /\ IF server.slot = "committed"
       THEN /\ \E r \in BOOLEAN : down' = [down EXCEPT !.pc = "header", !.right = r]
            /\ server' = [server EXCEPT !.conn = "open"]
       ELSE /\ down' = [down EXCEPT !.pc = "failed"]
            /\ UNCHANGED server
    /\ UNCHANGED <<up, sink, net, screen, aborted, faults, lost>>

\* What the response promises: record.size.  A blob that is longer is sent in
\* full, and the browser takes as much of it as was promised.
Promised == Len(server.blob) - server.stray

\* What finish is given: writableFinished, and as many bytes as were promised.
SettlesWhole(ended) == ended /\ server.stray = 0

\* The response is closed: by its end, once everything was handed to the network,
\* however much of it the receiver has got, or before it.
Settles ==
    \E ended \in BOOLEAN :
      /\ server.conn = "cut" \/ (server.conn = "open" /\ ended)
      /\ LET whole == SettlesWhole(ended)
         IN  server' = [server EXCEPT !.conn = "settled", !.counted = whole,
                                      !.slot = IF whole THEN "gone" ELSE @]
      /\ UNCHANGED <<up, down, sink, net, screen, aborted, faults, lost>>

Wanted == CASE down.pc = "header" -> 1
            [] down.pc = "meta"   -> SealedMeta
            [] down.pc = "chunk"  -> ChunkSize + Tag
            [] down.pc = "end"    -> 1
            [] OTHER              -> 0

\* ByteCursor.fill
Fetching == Queued < Wanted /\ ~down.eof

Arrives ==
    /\ Fetching /\ "receiver" \notin aborted
    /\ \/ \E k \in 1..Promised - down.arrived :
            Down([down EXCEPT !.arrived = @ + k])
       \/ down.arrived = Promised /\ Down([down EXCEPT !.eof = TRUE])

Read == Wanted > 0 /\ ~Fetching

Took(n) == SubSeq(server.blob, down.pos + 1, down.pos + Least(n, Queued))

SinkAborted == [sink EXCEPT !.state = IF @ = "none" THEN @ ELSE "aborted", !.feed = <<>>]

Closed == [server EXCEPT !.conn = IF @ = "open" THEN "cut" ELSE @]

\* The catch of storedReceive: the sink is aborted and the body cancelled.
Stops ==
    /\ down' = [down EXCEPT !.pc = "failed"]
    /\ sink' = SinkAborted
    /\ server' = Closed
    /\ UNCHANGED <<up, net, screen, aborted, faults, lost>>

\* The connection is lost: the body errors, or ends as if it were complete.
Cut ==
    /\ Fetching /\ down.arrived < Promised
    /\ Fault
    /\ lost' = lost \cup {"download"}
    /\ server' = Closed
    /\ \/ down' = [down EXCEPT !.eof = TRUE] /\ UNCHANGED sink
       \/ down' = [down EXCEPT !.pc = "failed"] /\ sink' = SinkAborted
    /\ UNCHANGED <<up, net, screen, aborted>>

\* It is lost when the receiver has everything and the server has not ended it.
CutAtEnd ==
    /\ server.conn = "open" /\ down.arrived = Promised
    /\ Fault
    /\ lost' = lost \cup {"end"}
    /\ server' = Closed
    /\ UNCHANGED <<up, down, sink, net, screen, aborted>>

HeaderRead ==
    /\ down.pc = "header" /\ Read
    /\ IF Queued < 1 THEN Stops ELSE Down([down EXCEPT !.pc = "meta", !.pos = @ + 1])

MetaRead ==
    /\ down.pc = "meta" /\ Read
    /\ IF Queued < SealedMeta \/ ~down.right \/ ~Opens(Took(SealedMeta), 0, FALSE)
       THEN Stops
       ELSE Down([down EXCEPT !.pc = "dest", !.pos = @ + SealedMeta, !.counter = 1])

\* The user has chosen where the file goes; the signal is looked at only then.
Chosen ==
    /\ down.pc = "dest"
    /\ IF "receiver" \in aborted
       THEN /\ down' = [down EXCEPT !.pc = "failed"]
            /\ sink' = [sink EXCEPT !.state = "aborted"]
            /\ server' = Closed
       ELSE /\ down' = [down EXCEPT !.pc = "chunk"]
            /\ sink' = [sink EXCEPT !.state = "open"]
            /\ UNCHANGED server
    /\ UNCHANGED <<up, net, screen, aborted, faults, lost>>

ChunkRead ==
    /\ down.pc = "chunk" /\ Read
    /\ IF Queued = 0 THEN Stops
       ELSE Down([down EXCEPT !.pc = "end", !.sealed = Took(ChunkSize + Tag),
                              !.pos = @ + Least(ChunkSize + Tag, Queued)])

\* What follows the chunk says whether it was the last; the AEAD has to agree.
ChunkOpened ==
    /\ down.pc = "end" /\ Read
    /\ LET final == Queued = 0
       IN  IF ~Opens(down.sealed, down.counter, final) THEN Stops
           ELSE /\ down' = [down EXCEPT !.pc = "push", !.counter = @ + 1, !.last = final,
                                        !.sealed = <<>>]
                /\ sink' = [sink EXCEPT !.feed = Append(@, down.sealed[1].of)]
                /\ UNCHANGED <<up, server, net, screen, aborted, faults, lost>>

\* backpressuredSource.push: one chunk is being written, none waits behind it.
PushReturns == Len(sink.feed) <= 1

Pushed ==
    /\ down.pc = "push" /\ PushReturns
    /\ Down([down EXCEPT !.pc = IF down.last THEN "drain" ELSE "chunk"])

\* The drain task.
Writes ==
    /\ sink.state = "open" /\ sink.feed # <<>>
    /\ sink' = [sink EXCEPT !.written = @ \o sink.feed[1], !.feed = Tail(@)]
    /\ UNCHANGED <<up, down, server, net, screen, aborted, faults, lost>>

\* A write is rejected: the drain task ends, and nothing takes from the feed.
WriteFails ==
    /\ sink.state = "open" /\ sink.feed # <<>>
    /\ Fault
    /\ sink' = [sink EXCEPT !.state = "broken"]
    /\ UNCHANGED <<up, down, server, net, screen, aborted, lost>>

Drained ==
    /\ down.pc = "drain"
    /\ \/ sink.state = "broken" /\ Stops
       \/ /\ sink.state = "open" /\ sink.feed = <<>>
          /\ down' = [down EXCEPT !.pc = "done"]
          /\ sink' = [sink EXCEPT !.state = "closed"]
          /\ UNCHANGED <<up, server, net, screen, aborted, faults, lost>>

\* sink.close is rejected, after everything was written.
CloseFails ==
    /\ down.pc = "drain" /\ sink.state = "open" /\ sink.feed = <<>>
    /\ Fault
    /\ down' = [down EXCEPT !.pc = "failed"]
    /\ sink' = SinkAborted
    /\ server' = Closed
    /\ UNCHANGED <<up, net, screen, aborted, lost>>

ReceiverCancels ==
    /\ down.pc \notin {"idle", "done", "failed"} /\ "receiver" \notin aborted
    /\ aborted' = aborted \cup {"receiver"}
    /\ UNCHANGED <<up, down, sink, server, net, screen, faults, lost>>

\* The signal ends the body; between two chunks it is looked at as well.
ReceiverAborted ==
    /\ "receiver" \in aborted
    /\ down.pc = "chunk" \/ Fetching
    /\ Stops

----------------------------------------------------------------------------
(* The specification *)

Uploads == Reserved \/ Pushes \/ Seals \/ Reads \/ Fills \/ SourceEnds \/ Flushes
           \/ PartSent \/ PartAborted \/ PartAnswered \/ CommitSent \/ CommitAnswered
           \/ RevokeSent \/ RevokeAnswered

Downloads == Settles \/ Arrives \/ HeaderRead \/ MetaRead \/ ChunkRead
             \/ ChunkOpened \/ Pushed \/ Writes \/ Drained \/ ReceiverAborted

Users == SenderCancels \/ SenderDeletes \/ Starts \/ Chosen \/ ReceiverCancels

Faulty == NotReserved \/ SourceFails \/ RequestFails \/ LateFails \/ ServerDrops
          \/ Cut \/ CutAtEnd \/ WriteFails \/ CloseFails

Next == Uploads \/ Answered \/ Late \/ Downloads \/ Users \/ Faulty

Spec == Init /\ [][Next]_vars

\* A fetch is answered or fails in the end, and both event loops go on.
FairSpec == Spec /\ WF_vars(Uploads \/ Answered) /\ WF_vars(Downloads)

----------------------------------------------------------------------------
(* Properties *)

\* A transfer that can be collected, or that the sender was told is stored, is
\* the container of the whole file, byte for byte and of the length declared,
\* whatever was repeated, answered late or lost on the way (stored.ts:95-138),
\* unless a part was appended by halves: it is sent again behind what is left of
\* it (api.ts:98-104, store.js:348).
UploadExact ==
    /\ server.slot = "committed" \/ up.pc \in {"stored", "deleting", "deleted"}
    /\ "torn" \notin lost
    => /\ server.blob = Container(up.size) /\ server.stray = 0
       /\ Len(server.blob) = SealedTotalLength(up.size)

\* An upload that failed after its slot was reserved leaves no record on the
\* server, not even that of a commit whose answer was lost or that comes late,
\* unless the revocation itself did not get through: nobody can collect it
\* (stored.ts:144-148).
FailureLeavesNothing ==
    up.pc = "failed" /\ up.why # "init" /\ "revoke" \notin lost => server.slot = "gone"

\* Two lost requests or answers never end an upload: the part is sent again and
\* the server knows it (api.ts:71-75, store.js:299-303).
RetrySurvives == up.why = "part" => "slot" \in lost \/ faults > 2

\* What is handed to the user is the sender's file, whole and in order, and was
\* sealed under the passphrase typed: a download that was cut, even where a
\* chunk ends, and a blob that holds part of itself twice are never taken for
\* the whole (stored.ts:218-229).  Once the response is closed, the read it took
\* is counted (routes.js:215-219), unless the connection was lost just before
\* its end, or the blob is longer than its record says.
DeliveredWhole ==
    /\ sink.state = "closed" => down.right /\ sink.written = File
    /\ sink.state = "closed" /\ server.conn = "settled" /\ {"torn", "end"} \cap lost = {}
         => server.counted
    /\ IsPrefix(sink.written, IF down.right THEN File ELSE <<>>)

UploadOver == up.pc \in {"stored", "deleted", "failed"}

\* A broken destination is the finding of LiveTransfer; the wait for the user's
\* choice has no end of its own.
DownloadOver ==
    down.pc \in {"idle", "dest", "done", "failed"} \/ sink.state = "broken"

\* The upload and the download come to an end, with a result or an error.
ClientsEnd == <>[](UploadOver /\ DownloadOver)
=============================================================================
