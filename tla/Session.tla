------------------------------ MODULE Session ------------------------------
(***************************************************************************)
(* Setting up one live session, from the room to the accepted metadata:     *)
(* liveSend.ts and liveReceive.ts up to the transfer, the handshake of      *)
(* session/handshake.ts and crypto/kex.ts, the direct attempt of            *)
(* transport/p2p.ts, the agreement of transport/link.ts and the event       *)
(* replay of transport/signal.ts.  Where it ends, LiveTransfer begins.      *)
(*                                                                         *)
(* Each device is one event loop with up to three tasks: the session        *)
(* function, the handshake and the link.  A wait that was answered goes on  *)
(* before the next event is heard (Busy).  The socket keeps order; the      *)
(* server passes messages on while both devices are in the room.  A timer   *)
(* may run out at any moment its wait is unanswered; `expired` records one  *)
(* that did although an answer, or the news of the end, could still come.   *)
(*                                                                         *)
(* A definition directly above one with the same parameters, and named for  *)
(* what it gets wrong, is a defect the properties are tried against.        *)
(***************************************************************************)
EXTENDS Naturals, Sequences

CONSTANTS
    MaxFaults,   \* how often a socket, the channel or the room may be lost
    Cancels      \* whether the sender's user may cancel while waiting

ASSUME SessionAssumption == MaxFaults \in Nat /\ Cancels \in BOOLEAN

VARIABLES
    dev,         \* the state of each device, see Device
    toward,      \* what the server has for each device, in order
    pipe,        \* frames in the direct channel, towards the receiver
    room,        \* "open" until someone leaves it or the server closes it
    match,       \* both users typed the same passphrase
    faults,      \* what was lost so far
    expired,     \* a wait ran out while its answer could still come
    dropped      \* frames that arrived where nobody listened

vars == <<dev, toward, pipe, room, match, faults, expired, dropped>>

----------------------------------------------------------------------------
(* Types *)

Devices == {"sender", "receiver"}

Other(d) == CHOOSE o \in Devices : o # d

Frames == {"header", "meta"}

Signals == {"hello", "response", "confirm", "kex-abort", "sdp", "ice",
            "link-direct", "link-none", "receiver-attached"}

Events == Signals \cup Frames \cup {"peer-joined", "peer-left"}

Device ==
    [phase     : {"derive", "peer", "join", "both", "sealing", "attach", "header",
                  "meta", "transfer", "failed"},
     kex       : {"off", "response", "hello", "derive", "confirm", "done"},
     attempt   : {"idle", "trying", "stats", "up", "off"},  \* tryDirectConnection
     local     : BOOLEAN,                          \* setLocalDescription was called
     remote    : {"none", "setting", "set"},       \* setRemoteDescription
     candidate : {"none", "pending", "added"},     \* the other's ICE candidate
     dc        : {"none", "open", "closed"},       \* this end of the data channel
     link      : {"none", "waiting", "p2p", "relay"},  \* establishLink
     shut      : BOOLEAN,                          \* P2pLink.closed, RelayLink.closed
     online    : BOOLEAN,                          \* its socket is connected
     joined    : BOOLEAN,                          \* Signal.peerJoinedSeen
     heard     : SUBSET Signals,                   \* Signal.signalHistory
     pump      : {"none", "on", "failed"},
     inbox     : Seq(Frames),                      \* MessagePump.queue
     opened    : Nat,                              \* SecureChannel.recvCounter
     reason    : {"none", "auth", "gone", "late", "broken", "cancelled", "refused"}]

TypeOK ==
    /\ dev \in [Devices -> Device]
    /\ toward \in [Devices -> Seq(Events)]
    /\ pipe \in Seq(Frames)
    /\ room \in {"open", "closed"}
    /\ match \in BOOLEAN /\ expired \in BOOLEAN
    /\ faults \in 0..MaxFaults
    /\ dropped \subseteq Frames

NewDevice ==
    [phase |-> "derive", kex |-> "off", attempt |-> "idle", local |-> FALSE,
     remote |-> "none", candidate |-> "none", dc |-> "none", link |-> "none",
     shut |-> FALSE, online |-> TRUE, joined |-> FALSE, heard |-> {},
     pump |-> "none", inbox |-> <<>>, opened |-> 0, reason |-> "none"]

Init ==
    /\ dev = [d \in Devices |-> IF d = "sender" THEN NewDevice
                ELSE [NewDevice EXCEPT !.phase = "join", !.online = FALSE]]
    /\ toward = [d \in Devices |-> <<>>]
    /\ pipe = <<>>
    /\ room = "open"
    /\ match \in BOOLEAN
    /\ faults = 0
    /\ expired = FALSE
    /\ dropped = {}

----------------------------------------------------------------------------
(* Waits *)

\* What the handshake task is waiting for: awaitStep.
Steps == {"response", "hello", "confirm"}

InHandshake(v) == v.phase = "both" /\ v.kex \in Steps

StepHeard(v) == v.heard \cap {v.kex, "kex-abort"} # {}

Reports == {"link-direct", "link-none"}

LinkHeard(v) == v.heard \cap Reports # {}

BothDone(v) == v.phase = "both" /\ v.kex = "done" /\ v.link \in {"p2p", "relay"}

\* A promise was settled and the code after it has not run yet.
Busy(v) ==
    \/ v.phase = "peer" /\ v.joined
    \/ InHandshake(v) /\ StepHeard(v)
    \/ v.link = "waiting" /\ LinkHeard(v)
    \/ v.phase = "attach" /\ "receiver-attached" \in v.heard

Idle(d) == ~Busy(dev[d])

Fail(v, why) == [v EXCEPT !.phase = "failed", !.reason = why]

DecideAlone(v, peerHasDirect) ==
    [v EXCEPT !.link = IF v.attempt = "up" THEN "p2p" ELSE "relay"]

\* The end of establishLink: direct only if both devices got there.

Decide(v, peerHasDirect) ==
    IF v.attempt = "up" /\ peerHasDirect
    THEN [v EXCEPT !.link = "p2p"]
    ELSE [v EXCEPT !.link = "relay", !.dc = "closed"]

----------------------------------------------------------------------------
(* Steps *)

\* Messages d sends; the server drops them when the room is closed.
Posts(d, ms) ==
    IF room = "open" /\ dev[d].online /\ dev[Other(d)].online
    THEN [toward EXCEPT ![Other(d)] = @ \o ms]
    ELSE toward

\* finally: link.close() if both tasks had finished, then signal.close().
Leaves(d, v, ms) ==
    /\ dev' = [dev EXCEPT ![d] = [v EXCEPT
                 !.online = FALSE,
                 !.shut = @ \/ dev[d].phase \in {"sealing", "attach", "header", "meta"},
                 !.dc = IF dev[d].phase \in {"sealing", "attach", "header", "meta"}
                           /\ v.link = "p2p" THEN "closed" ELSE @]]
    /\ toward' = [Posts(d, ms \o <<"peer-left">>) EXCEPT ![d] = <<>>]
    /\ room' = IF dev[d].online THEN "closed" ELSE room

\* d becomes v and sends ms, or fails with v and leaves.
Becomes(d, v, ms) ==
    IF v.phase = "failed" /\ dev[d].phase # "failed"
    THEN Leaves(d, v, ms)
    ELSE /\ dev' = [dev EXCEPT ![d] = v]
         /\ toward' = Posts(d, ms)
         /\ UNCHANGED room

Quiet == UNCHANGED <<pipe, match, faults, expired, dropped>>

\* d's wait runs out: v is what its code makes of that.
TimesOut(d, v) ==
    /\ Becomes(d, v, <<>>)
    /\ expired' = (expired \/ room = "open" \/ toward[d] # <<>>)
    /\ UNCHANGED <<pipe, match, faults, dropped>>

----------------------------------------------------------------------------
(* liveSend and liveReceive until both tasks run *)

\* deriveMaster has finished; waitForPeer begins.
Derived ==
    /\ dev["sender"].phase = "derive"
    /\ Becomes("sender", [dev["sender"] EXCEPT !.phase = "peer"], <<>>)
    /\ Quiet

\* waitForPeer resolves; the handshake and the link are started together.
PeerHere ==
    /\ dev["sender"].phase = "peer" /\ dev["sender"].joined
    /\ Becomes("sender", [dev["sender"] EXCEPT !.phase = "both", !.kex = "response",
                                               !.attempt = "trying"], <<"hello">>)
    /\ Quiet

\* The user cancels: only waitForPeer listens.
Cancelled ==
    /\ Cancels /\ dev["sender"].phase = "peer" /\ Idle("sender")
    /\ Becomes("sender", Fail(dev["sender"], "cancelled"), <<>>)
    /\ Quiet

\* live:join is answered; both tasks are started.
Joined ==
    /\ dev["receiver"].phase = "join"
    /\ room = "open"
    /\ dev' = [dev EXCEPT !["receiver"] = [@ EXCEPT !.phase = "both", !.kex = "hello",
                                             !.attempt = "trying", !.online = TRUE]]
    /\ toward' = [toward EXCEPT !["sender"] = Append(@, "peer-joined")]
    /\ UNCHANGED room
    /\ Quiet

JoinRefused ==
    /\ dev["receiver"].phase = "join"
    /\ room = "closed"
    /\ dev' = [dev EXCEPT !["receiver"] = Fail(@, "refused")]
    /\ UNCHANGED <<toward, room>>
    /\ Quiet

Opening == Derived \/ PeerHere \/ Cancelled \/ Joined \/ JoinRefused

----------------------------------------------------------------------------
(* The handshake: runInitiatorHandshake and runResponderHandshake *)

VerifiedNot(v) == TRUE

\* timingSafeEqual on the transcript's MAC, keyed by the passphrase.
Verified(v) == match

AbortUntold(v) == <<>>

\* tellPeerOnAuthFailure
Abort(v) == <<"kex-abort">>

\* A step was heard, or the other device's abort.
Rejected(v) == v.kex \notin v.heard

AcceptsResponse ==
    LET v == dev["sender"] IN
    /\ InHandshake(v) /\ StepHeard(v)
    /\ IF Rejected(v) THEN Becomes("sender", Fail(v, "auth"), <<>>)
       ELSE IF Verified(v) THEN Becomes("sender", [v EXCEPT !.kex = "done"], <<"confirm">>)
       ELSE Becomes("sender", Fail(v, "auth"), Abort(v))
    /\ Quiet

\* HELLO starts the key derivation; nobody listens for the handshake meanwhile.
HearsHello ==
    LET v == dev["receiver"] IN
    /\ InHandshake(v) /\ v.kex = "hello" /\ StepHeard(v)
    /\ IF Rejected(v) THEN Becomes("receiver", Fail(v, "auth"), <<>>)
       ELSE Becomes("receiver", [v EXCEPT !.kex = "derive"], <<>>)
    /\ Quiet

Responds ==
    LET v == dev["receiver"] IN
    /\ v.phase = "both" /\ v.kex = "derive"
    /\ Becomes("receiver", [v EXCEPT !.kex = "confirm"], <<"response">>)
    /\ Quiet

VerifiesConfirm ==
    LET v == dev["receiver"] IN
    /\ InHandshake(v) /\ v.kex = "confirm" /\ StepHeard(v)
    /\ IF Rejected(v) THEN Becomes("receiver", Fail(v, "auth"), <<>>)
       ELSE IF Verified(v) THEN Becomes("receiver", [v EXCEPT !.kex = "done"], <<>>)
       ELSE Becomes("receiver", Fail(v, "auth"), Abort(v))
    /\ Quiet

StepTimeoutNever(d) == FALSE

\* HANDSHAKE_TIMEOUT_MS
StepTimeout(d) ==
    /\ InHandshake(dev[d]) /\ Idle(d)
    /\ TimesOut(d, Fail(dev[d], "late"))

Handshake ==
    AcceptsResponse \/ HearsHello \/ Responds \/ VerifiesConfirm
      \/ \E d \in Devices : StepTimeout(d)

----------------------------------------------------------------------------
(* The direct attempt: tryDirectConnection *)

\* createOffer or createAnswer, setLocalDescription; candidates come before or
\* after the description.
Describes(d) ==
    LET v == dev[d] IN
    /\ v.attempt = "trying" /\ ~v.local
    /\ d = "sender" \/ v.remote = "set"
    /\ \E ms \in {<<"sdp", "ice">>, <<"ice", "sdp">>} :
          Becomes(d, [v EXCEPT !.local = TRUE], ms)
    /\ Quiet

\* setRemoteDescription has finished: the candidates kept until then are added.
RemoteSet(d) ==
    LET v == dev[d] IN
    /\ v.remote = "setting" /\ v.attempt # "off"
    /\ Becomes(d, [v EXCEPT !.remote = "set",
                            !.candidate = IF @ = "pending" THEN "added" ELSE @], <<>>)
    /\ Quiet

\* External: ICE finds a pair and the channel opens at d.
Opens(d) ==
    LET v == dev[d]  o == dev[Other(d)] IN
    /\ v.attempt = "trying" /\ v.dc = "none" /\ Idle(d)
    /\ v.remote = "set" /\ o.remote = "set" /\ v.local /\ o.local
    /\ "added" \in {v.candidate, o.candidate}
    /\ o.attempt # "off" /\ o.dc # "closed"
    /\ Becomes(d, [v EXCEPT !.dc = "open", !.attempt = "stats"], <<>>)
    /\ Quiet

\* The attempt is over: report the result and wait for the other's.
Report(v, got) ==
    [v EXCEPT !.attempt = got, !.link = "waiting", !.dc = IF got = "off" THEN "closed" ELSE @]

AttemptSucceeds(d) ==
    /\ dev[d].attempt = "stats"
    /\ Becomes(d, Report(dev[d], "up"), <<"link-direct">>)
    /\ Quiet

\* No WebRTC, an error, a failed connection, or the 12 seconds are over.
AttemptFails(d) ==
    /\ dev[d].attempt \in {"trying", "stats"} /\ Idle(d)
    /\ Becomes(d, Report(dev[d], "off"), <<"link-none">>)
    /\ Quiet

LinkAgreed(d) ==
    /\ dev[d].link = "waiting" /\ LinkHeard(dev[d])
    /\ Becomes(d, Decide(dev[d], "link-direct" \in dev[d].heard), <<>>)
    /\ Quiet

\* 45 seconds without a report.
LinkTimeout(d) ==
    /\ dev[d].link = "waiting" /\ Idle(d)
    /\ TimesOut(d, Decide(dev[d], FALSE))

Linking ==
    \E d \in Devices :
        \/ Describes(d) \/ RemoteSet(d) \/ Opens(d) \/ AttemptSucceeds(d)
        \/ AttemptFails(d) \/ LinkAgreed(d) \/ LinkTimeout(d)

----------------------------------------------------------------------------
(* After both tasks: the channel, the pump, the first two messages *)

SenderCreated ==
    /\ BothDone(dev["sender"])
    /\ Becomes("sender", [dev["sender"] EXCEPT !.phase = "sealing", !.pump = "on"], <<>>)
    /\ Quiet

ReceiverCreated ==
    /\ BothDone(dev["receiver"])
    /\ Becomes("receiver", [dev["receiver"] EXCEPT !.phase = "header", !.pump = "on"],
               <<"receiver-attached">>)
    /\ Quiet

\* ChunkSealer.create has finished.
Sealed ==
    /\ dev["sender"].phase = "sealing"
    /\ Becomes("sender", [dev["sender"] EXCEPT !.phase = "attach"], <<>>)
    /\ Quiet

AttachedNot(v) == v.phase = "attach"

\* waitFor("receiver-attached")
Attached(v) == v.phase = "attach" /\ "receiver-attached" \in v.heard

\* link.send; v is the sender afterwards.
Sends(v, frame) ==
    IF v.shut \/ (v.link = "p2p" /\ v.dc # "open")
    THEN Becomes("sender", Fail(v, "broken"), <<>>) /\ UNCHANGED pipe
    ELSE /\ Becomes("sender", v, IF v.link = "relay" THEN <<frame>> ELSE <<>>)
         /\ pipe' = IF v.link = "p2p" THEN Append(pipe, frame) ELSE pipe

SendsHeader ==
    /\ Attached(dev["sender"])
    /\ Sends([dev["sender"] EXCEPT !.phase = "meta"], "header")
    /\ UNCHANGED <<match, faults, expired, dropped>>

SendsMeta ==
    /\ dev["sender"].phase = "meta"
    /\ Sends([dev["sender"] EXCEPT !.phase = "transfer"], "meta")
    /\ UNCHANGED <<match, faults, expired, dropped>>

AttachTimeout ==
    /\ dev["sender"].phase = "attach" /\ Idle("sender")
    /\ TimesOut("sender", Fail(dev["sender"], "late"))

\* pump.expect: HEADER, then META.
Takes(frame, next) ==
    LET v == dev["receiver"] IN
    /\ v.phase = frame
    /\ v.inbox # <<>> /\ Head(v.inbox) = frame
    /\ Becomes("receiver", [v EXCEPT !.phase = next, !.inbox = Tail(@)], <<>>)
    /\ Quiet

HeaderTimeout ==
    /\ dev["receiver"].phase = "header" /\ dev["receiver"].inbox = <<>>
    /\ TimesOut("receiver", Fail(dev["receiver"], "late"))

PumpRejects ==
    LET v == dev["receiver"] IN
    /\ v.phase \in Frames /\ v.inbox = <<>> /\ v.pump = "failed"
    /\ Becomes("receiver", Fail(v, "broken"), <<>>)
    /\ Quiet

Starting ==
    \/ SenderCreated \/ Sealed \/ SendsHeader \/ SendsMeta \/ AttachTimeout
    \/ ReceiverCreated \/ Takes("header", "meta") \/ Takes("meta", "transfer")
    \/ HeaderTimeout \/ PumpRejects

----------------------------------------------------------------------------
(* What a device hears *)

HearsLeftLater(v) == [v EXCEPT !.heard = @ \cup {"peer-left"}]

\* live:peer-left; whoever waits is told, and whoever comes later is not.
HearsLeft(v) ==
    LET linked == IF v.link = "waiting" THEN Decide(v, FALSE)
                  ELSE IF v.link = "relay"
                  THEN [v EXCEPT !.shut = TRUE, !.pump = IF @ = "on" THEN "failed" ELSE @]
                  ELSE v
    IN  IF v.phase \in {"peer", "attach"} \/ InHandshake(v) THEN Fail(linked, "gone") ELSE linked

Sdp(v) == IF v.attempt = "trying" THEN [v EXCEPT !.remote = "setting"] ELSE v

\* Candidates can arrive before the description they belong to.
Ice(v) ==
    IF v.attempt = "off" THEN v
    ELSE [v EXCEPT !.candidate = IF v.remote = "set" THEN "added" ELSE "pending"]

\* live:signal: pushed to the history; handlers that attach later replay it.
Remember(v, m) == [v EXCEPT !.heard = @ \cup {m}]

Hears(v, m) ==
    CASE m = "peer-joined" -> [v EXCEPT !.joined = TRUE]
      [] m = "peer-left"   -> HearsLeft(v)
      [] m = "sdp"         -> Sdp(v)
      [] m = "ice"         -> Ice(v)
      [] OTHER             -> Remember(v, m)

\* MessagePump.onFrame: the channel's counter decides whether the frame opens.
Opened(v, frame) ==
    IF frame = <<"header", "meta">>[v.opened + 1]
    THEN [v EXCEPT !.opened = @ + 1, !.inbox = Append(@, frame)]
    ELSE [v EXCEPT !.opened = @ + 1, !.pump = "failed"]

\* A frame arrives on a link of this kind.
Arrives(frame, kind) ==
    LET v == dev["receiver"] IN
    IF v.link = kind /\ v.pump # "none"
    THEN /\ dev' = [dev EXCEPT !["receiver"] = Opened(v, frame)]
         /\ UNCHANGED dropped
    ELSE /\ dropped' = dropped \cup {frame}
         /\ UNCHANGED dev

DeliverSignal(d) ==
    /\ dev[d].online /\ Idle(d)
    /\ toward[d] # <<>> /\ Head(toward[d]) \notin Frames
    /\ LET v == Hears(dev[d], Head(toward[d])) IN
       IF v.phase = "failed" THEN Leaves(d, v, <<>>)
       ELSE /\ dev' = [dev EXCEPT ![d] = v]
            /\ toward' = [toward EXCEPT ![d] = Tail(@)]
            /\ UNCHANGED room
    /\ Quiet

DeliverRelayed ==
    /\ dev["receiver"].online /\ Idle("receiver")
    /\ toward["receiver"] # <<>> /\ Head(toward["receiver"]) \in Frames
    /\ Arrives(Head(toward["receiver"]), "relay")
    /\ toward' = [toward EXCEPT !["receiver"] = Tail(@)]
    /\ UNCHANGED <<pipe, room, match, faults, expired>>

DeliverDirect ==
    /\ dev["receiver"].dc = "open" /\ Idle("receiver")
    /\ pipe # <<>>
    /\ Arrives(Head(pipe), "p2p")
    /\ pipe' = Tail(pipe)
    /\ UNCHANGED <<toward, room, match, faults, expired>>

\* onclose: only a P2pLink that exists hears it, only a pump that exists is told.
HearsClosed(v) ==
    IF v.link = "p2p"
    THEN [v EXCEPT !.dc = "closed", !.shut = TRUE, !.pump = IF @ = "on" THEN "failed" ELSE @]
    ELSE [v EXCEPT !.dc = "closed"]

\* The other end was closed; what was sent before arrives first.
ChannelCloses(d) ==
    /\ dev[d].dc = "open" /\ dev[Other(d)].dc = "closed" /\ Idle(d)
    /\ d = "receiver" => pipe = <<>>
    /\ dev' = [dev EXCEPT ![d] = HearsClosed(@)]
    /\ UNCHANGED <<toward, room>>
    /\ Quiet

Hearing ==
    \/ DeliverRelayed \/ DeliverDirect
    \/ \E d \in Devices : DeliverSignal(d) \/ ChannelCloses(d)

----------------------------------------------------------------------------
(* Faults *)

\* d's socket is lost, with some of what it sent; the server tells the other,
\* and what the server itself had said stays said.
SocketLost(d) ==
    /\ dev[d].online /\ faults < MaxFaults
    /\ dev' = [dev EXCEPT ![d].online = FALSE]
    /\ \E n \in 0..Len(toward[Other(d)]) :
          /\ \A i \in (n + 1)..Len(toward[Other(d)]) : toward[Other(d)][i] \in Signals \cup Frames
          /\ toward' = [toward EXCEPT ![d] = <<>>,
                       ![Other(d)] = IF room = "open" /\ dev[Other(d)].online
                                     THEN Append(SubSeq(@, 1, n), "peer-left") ELSE @]
    /\ room' = "closed"
    /\ faults' = faults + 1
    /\ UNCHANGED <<pipe, match, expired, dropped>>

\* The direct channel breaks; this end notices first.
ChannelLost(d) ==
    /\ dev[d].dc = "open" /\ faults < MaxFaults /\ Idle(d)
    /\ dev' = [dev EXCEPT ![d] = HearsClosed(@)]
    /\ pipe' = <<>>
    /\ faults' = faults + 1
    /\ UNCHANGED <<toward, room, match, expired, dropped>>

\* The server's sweep or its congestion check closes the room.
RoomCloses ==
    /\ room = "open" /\ faults < MaxFaults
    /\ room' = "closed"
    /\ toward' = [d \in Devices |->
                    IF dev[d].online THEN Append(toward[d], "peer-left") ELSE toward[d]]
    /\ faults' = faults + 1
    /\ UNCHANGED <<dev, pipe, match, expired, dropped>>

Faults == RoomCloses \/ \E d \in Devices : SocketLost(d) \/ ChannelLost(d)

Next == Opening \/ Handshake \/ Linking \/ Starting \/ Hearing \/ Faults

Spec == Init /\ [][Next]_vars

\* Everything that happens by itself: running code, messages, timers.  Nobody has
\* to join or cancel, no connection has to be lost, and no direct attempt has to
\* succeed.
Progress ==
    \/ Derived \/ PeerHere
    \/ Handshake \/ Starting \/ Hearing
    \/ \E d \in Devices : AttemptSucceeds(d) \/ AttemptFails(d) \/ LinkAgreed(d) \/ LinkTimeout(d)

\* As long as something can happen by itself, something does.
FairSpec == Spec /\ WF_vars(Progress)

----------------------------------------------------------------------------
(* Properties *)

Whole == faults = 0 /\ ~expired

InSession(d) == dev[d].phase \notin {"failed", "join"}

\* "make sure both devices reach the same answer" (link.ts:180): as long as no
\* connection was lost and no report was late, two devices that are both still
\* in the session and have both decided use the same link, whatever each one's
\* own attempt came to.
LinksAgree ==
    Whole /\ (\A d \in Devices : InSession(d) /\ dev[d].link \in {"p2p", "relay"})
      => dev["sender"].link = dev["receiver"].link

\* "Frames sent earlier would be dropped with no error anywhere" (liveSend.ts:107):
\* no frame arrives where nobody listens, unless a connection was lost or one
\* device gave up waiting for the other's report.
NothingDropped == Whole => dropped = {}

\* A payload is taken only from a sender that passed the handshake, on the link
\* both devices use, however late or lost anything was (kex.ts:326-329).
PayloadTrusted ==
    dev["receiver"].phase \in {"meta", "transfer"} =>
        /\ match
        /\ \A d \in Devices : dev[d].kex = "done"
        /\ dev["sender"].link = dev["receiver"].link

\* A wrong passphrase is named on both devices, and nothing else is called one
\* (handshake.ts:96-101): once one device reports it, the other does not end
\* with another reason.
AuthTold ==
    \A d \in Devices : dev[d].reason = "auth" =>
        /\ ~match
        /\ Whole => dev[Other(d)].reason \in {"none", "auth"}

\* Waits with a clock, so nobody waits for ever (deferred.ts:27-34), except for a
\* device whose own socket is gone, which nothing reports to it (signal.ts has no
\* handler for it), in one of the two waits without a clock.
Stranded(d) == ~dev[d].online /\ dev[d].phase \in {"peer", "meta"}

\* Once the receiver has joined, each device reaches the transfer or an error.
SetupEnds ==
    \A d \in Devices :
        dev["receiver"].phase = "both"
          ~> (dev[d].phase \in {"transfer", "failed"} \/ Stranded(d))
=============================================================================
