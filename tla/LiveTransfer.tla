---------------------------- MODULE LiveTransfer ----------------------------
(***************************************************************************)
(* One live transfer from the accepted metadata to both devices' last step: *)
(* the send loop and control loop of session/liveSend.ts, the receive loop  *)
(* and drain task of session/liveReceive.ts, MessagePump and CreditGate of  *)
(* session/pump.ts, backpressuredSource of chunker.ts, and the two links of *)
(* transport/link.ts.                                                       *)
(*                                                                         *)
(* Each device is one event loop of a few async functions; a step runs one  *)
(* of them from an await to the next.  A link keeps order and loses nothing *)
(* until a connection is lost: on the direct link that is the channel, which *)
(* both devices see close; on the relay it is one device's own socket, which *)
(* the server reports to the other device and the client reports to nobody.  *)
(* Without compression the drain task reads the pushed stream itself.       *)
(*                                                                         *)
(* A definition directly above one with the same parameters, and named for  *)
(* what it gets wrong, is a defect the properties are tried against.        *)
(***************************************************************************)
EXTENDS Naturals, Sequences

CONSTANTS
    Chunks,      \* the chunks of the file; the last is the final one
    Window,      \* CREDIT_WINDOW
    RefillAt,    \* CREDIT_REFILL_AT
    HighWater,   \* DC_HIGH_WATER or RELAY_BACKLOG_LIMIT, in frames
    Links,       \* what establishLink may have agreed on: {"p2p", "relay"}
    MayDrop,     \* whether a connection may be lost
    Cancels,     \* which devices' users may cancel: {"sender", "receiver"}
    SinkFails    \* whether writing at the destination may fail

ASSUME TransferAssumption ==
    /\ Chunks \in Nat \ {0}
    /\ Window \in Nat \ {0}
    /\ RefillAt \in 1..Window
    /\ HighWater \in Nat
    /\ Links \subseteq {"p2p", "relay"}
    /\ MayDrop \in BOOLEAN
    /\ Cancels \subseteq {"sender", "receiver"}
    /\ SinkFails \in BOOLEAN

VARIABLES
    \* sending device
    sender,      \* where liveSend is
    sent,        \* chunks it has put on the link
    credits,     \* CreditGate
    accepted,    \* MSG_READY was handled: the promise ready is resolved
    control,     \* the control loop: on, done (MSG_DONE) or failed
    spump,       \* its MessagePump
    \* the link
    link,        \* its kind
    toReceiver,  \* chunks on the way
    toSender,    \* READY, CREDIT and DONE on the way
    lost,        \* the devices whose connection was lost
    \* receiving device
    receiver,    \* where liveReceive is
    got,         \* chunks taken off its pump
    sinceRefill, \* chunks taken since the last credit
    rpump,       \* its MessagePump
    held,        \* the chunk in the pushed stream's queue, or 0
    drainer,     \* the drain task: on, done or failed
    writing,     \* the chunk it is writing, or 0
    written      \* chunks written to the destination, in order

sending   == <<sender, sent, credits, accepted, control>>
receiving == <<receiver, got, sinceRefill>>
draining  == <<held, drainer, writing, written>>
wires     == <<link, toReceiver, toSender, lost>>
vars      == <<sending, spump, wires, receiving, rpump, draining>>

----------------------------------------------------------------------------
(* Types *)

Devices == {"sender", "receiver"}

Over == {"ok", "failed"}

Ready   == [kind |-> "ready", n |-> 0]
Credit(n) == [kind |-> "credit", n |-> n]
Done    == [kind |-> "done", n |-> 0]

Message == [kind : {"ready", "credit", "done"}, n : Nat]

\* chain: frames being decrypted; queue: messages nobody has asked for yet;
\* closed: the link reported its end; drained: and what came before is dealt with.
Pump(M) == [chain : Seq(M), queue : Seq(M), closed : BOOLEAN, drained : BOOLEAN]

NewPump == [chain |-> <<>>, queue |-> <<>>, closed |-> FALSE, drained |-> FALSE]

TypeOK ==
    /\ sender \in {"ready", "top", "gate", "send", "blocked", "confirm"} \cup Over
    /\ sent \in 0..Chunks
    /\ credits \in Nat
    /\ accepted \in BOOLEAN
    /\ control \in {"on", "done", "failed"}
    /\ spump \in Pump(Message)
    /\ link \in Links
    /\ toReceiver \in Seq(1..Chunks)
    /\ toSender \in Seq(Message)
    /\ lost \subseteq Devices
    /\ receiver \in {"choosing", "next", "pushing", "pushed", "draining", "closing"} \cup Over
    /\ got \in 0..Chunks
    /\ sinceRefill \in 0..RefillAt
    /\ rpump \in Pump(1..Chunks)
    /\ held \in 0..Chunks
    /\ drainer \in {"on", "done", "failed"}
    /\ writing \in 0..Chunks
    /\ written \in Seq(1..Chunks)

Init ==
    /\ sender = "ready"
    /\ sent = 0
    /\ credits = 0
    /\ accepted = FALSE
    /\ control = "on"
    /\ spump = NewPump
    /\ link \in Links
    /\ toReceiver = <<>>
    /\ toSender = <<>>
    /\ lost = {}
    /\ receiver = "choosing"
    /\ got = 0
    /\ sinceRefill = 0
    /\ rpump = NewPump
    /\ held = 0
    /\ drainer = "on"
    /\ writing = 0
    /\ written = <<>>

----------------------------------------------------------------------------
(* MessagePump *)

\* A frame arrives; its decryption ends; the link's close has its turn in the
\* chain; the next message is taken; nothing will come any more.
Arrived(pump, m) == [pump EXCEPT !.chain = Append(@, m)]

Opened(pump) == [pump EXCEPT !.chain = Tail(@), !.queue = Append(@, Head(pump.chain))]

ClosedAtOnce(pump) == [pump EXCEPT !.closed = TRUE, !.drained = TRUE]
Closed(pump) == [pump EXCEPT !.closed = TRUE]

DrainedNever(pump) == pump
Drained(pump) == [pump EXCEPT !.drained = TRUE]

Taken(pump) == [pump EXCEPT !.queue = Tail(@)]

Rejects(pump) == pump.queue = <<>> /\ pump.drained

\* One step of a pump that is not its consumer's.
PumpStep(pump, new) ==
    \/ pump.chain # <<>> /\ new = Opened(pump)
    \/ pump.closed /\ ~pump.drained /\ pump.chain = <<>> /\ new = Drained(pump)

----------------------------------------------------------------------------
(* The link *)

\* What is on the way still reaches this device.
Reaches(device) == lost = {} \/ (link = "relay" /\ device \notin lost)

\* This device is told that a connection is lost: by its channel's onclose, or
\* by live:peer-left, which only the other device's loss causes.
Broken(device) == lost # {} /\ (link = "p2p" \/ device \notin lost)

\* What a device sends once its own socket is gone goes nowhere.
Sent(device, wire, m) ==
    IF link = "relay" /\ device \in lost THEN wire ELSE Append(wire, m)

SenderGets ==
    /\ sender \notin Over /\ ~spump.closed
    /\ toSender # <<>> /\ Reaches("sender")
    /\ spump' = Arrived(spump, Head(toSender))
    /\ toSender' = Tail(toSender)
    /\ UNCHANGED <<sending, link, toReceiver, lost, receiving, rpump, draining>>

ReceiverGets ==
    /\ receiver \notin Over /\ ~rpump.closed
    /\ toReceiver # <<>> /\ Reaches("receiver")
    /\ rpump' = Arrived(rpump, Head(toReceiver))
    /\ toReceiver' = Tail(toReceiver)
    /\ UNCHANGED <<sending, spump, link, toSender, lost, receiving, draining>>

\* A device that is over still acknowledges what comes in, unread.
Discarded ==
    /\ receiver \in Over
    /\ toReceiver # <<>> /\ Reaches("receiver")
    /\ toReceiver' = Tail(toReceiver)
    /\ UNCHANGED <<sending, spump, link, toSender, lost, receiving, rpump, draining>>

\* The other device's close follows everything it sent.
SenderHearsClose ==
    /\ sender \notin Over
    /\ ~spump.closed
    /\ \/ Broken("sender")
       \/ receiver \in Over /\ toSender = <<>> /\ Reaches("sender")
    /\ spump' = Closed(spump)
    /\ UNCHANGED <<sending, wires, receiving, rpump, draining>>

ReceiverHearsClose ==
    /\ receiver \notin Over
    /\ ~rpump.closed
    /\ \/ Broken("receiver")
       \/ sender \in Over /\ toReceiver = <<>> /\ Reaches("receiver")
    /\ rpump' = Closed(rpump)
    /\ UNCHANGED <<sending, spump, wires, receiving, draining>>

Drop ==
    /\ MayDrop
    /\ \E device \in Devices \ lost :
          lost' = IF link = "p2p" THEN Devices ELSE lost \cup {device}
    /\ UNCHANGED <<sending, spump, link, toReceiver, toSender, receiving, rpump, draining>>

\* send awaits while its queue is longer than the mark: bufferedAmount is what
\* is on the way, and stays what it was when the channel closes.  The relay's is
\* Socket.IO's own queue: any part of what is on the way, or of what a lost
\* socket still holds.
Full == Len(toReceiver) > HighWater
MayWait == Full \/ (link = "relay" /\ "sender" \in lost)
MayPass == ~Full \/ link = "relay"

----------------------------------------------------------------------------
(* liveSend *)

\* The control loop; a message that grants credits wakes the gate.
GrantsWindow(m) == Window
Grants(m) == IF m.kind = "ready" THEN Window ELSE m.n

SenderPumps ==
    /\ sender \notin Over
    /\ PumpStep(spump, spump')
    /\ UNCHANGED <<sending, wires, receiving, rpump, draining>>

Control ==
    /\ sender \notin Over
    /\ control = "on"
    /\ spump.queue # <<>>
    /\ spump' = Taken(spump)
    /\ LET m == Head(spump.queue)
       IN  /\ credits' = credits + Grants(m)
           /\ accepted' = (accepted \/ m.kind = "ready")
           /\ control' = IF m.kind = "done" THEN "done" ELSE "on"
    /\ UNCHANGED <<sender, sent, wires, receiving, rpump, draining>>

ControlFails ==
    /\ sender \notin Over
    /\ control = "on"
    /\ Rejects(spump)
    /\ control' = "failed"
    /\ UNCHANGED <<sender, sent, credits, accepted, spump, wires, receiving, rpump, draining>>

SenderAt(here, next) ==
    /\ sender = here
    /\ sender' = next
    /\ UNCHANGED <<credits, accepted, control, spump, link, toSender, lost, receiving,
                   rpump, draining>>

SenderGoes(here, next) == SenderAt(here, next) /\ UNCHANGED <<sent, toReceiver>>

Started == accepted /\ SenderGoes("ready", "top")

\* The ten minutes pass, or the link is gone first.
NeverStarted == ~accepted /\ SenderGoes("ready", "failed")

NextChunk ==
    /\ SenderGoes("top", IF sent < Chunks THEN "gate" ELSE "confirm")

\* throwIfAborted, or a source that cannot be read.
SenderCancels ==
    /\ "sender" \in Cancels
    /\ sent < Chunks
    /\ SenderGoes("top", "failed")

\* gate.take
Take ==
    /\ sender = "gate"
    /\ control # "failed"
    /\ credits > 0
    /\ credits' = credits - 1
    /\ sender' = "send"
    /\ UNCHANGED <<sent, accepted, control, spump, wires, receiving, rpump, draining>>

\* The abort wakes a sender that waits in take, and stops one that enters it.
GateAborts == control = "failed"

TakeFails == GateAborts /\ SenderGoes("gate", "failed")

Put(here) ==
    /\ SenderAt(here, "top")
    /\ MayPass /\ ~spump.closed
    /\ sent' = sent + 1
    /\ toReceiver' = Sent("sender", toReceiver, sent + 1)

Send == Put("send")

SendWaits ==
    /\ MayWait /\ ~spump.closed
    /\ SenderGoes("send", "blocked")

SendFails == spump.closed /\ SenderGoes("send", "failed")

SendResumes == Put("blocked")

\* The relay looks at its queue every 20 ms, gives up after 60 s and sees that
\* it is closed; the direct link looks again only when its buffer has drained.
Noticed == link = "relay" \/ ~Full

SendBreaks ==
    /\ Noticed
    /\ spump.closed
    /\ SenderGoes("blocked", "failed")

SendStalls ==
    /\ link = "relay"
    /\ MayWait
    /\ SenderGoes("blocked", "failed")

Confirmed == control = "done" /\ SenderGoes("confirm", "ok")

Unconfirmed ==
    control = "failed" /\ SenderGoes("confirm", "failed")

SendLoop ==
    \/ Started \/ NeverStarted \/ NextChunk \/ Take \/ TakeFails
    \/ Send \/ SendWaits \/ SendFails \/ SendResumes \/ SendBreaks
    \/ Confirmed \/ Unconfirmed

----------------------------------------------------------------------------
(* liveReceive *)

ReceiverPumps ==
    /\ receiver \notin Over
    /\ PumpStep(rpump, rpump')
    /\ UNCHANGED <<sending, spump, wires, receiving, draining>>

ReceiverAt(here, next) ==
    /\ receiver = here
    /\ receiver' = next
    /\ UNCHANGED <<sending, spump, link, toReceiver, lost, draining>>

ReceiverGoes(here, next) ==
    ReceiverAt(here, next) /\ UNCHANGED <<toSender, got, sinceRefill, rpump>>

\* A message to the sender, or the error of a link that is closed.
Reply(here, next, m) ==
    \/ /\ ~rpump.closed
       /\ ReceiverAt(here, next)
       /\ toSender' = Sent("receiver", toSender, m)
    \/ /\ rpump.closed
       /\ ReceiverAt(here, "failed")
       /\ UNCHANGED toSender

\* requestDestination, then MSG_READY.
Choose == Reply("choosing", "next", Ready) /\ UNCHANGED <<got, sinceRefill, rpump>>

\* No destination is chosen, or the user cancels.
ReceiverCancels ==
    /\ "receiver" \in Cancels
    /\ ReceiverGoes("choosing", "failed") \/ ReceiverGoes("next", "failed")

\* source.push: a reader that waits takes the chunk at once, otherwise push
\* waits until the chunk is pulled out of the queue.
ReaderWaits == drainer = "on" /\ writing = 0

Receive ==
    /\ receiver = "next"
    /\ rpump.queue # <<>>
    /\ rpump' = Taken(rpump)
    /\ got' = Head(rpump.queue)
    /\ IF ReaderWaits
       THEN writing' = got' /\ receiver' = "pushed" /\ UNCHANGED held
       ELSE held' = got' /\ receiver' = "pushing" /\ UNCHANGED writing
    /\ UNCHANGED <<sending, spump, wires, sinceRefill, drainer, written>>

ReceiveFails ==
    /\ Rejects(rpump)
    /\ ReceiverGoes("next", "failed")

Pulled ==
    /\ held = 0
    /\ ReceiverGoes("pushing", "pushed")

\* A chunk is in: count it, and give credits back every RefillAt chunks.
RefillLate == sinceRefill >= RefillAt
RefillDue == sinceRefill + 1 >= RefillAt

Count ==
    /\ got < Chunks
    /\ ~RefillDue
    /\ ReceiverAt("pushed", "next")
    /\ sinceRefill' = sinceRefill + 1
    /\ UNCHANGED <<toSender, got, rpump>>

Reset == 0

Refill ==
    /\ got < Chunks
    /\ RefillDue
    /\ Reply("pushed", "next", Credit(sinceRefill + 1))
    /\ sinceRefill' = Reset
    /\ UNCHANGED <<got, rpump>>

LastChunk ==
    /\ got = Chunks
    /\ ReceiverGoes("pushed", "draining")

\* await drain, then the destination is closed.
DrainIgnored == TRUE
DrainAwaited == drainer = "done"

Flushed ==
    /\ DrainAwaited
    /\ ReceiverGoes("draining", "closing")

DrainThrows ==
    /\ drainer = "failed"
    /\ ReceiverGoes("draining", "failed")

CloseSink == Reply("closing", "ok", Done) /\ UNCHANGED <<got, sinceRefill, rpump>>

CloseSinkFails ==
    /\ SinkFails
    /\ ReceiverGoes("closing", "failed")

ReceiveLoop ==
    \/ Receive \/ ReceiveFails \/ Pulled \/ Count \/ Refill \/ LastChunk
    \/ Flushed \/ DrainThrows \/ CloseSink

----------------------------------------------------------------------------
(* The drain task *)

Pull ==
    /\ receiver \notin Over
    /\ ReaderWaits
    /\ held # 0
    /\ writing' = held
    /\ held' = 0
    /\ UNCHANGED <<sending, spump, wires, receiving, rpump, drainer, written>>

WriteChunk ==
    /\ receiver \notin Over
    /\ writing # 0
    /\ written' = Append(written, writing)
    /\ writing' = 0
    /\ UNCHANGED <<sending, spump, wires, receiving, rpump, held, drainer>>

\* The write is rejected and so is the drain task; its handler says nothing.
WriteFails ==
    /\ SinkFails
    /\ receiver \notin Over
    /\ writing # 0
    /\ writing' = 0
    /\ drainer' = "failed"
    /\ UNCHANGED <<sending, spump, wires, receiving, rpump, held, written>>

\* source.close, and the queue is empty.
DrainEnds ==
    /\ receiver = "draining"
    /\ ReaderWaits
    /\ held = 0
    /\ drainer' = "done"
    /\ UNCHANGED <<sending, spump, wires, receiving, rpump, held, writing, written>>

DrainTask == Pull \/ WriteChunk \/ DrainEnds

----------------------------------------------------------------------------

LinkStep ==
    SenderGets \/ ReceiverGets \/ Discarded \/ SenderHearsClose \/ ReceiverHearsClose

ControlLoop == Control \/ ControlFails

Next ==
    \/ LinkStep \/ Drop
    \/ SenderPumps \/ ControlLoop \/ SendLoop \/ SenderCancels \/ SendStalls
    \/ ReceiverPumps \/ Choose \/ ReceiveLoop \/ ReceiverCancels \/ CloseSinkFails
    \/ DrainTask \/ WriteFails

Spec == Init /\ [][Next]_vars

\* Every continuation that is ready runs and the link delivers; nobody has to
\* choose a destination, cancel, drop a connection or fail a write.
Fairness ==
    /\ WF_vars(SenderGets) /\ WF_vars(SenderHearsClose)
    /\ WF_vars(ReceiverGets) /\ WF_vars(Discarded) /\ WF_vars(ReceiverHearsClose)
    /\ WF_vars(SenderPumps) /\ WF_vars(ControlLoop) /\ WF_vars(SendLoop)
    /\ WF_vars(ReceiverPumps) /\ WF_vars(ReceiveLoop) /\ WF_vars(DrainTask)

FairSpec == Spec /\ Fairness

----------------------------------------------------------------------------
(* Properties *)

\* Frames sent and not yet taken by the destination, in whatever queue: never
\* more than the window, so neither device nor the relay piles up the file
\* (CreditGate, CREDIT_REFILL_AT).
InFlight == Len(toReceiver) + Len(rpump.chain) + Len(rpump.queue) + (IF held = 0 THEN 0 ELSE 1)

WindowHolds == InFlight <= Window

\* "Transfer complete and verified" is the truth: the sender ends well only
\* when every chunk is in its place at the destination and the receiver ended
\* well too (MSG_DONE, await drain).
File == [i \in 1..Chunks |-> i]

VerifiedMeansWritten ==
    /\ sender = "ok" => receiver = "ok"
    /\ receiver = "ok" => written = File

\* A confirmation is not overtaken by the close that follows it: when the
\* receiver ended well over connections that held, the sender does not report
\* a failure (the comment on MessagePump.fail).
ConfirmationHeard == receiver = "ok" /\ lost = {} => sender # "failed"

\* Neither device waits forever, whoever cancels, whichever connection is lost
\* and even where a write fails (the comments on withTimeout and drain.catch).
BothEnd ==
    /\ <>(sender \in Over)
    /\ (receiver # "choosing") ~> (receiver \in Over)

\* What the code does guarantee of it: a device comes to an end unless the
\* destination failed or its own connection is the one that was lost, and on a
\* direct link the receiver does even then.
SenderReleased == <>(sender \in Over \/ drainer = "failed" \/ "sender" \in lost)

ReceiverReleased ==
    (receiver # "choosing") ~>
        (receiver \in Over \/ drainer = "failed" \/ (link = "relay" /\ "receiver" \in lost))

BothReleased == SenderReleased /\ ReceiverReleased
=============================================================================
