------------------------- MODULE LiveTransferProofs -------------------------
(***************************************************************************)
(* The safety of a live transfer, proved for every length of the file,     *)
(* every window and refill, either link, and whatever is cancelled, lost   *)
(* or failing: module LiveTransfer.                                        *)
(***************************************************************************)
EXTENDS LiveTransfer, SequenceTheorems, TLAPS

----------------------------------------------------------------------------
(* The invariant *)

\* Where the sender stands: it does nothing before MSG_READY, puts no more on the
\* link than the file has, and ends well only on MSG_DONE.
SenderInv ==
    /\ sender \in {"gate", "send", "blocked"} => sent < Chunks
    /\ sender \in {"confirm", "ok"} => sent = Chunks
    /\ sender \notin {"ready", "failed"} => accepted
    /\ ~accepted => sent = 0 /\ credits = 0
    /\ sender = "ok" => control = "done"

\* The chunks between the two loops, which are in order and follow one another.
Queued     == Len(rpump.queue)
Opening    == Len(rpump.chain)
Travelling == Len(toReceiver)
Underway   == Queued + Opening + Travelling

Numbered(s, n) == \A i \in 1..Len(s) : s[i] = n + i

PathInv ==
    /\ got + Underway <= sent
    /\ receiver \notin Over =>
           /\ Numbered(rpump.queue, got)
           /\ Numbered(rpump.chain, got + Queued)
           /\ Numbered(toReceiver, got + Queued + Opening)
           /\ link = "p2p" \/ "sender" \notin lost => got + Underway = sent

\* What was taken off the pump is written, being written or in the stream's
\* queue, unless a write has failed; and nothing is left when the drain ends.
Kept == Len(written) + (IF writing = 0 THEN 0 ELSE 1) + (IF held = 0 THEN 0 ELSE 1)

DrainInv ==
    /\ Numbered(written, 0)
    /\ held # 0 => receiver = "pushing" /\ held = got
    /\ drainer # "failed" => got = Kept /\ (writing # 0 => writing = Len(written) + 1)
    /\ drainer # "on" => writing = 0
    /\ drainer = "done" =>
           /\ held = 0 /\ got = Chunks
           /\ receiver \in {"draining", "closing"} \cup Over
    /\ receiver \in {"pushing", "pushed"} => got > 0
    /\ receiver \in {"draining", "closing", "ok"} => got = Chunks
    /\ receiver \in {"closing", "ok"} => drainer = "done"

\* What the receiver said and the control loop has not handled.
OnTheWay == Range(spump.queue) \cup Range(spump.chain) \cup Range(toSender)
Unhandled == Len(spump.queue)
Unopened  == Len(spump.chain)
Replies   == Len(toSender)
HowMany   == Unhandled + Unopened + Replies

\* MSG_READY comes first and alone, MSG_DONE last, and between them every credit
\* is for a whole refill.
ControlInv ==
    /\ ~accepted => OnTheWay \subseteq {Ready} /\ HowMany <= 1
    /\ ~accepted /\ receiver = "choosing" => HowMany = 0
    /\ accepted => OnTheWay \subseteq {Credit(RefillAt), Done} /\ receiver # "choosing"
    /\ Done \in OnTheWay \/ control = "done" => receiver = "ok"
    /\ sinceRefill < RefillAt
    /\ ~accepted => sinceRefill = 0

\* The chunks the receiver has counted towards a refill or in one.
Counted == IF receiver \in {"pushing", "pushed"} THEN got - 1 ELSE got

\* No credit is made: those in hand, taken, spent, on the way and due to come are
\* the window and what was counted.
Spent == credits + (IF sender \in {"send", "blocked"} THEN 1 ELSE 0) + sent

Due == RefillAt * HowMany

Claimed == Spent + Due + sinceRefill

Granted == Window + Counted

CreditInv == accepted /\ receiver # "ok" => Claimed <= Granted

\* While no connection is lost, a pump is closed only behind the other device's
\* last word, and a device fails only on its own account or for the other's.
HeardInv ==
    lost = {} =>
        /\ spump.closed => receiver \in Over /\ toSender = <<>>
        /\ spump.drained => spump.closed /\ spump.chain = <<>>
        /\ control = "failed" => receiver = "failed"
        /\ sender = "failed" => sent < Chunks \/ receiver = "failed"
        /\ receiver = "ok" => control = "done" \/ Done \in OnTheWay

LiveInv == TypeOK /\ SenderInv /\ PathInv /\ DrainInv /\ ControlInv /\ CreditInv /\ HeardInv

----------------------------------------------------------------------------
(* Sequences and pumps *)

LEMMA Appending ==
    ASSUME NEW S, NEW s \in Seq(S), NEW e \in S
    PROVE  /\ Append(s, e) \in Seq(S) /\ Append(s, e) # <<>>
           /\ Len(Append(s, e)) = Len(s) + 1
           /\ Range(Append(s, e)) = Range(s) \cup {e}
<1>1. /\ Append(s, e) \in Seq(S) /\ Append(s, e) # <<>>
      /\ Len(Append(s, e)) = Len(s) + 1 /\ Len(s) \in Nat
      /\ \A i \in 1..Len(s) : Append(s, e)[i] = s[i]
      /\ Append(s, e)[Len(s) + 1] = e
  BY AppendProperties, LenProperties
<1>2. 1..(Len(s) + 1) = 1..Len(s) \cup {Len(s) + 1}
  BY <1>1
<1>3. /\ Range(s) = {s[i] : i \in 1..Len(s)}
      /\ Range(Append(s, e)) = {Append(s, e)[i] : i \in 1..(Len(s) + 1)}
  BY <1>1, RangeEquality
<1> QED BY <1>1, <1>2, <1>3

LEMMA Taking ==
    ASSUME NEW S, NEW s \in Seq(S), s # <<>>
    PROVE  /\ Head(s) \in S /\ Tail(s) \in Seq(S)
           /\ Len(s) = Len(Tail(s)) + 1 /\ Len(Tail(s)) \in Nat
           /\ Head(s) = s[1]
           /\ Range(s) = {Head(s)} \cup Range(Tail(s))
<1>1. /\ Head(s) \in S /\ Tail(s) \in Seq(S)
      /\ Len(s) = Len(Tail(s)) + 1 /\ Len(Tail(s)) \in Nat
      /\ \A i \in 1..Len(Tail(s)) : Tail(s)[i] = s[i + 1]
  <2>1. Len(s) \in Nat /\ Len(Tail(s)) \in Nat
    BY HeadTailProperties, LenProperties
  <2> QED BY <2>1, HeadTailProperties
<1>2. Head(s) = s[1]
  OBVIOUS
<1>3. /\ Range(s) = {s[i] : i \in 1..Len(s)}
      /\ Range(Tail(s)) = {Tail(s)[i] : i \in 1..Len(Tail(s))}
  BY <1>1, RangeEquality
<1>4. ASSUME NEW i \in 1..Len(s), i # 1
      PROVE  s[i] \in Range(Tail(s))
  <2>1. i - 1 \in 1..Len(Tail(s)) /\ i = (i - 1) + 1
    BY <1>1, <1>4
  <2> QED BY <1>1, <1>3, <2>1
<1>5. ASSUME NEW i \in 1..Len(Tail(s))
      PROVE  Tail(s)[i] \in Range(s)
  BY <1>1, <1>3
<1>6. 1 \in 1..Len(s)
  BY <1>1
<1> QED BY <1>1, <1>2, <1>3, <1>4, <1>5, <1>6

LEMMA NumberedAppend ==
    ASSUME NEW s \in Seq(1..Chunks), NEW n \in Nat, Numbered(s, n),
           NEW e \in 1..Chunks, e = n + Len(s) + 1
    PROVE  Numbered(Append(s, e), n)
<1>1. /\ Len(s) \in Nat /\ Len(Append(s, e)) = Len(s) + 1
      /\ \A i \in 1..Len(s) : Append(s, e)[i] = s[i]
      /\ Append(s, e)[Len(s) + 1] = e
  BY AppendProperties, LenProperties
<1>2. 1..(Len(s) + 1) = 1..Len(s) \cup {Len(s) + 1}
  BY <1>1
<1> QED BY <1>1, <1>2 DEF Numbered

LEMMA NumberedTail ==
    ASSUME NEW s \in Seq(1..Chunks), s # <<>>, NEW n \in Nat, Numbered(s, n)
    PROVE  Head(s) = n + 1 /\ Numbered(Tail(s), n + 1)
<1>1. /\ Len(s) = Len(Tail(s)) + 1 /\ Len(Tail(s)) \in Nat /\ Head(s) = s[1]
      /\ \A i \in 1..Len(Tail(s)) : Tail(s)[i] = s[i + 1]
  BY Taking, HeadTailProperties
<1>2. \A i \in 1..Len(Tail(s)) : i + 1 \in 1..Len(s)
  BY <1>1
<1> QED BY <1>1, <1>2 DEF Numbered

LEMMA PumpFields ==
    ASSUME NEW M, NEW p \in Pump(M)
    PROVE  /\ p.chain \in Seq(M) /\ p.queue \in Seq(M)
           /\ Len(p.chain) \in Nat /\ Len(p.queue) \in Nat
<1>1. p.chain \in Seq(M) /\ p.queue \in Seq(M)
  BY DEF Pump
<1> QED BY <1>1, LenProperties

LEMMA PumpArrived ==
    ASSUME NEW M, NEW p \in Pump(M), NEW m \in M
    PROVE  LET q == Arrived(p, m)
           IN  /\ q \in Pump(M)
               /\ q.chain = Append(p.chain, m) /\ q.queue = p.queue
               /\ q.closed = p.closed /\ q.drained = p.drained
<1>1. Append(p.chain, m) \in Seq(M)
  BY PumpFields, Appending
<1> QED BY <1>1 DEF Arrived, Pump

LEMMA PumpTaken ==
    ASSUME NEW M, NEW p \in Pump(M), p.queue # <<>>
    PROVE  LET q == Taken(p)
           IN  /\ q \in Pump(M)
               /\ q.chain = p.chain /\ q.queue = Tail(p.queue)
               /\ q.closed = p.closed /\ q.drained = p.drained
<1>1. Tail(p.queue) \in Seq(M)
  BY PumpFields, Taking
<1> QED BY <1>1 DEF Taken, Pump

LEMMA PumpClosed ==
    ASSUME NEW M, NEW p \in Pump(M)
    PROVE  LET q == Closed(p)
           IN  /\ q \in Pump(M)
               /\ q.chain = p.chain /\ q.queue = p.queue
               /\ q.closed /\ q.drained = p.drained
BY DEF Closed, Pump

LEMMA PumpSteps ==
    ASSUME NEW M, NEW p \in Pump(M), NEW q, PumpStep(p, q)
    PROVE  /\ q \in Pump(M) /\ q.closed = p.closed
           /\ \/ /\ p.chain # <<>> /\ q.drained = p.drained
                 /\ q.chain = Tail(p.chain) /\ q.queue = Append(p.queue, Head(p.chain))
              \/ /\ p.closed /\ p.chain = <<>>
                 /\ q.chain = p.chain /\ q.queue = p.queue
<1>1. CASE p.chain # <<>> /\ q = Opened(p)
  <2>1. Tail(p.chain) \in Seq(M) /\ Append(p.queue, Head(p.chain)) \in Seq(M)
    BY <1>1, PumpFields, Taking, Appending
  <2> QED BY <1>1, <2>1 DEF Opened, Pump
<1>2. CASE p.closed /\ p.chain = <<>> /\ q = Drained(p)
  BY <1>2 DEF Drained, Pump
<1> QED BY <1>1, <1>2 DEF PumpStep

\* The steps of Next one by one.
LEMMA Steps ==
    ASSUME [Next]_vars
    PROVE  \/ SenderGets \/ ReceiverGets \/ Discarded
           \/ SenderHearsClose \/ ReceiverHearsClose \/ Drop
           \/ SenderPumps \/ Control \/ ControlFails
           \/ Started \/ NeverStarted \/ NextChunk \/ SenderCancels \/ Take \/ TakeFails
           \/ Send \/ SendWaits \/ SendFails \/ SendResumes \/ SendBreaks \/ SendStalls
           \/ Confirmed \/ Unconfirmed
           \/ ReceiverPumps \/ Choose \/ Receive \/ ReceiveFails \/ ReceiverCancels
           \/ Pulled \/ Count \/ Refill \/ LastChunk
           \/ Flushed \/ DrainThrows \/ CloseSink \/ CloseSinkFails
           \/ Pull \/ WriteChunk \/ WriteFails \/ DrainEnds
           \/ UNCHANGED vars
BY DEF Next, LinkStep, ControlLoop, SendLoop, ReceiveLoop, DrainTask

\* Only the place of the sender moves.
SenderMove ==
    \/ Started \/ NeverStarted \/ NextChunk \/ SenderCancels \/ TakeFails
    \/ SendWaits \/ SendFails \/ SendBreaks \/ SendStalls \/ Confirmed \/ Unconfirmed

\* Only the place of the receiver moves.
ReceiverMove ==
    \/ ReceiveFails \/ ReceiverCancels \/ Pulled \/ LastChunk
    \/ Flushed \/ DrainThrows \/ CloseSinkFails

LEMMA SenderMoved ==
    ASSUME SenderMove
    PROVE  UNCHANGED <<sent, credits, accepted, control, spump, wires, receiving, rpump,
                       draining>>
BY DEF SenderMove, Started, NeverStarted, NextChunk, SenderCancels, TakeFails, SendWaits,
       SendFails, SendBreaks, SendStalls, Confirmed, Unconfirmed, SenderGoes, SenderAt, wires

LEMMA ReceiverMoved ==
    ASSUME ReceiverMove
    PROVE  UNCHANGED <<sending, spump, wires, got, sinceRefill, rpump, draining>>
BY DEF ReceiverMove, ReceiveFails, ReceiverCancels, Pulled, LastChunk, Flushed, DrainThrows,
       CloseSinkFails, ReceiverGoes, ReceiverAt, wires

\* The reply of the receiver to the sender, and what happens with it.
LEMMA Replied ==
    ASSUME TypeOK, NEW m \in Message,
           \/ Choose /\ m = Ready
           \/ Refill /\ m = Credit(sinceRefill + 1)
           \/ CloseSink /\ m = Done
    PROVE  /\ UNCHANGED <<sending, spump, link, toReceiver, lost, got, rpump, draining>>
           /\ sinceRefill' = IF Refill THEN 0 ELSE sinceRefill
           /\ \/ ~rpump.closed /\ toSender' = Sent("receiver", toSender, m)
              \/ receiver' = "failed" /\ UNCHANGED toSender
BY DEF Choose, Refill, CloseSink, Reply, ReceiverAt, Reset

----------------------------------------------------------------------------
(* Types *)

LEMMA MessageTypes ==
    /\ Ready \in Message /\ Done \in Message
    /\ \A n \in Nat : Credit(n) \in Message /\ Grants(Credit(n)) = n /\ Credit(n) # Ready
                      /\ Credit(n) # Done
    /\ Grants(Ready) = Window /\ Ready # Done
    /\ \A m \in Message : Grants(m) \in Nat
BY TransferAssumption DEF Ready, Done, Credit, Message, Grants

LEMMA TypeInit == Init => TypeOK
<1> SUFFICES ASSUME Init PROVE TypeOK
  OBVIOUS
<1>1. \A M : NewPump \in Pump(M)
  BY EmptySeq DEF NewPump, Pump
<1>2. 0 \in 0..Chunks /\ 0 \in 0..RefillAt
  BY TransferAssumption
<1> QED BY <1>1, <1>2, EmptySeq DEF Init, TypeOK

LEMMA TypeStep ==
    ASSUME TypeOK, SenderInv, [Next]_vars
    PROVE  TypeOK'
<1>0. /\ spump \in Pump(Message) /\ rpump \in Pump(1..Chunks)
      /\ toSender \in Seq(Message) /\ toReceiver \in Seq(1..Chunks)
      /\ sent \in 0..Chunks /\ got \in 0..Chunks /\ credits \in Nat
      /\ Chunks \in Nat \ {0} /\ Window \in Nat /\ RefillAt \in Nat \ {0}
  BY TransferAssumption DEF TypeOK
<1>1. CASE SenderGets
  <2>1. /\ toSender # <<>> /\ toSender' = Tail(toSender)
        /\ spump' = Arrived(spump, Head(toSender))
        /\ UNCHANGED <<sending, link, toReceiver, lost, receiving, rpump, draining>>
    BY <1>1 DEF SenderGets
  <2>2. spump' \in Pump(Message) /\ toSender' \in Seq(Message)
    BY <1>0, <2>1, Taking, PumpArrived
  <2> QED BY <2>1, <2>2 DEF TypeOK, sending, receiving, draining
<1>2. CASE ReceiverGets
  <2>1. /\ toReceiver # <<>> /\ toReceiver' = Tail(toReceiver)
        /\ rpump' = Arrived(rpump, Head(toReceiver))
        /\ UNCHANGED <<sending, spump, link, toSender, lost, receiving, draining>>
    BY <1>2 DEF ReceiverGets
  <2>2. rpump' \in Pump(1..Chunks) /\ toReceiver' \in Seq(1..Chunks)
    BY <1>0, <2>1, Taking, PumpArrived
  <2> QED BY <2>1, <2>2 DEF TypeOK, sending, receiving, draining
<1>3. CASE Discarded
  <2>1. /\ toReceiver # <<>> /\ toReceiver' = Tail(toReceiver)
        /\ UNCHANGED <<sending, spump, link, toSender, lost, receiving, rpump, draining>>
    BY <1>3 DEF Discarded
  <2>2. toReceiver' \in Seq(1..Chunks)
    BY <1>0, <2>1, Taking
  <2> QED BY <2>1, <2>2 DEF TypeOK, sending, receiving, draining
<1>4. CASE SenderHearsClose \/ ReceiverHearsClose
  <2>1. /\ UNCHANGED <<sending, wires, receiving, draining>>
        /\ \/ spump' = Closed(spump) /\ rpump' = rpump
           \/ rpump' = Closed(rpump) /\ spump' = spump
    BY <1>4 DEF SenderHearsClose, ReceiverHearsClose
  <2>2. spump' \in Pump(Message) /\ rpump' \in Pump(1..Chunks)
    BY <1>0, <2>1, PumpClosed
  <2> QED BY <2>1, <2>2 DEF TypeOK, sending, wires, receiving, draining
<1>5. CASE Drop
  <2>1. lost' \subseteq Devices
    BY <1>5 DEF Drop, TypeOK
  <2>2. UNCHANGED <<sending, spump, link, toReceiver, toSender, receiving, rpump, draining>>
    BY <1>5 DEF Drop
  <2> QED BY <2>1, <2>2 DEF TypeOK, sending, receiving, draining
<1>6. CASE SenderPumps
  <2>1. /\ PumpStep(spump, spump')
        /\ UNCHANGED <<sending, wires, receiving, rpump, draining>>
    BY <1>6 DEF SenderPumps
  <2>2. spump' \in Pump(Message)
    BY <1>0, <2>1, PumpSteps
  <2> QED BY <2>1, <2>2 DEF TypeOK, sending, wires, receiving, draining
<1>7. CASE ReceiverPumps
  <2>1. /\ PumpStep(rpump, rpump')
        /\ UNCHANGED <<sending, spump, wires, receiving, draining>>
    BY <1>7 DEF ReceiverPumps
  <2>2. rpump' \in Pump(1..Chunks)
    BY <1>0, <2>1, PumpSteps
  <2> QED BY <2>1, <2>2 DEF TypeOK, sending, wires, receiving, draining
<1>8. CASE Control
  <2> DEFINE m == Head(spump.queue)
  <2>1. /\ spump.queue # <<>> /\ spump' = Taken(spump)
        /\ credits' = credits + Grants(m)
        /\ accepted' = (accepted \/ m.kind = "ready")
        /\ control' = IF m.kind = "done" THEN "done" ELSE "on"
        /\ UNCHANGED <<sender, sent, wires, receiving, rpump, draining>>
    BY <1>8 DEF Control
  <2>2. m \in Message /\ spump' \in Pump(Message)
    BY <1>0, <2>1, PumpFields, Taking, PumpTaken
  <2>3. credits' \in Nat
    BY <1>0, <2>1, <2>2, MessageTypes
  <2>4. accepted' \in BOOLEAN /\ control' \in {"on", "done", "failed"}
    BY <2>1
  <2> QED BY <2>1, <2>2, <2>3, <2>4 DEF TypeOK, wires, receiving, draining
<1>9. CASE ControlFails
  BY <1>9 DEF ControlFails, TypeOK, wires, receiving, draining
<1>10. CASE SenderMove
  <2>1. sender' \in {"ready", "top", "gate", "send", "blocked", "confirm"} \cup Over
    BY <1>10 DEF SenderMove, Started, NeverStarted, NextChunk, SenderCancels, TakeFails,
                 SendWaits, SendFails, SendBreaks, SendStalls, Confirmed, Unconfirmed,
                 SenderGoes, SenderAt, Over
  <2> QED BY <1>10, <2>1, SenderMoved DEF TypeOK, wires, receiving, draining
<1>11. CASE Take
  <2>1. credits' \in Nat
    BY <1>0, <1>11 DEF Take
  <2> QED BY <1>11, <2>1 DEF Take, TypeOK, wires, receiving, draining
<1>12. CASE Send \/ SendResumes
  <2>1. /\ sender \in {"send", "blocked"} /\ sender' = "top" /\ sent' = sent + 1
        /\ toReceiver' = Sent("sender", toReceiver, sent + 1)
        /\ UNCHANGED <<credits, accepted, control, spump, link, toSender, lost, receiving,
                       rpump, draining>>
    BY <1>12 DEF Send, SendResumes, Put, SenderAt
  <2>2. sent < Chunks
    BY <2>1 DEF SenderInv
  <2>3. sent + 1 \in 1..Chunks /\ sent' \in 0..Chunks
    BY <1>0, <2>1, <2>2
  <2>4. toReceiver' \in Seq(1..Chunks)
    BY <1>0, <2>1, <2>3, Appending DEF Sent
  <2> QED BY <2>1, <2>3, <2>4 DEF TypeOK, receiving, draining
<1>13. CASE Choose \/ Refill \/ CloseSink
  <2>1. sinceRefill + 1 \in Nat
    BY <1>0 DEF TypeOK
  <2>2. PICK m \in Message :
            \/ Choose /\ m = Ready
            \/ Refill /\ m = Credit(sinceRefill + 1)
            \/ CloseSink /\ m = Done
    BY <1>13, <2>1, MessageTypes
  <2>3. /\ UNCHANGED <<sending, spump, link, toReceiver, lost, got, rpump, draining>>
        /\ sinceRefill' \in {0, sinceRefill}
        /\ toSender' \in {toSender, Sent("receiver", toSender, m)}
    BY <2>2, Replied
  <2>4. toSender' \in Seq(Message)
    BY <1>0, <2>3, Appending DEF Sent
  <2>5. sinceRefill' \in 0..RefillAt
    BY <1>0, <2>3 DEF TypeOK
  <2>6. receiver' \in {"next", "ok", "failed"}
    BY <1>13 DEF Choose, Refill, CloseSink, Reply, ReceiverAt
  <2> QED BY <2>3, <2>4, <2>5, <2>6 DEF TypeOK, sending, draining, Over
<1>14. CASE ReceiverMove
  <2>1. receiver' \in {"choosing", "next", "pushing", "pushed", "draining", "closing"} \cup Over
    BY <1>14 DEF ReceiverMove, ReceiveFails, ReceiverCancels, Pulled, LastChunk, Flushed,
                 DrainThrows, CloseSinkFails, ReceiverGoes, ReceiverAt, Over
  <2> QED BY <1>14, <2>1, ReceiverMoved DEF TypeOK, sending, wires, draining
<1>15. CASE Receive
  <2>1. /\ rpump.queue # <<>> /\ rpump' = Taken(rpump) /\ got' = Head(rpump.queue)
        /\ \/ writing' = got' /\ receiver' = "pushed" /\ UNCHANGED held
           \/ held' = got' /\ receiver' = "pushing" /\ UNCHANGED writing
        /\ UNCHANGED <<sending, spump, wires, sinceRefill, drainer, written>>
    BY <1>15 DEF Receive
  <2>2. got' \in 1..Chunks /\ rpump' \in Pump(1..Chunks)
    BY <1>0, <2>1, PumpFields, Taking, PumpTaken
  <2>3. got' \in 0..Chunks
    BY <1>0, <2>2
  <2> QED BY <2>1, <2>2, <2>3 DEF TypeOK, sending, wires
<1>16. CASE Count
  <2>1. /\ sinceRefill' = sinceRefill + 1 /\ sinceRefill + 1 < RefillAt
        /\ receiver' = "next"
        /\ UNCHANGED <<sending, spump, wires, got, rpump, draining>>
    <3>1. sinceRefill + 1 \in Nat /\ ~(sinceRefill + 1 >= RefillAt)
      BY <1>0, <1>16 DEF Count, RefillDue, TypeOK
    <3> QED BY <1>0, <1>16, <3>1 DEF Count, ReceiverAt, wires
  <2>2. sinceRefill' \in 0..RefillAt
    BY <1>0, <2>1 DEF TypeOK
  <2> QED BY <2>1, <2>2 DEF TypeOK, sending, wires, draining
<1>17. CASE Pull
  BY <1>0, <1>17 DEF Pull, TypeOK, sending, wires, receiving
<1>18. CASE WriteChunk
  <2>1. /\ written' = Append(written, writing) /\ writing # 0 /\ writing' = 0
        /\ UNCHANGED <<sending, spump, wires, receiving, rpump, held, drainer>>
    BY <1>18 DEF WriteChunk
  <2>2. writing \in 1..Chunks /\ writing' \in 0..Chunks
    BY <1>0, <2>1 DEF TypeOK
  <2>3. written' \in Seq(1..Chunks)
    BY <2>1, <2>2, Appending DEF TypeOK
  <2> QED BY <2>1, <2>2, <2>3 DEF TypeOK, sending, wires, receiving
<1>19. CASE WriteFails
  BY <1>0, <1>19 DEF WriteFails, TypeOK, sending, wires, receiving
<1>20. CASE DrainEnds
  BY <1>20 DEF DrainEnds, TypeOK, sending, wires, receiving
<1>21. CASE UNCHANGED vars
  BY <1>21 DEF vars, TypeOK, sending, wires, receiving, draining
<1> QED BY <1>1, <1>2, <1>3, <1>4, <1>5, <1>6, <1>7, <1>8, <1>9, <1>10, <1>11, <1>12, <1>13,
           <1>14, <1>15, <1>16, <1>17, <1>18, <1>19, <1>20, <1>21, Steps
           DEF SenderMove, ReceiverMove

----------------------------------------------------------------------------
(* Where the sender stands *)

\* What the control loop takes was on the way.
LEMMA HeadOnTheWay ==
    ASSUME TypeOK, spump.queue # <<>>
    PROVE  /\ Head(spump.queue) \in OnTheWay
           /\ Head(spump.queue) \in Message
BY PumpFields, Taking DEF TypeOK, OnTheWay

LEMMA SenderStep ==
    ASSUME TypeOK, SenderInv, ControlInv, [Next]_vars
    PROVE  SenderInv'
<1>0. sent \in 0..Chunks /\ Chunks \in Nat /\ sent \in Nat /\ credits \in Nat
  BY TransferAssumption DEF TypeOK
<1>1. ASSUME UNCHANGED sending
      PROVE  SenderInv'
  BY <1>1 DEF SenderInv, sending
<1>2. CASE Control
  <2> DEFINE m == Head(spump.queue)
  <2>1. /\ sender \notin Over /\ spump.queue # <<>>
        /\ credits' = credits + Grants(m)
        /\ accepted' = (accepted \/ m.kind = "ready")
        /\ UNCHANGED <<sender, sent>>
    BY <1>2 DEF Control
  <2>2. ~accepted => m = Ready
    BY <2>1, HeadOnTheWay DEF ControlInv
  <2>3. Ready.kind = "ready"
    BY DEF Ready
  <2>4. accepted'
    BY <2>1, <2>2, <2>3
  <2> QED BY <2>1, <2>4 DEF SenderInv, Over
<1>3. CASE ControlFails
  BY <1>3 DEF ControlFails, SenderInv, Over
<1>4. CASE SenderMove
  <2>1. UNCHANGED <<sent, credits, accepted, control>>
    BY <1>4, SenderMoved
  <2>2. CASE sender' = "failed"
    BY <2>1, <2>2 DEF SenderInv
  <2>3. CASE Started
    BY <2>1, <2>3 DEF Started, SenderGoes, SenderAt, SenderInv
  <2>4. CASE NextChunk
    BY <1>0, <2>1, <2>4 DEF NextChunk, SenderGoes, SenderAt, SenderInv
  <2>5. CASE SendWaits
    BY <2>1, <2>5 DEF SendWaits, SenderGoes, SenderAt, SenderInv
  <2>6. CASE Confirmed
    BY <2>1, <2>6 DEF Confirmed, SenderGoes, SenderAt, SenderInv
  <2> QED BY <1>4, <2>2, <2>3, <2>4, <2>5, <2>6
          DEF SenderMove, NeverStarted, SenderCancels, TakeFails, SendFails, SendBreaks,
              SendStalls, Unconfirmed, SenderGoes, SenderAt
<1>5. CASE Take
  BY <1>5 DEF Take, SenderInv
<1>6. CASE Send \/ SendResumes
  BY <1>6 DEF Send, SendResumes, Put, SenderAt, SenderInv
<1>7. ASSUME \/ SenderGets \/ ReceiverGets \/ Discarded
             \/ SenderHearsClose \/ ReceiverHearsClose \/ Drop
             \/ SenderPumps \/ ReceiverPumps \/ Choose \/ Receive \/ ReceiverMove
             \/ Count \/ Refill \/ CloseSink
             \/ Pull \/ WriteChunk \/ WriteFails \/ DrainEnds \/ UNCHANGED vars
      PROVE  UNCHANGED sending
  BY <1>7, ReceiverMoved
     DEF SenderGets, ReceiverGets, Discarded, SenderHearsClose, ReceiverHearsClose, Drop,
         SenderPumps, ReceiverPumps, Choose, Receive, Count, Refill, CloseSink, Reply,
         ReceiverAt, Pull, WriteChunk, WriteFails, DrainEnds, vars
<1> QED BY <1>1, <1>2, <1>3, <1>4, <1>5, <1>6, <1>7, Steps DEF SenderMove, ReceiverMove

----------------------------------------------------------------------------
(* The chunks between the two loops *)

LEMMA PathFrame ==
    ASSUME PathInv, UNCHANGED <<got, sent, link>>, receiver' \notin Over => receiver \notin Over,
           lost \subseteq lost', rpump'.queue = rpump.queue, rpump'.chain = rpump.chain,
           toReceiver' = toReceiver
    PROVE  PathInv'
<1>1. UNCHANGED <<Queued, Opening, Travelling, Underway>>
  BY DEF Queued, Opening, Travelling, Underway
<1> QED BY <1>1 DEF PathInv

LEMMA PathNumbers ==
    ASSUME TypeOK
    PROVE  /\ Queued \in Nat /\ Opening \in Nat /\ Travelling \in Nat
           /\ sent \in Nat /\ got \in Nat
           /\ got + Queued \in Nat /\ got + Queued + Opening \in Nat
           /\ Underway \in Nat /\ Underway = Queued + Opening + Travelling
<1>1. sent \in Nat /\ got \in Nat
  BY TransferAssumption DEF TypeOK
<1>2. Queued \in Nat /\ Opening \in Nat /\ Travelling \in Nat
  BY PumpFields, LenProperties DEF TypeOK, Queued, Opening, Travelling
<1> QED BY <1>1, <1>2 DEF Underway

LEMMA PathStep ==
    ASSUME TypeOK, SenderInv, PathInv, [Next]_vars
    PROVE  PathInv'
<1>0. /\ rpump \in Pump(1..Chunks) /\ toReceiver \in Seq(1..Chunks)
      /\ rpump.queue \in Seq(1..Chunks) /\ rpump.chain \in Seq(1..Chunks)
  BY PumpFields DEF TypeOK
<1>1. CASE ReceiverGets
  <2>1. /\ receiver \notin Over /\ toReceiver # <<>>
        /\ toReceiver' = Tail(toReceiver)
        /\ rpump' = Arrived(rpump, Head(toReceiver))
        /\ UNCHANGED <<receiver, sent, got, link, lost>>
    BY <1>1 DEF ReceiverGets, sending, receiving
  <2>2. /\ Numbered(rpump.queue, got) /\ Numbered(rpump.chain, got + Queued)
        /\ Numbered(toReceiver, got + Queued + Opening)
    BY <2>1 DEF PathInv
  <2>3. /\ Head(toReceiver) \in 1..Chunks
        /\ Head(toReceiver) = got + Queued + Opening + 1
        /\ Numbered(toReceiver', got + Queued + Opening + 1)
    BY <1>0, <2>1, <2>2, Taking, NumberedTail, PathNumbers
  <2>4. Travelling = Travelling' + 1 /\ Travelling' \in Nat
    BY <1>0, <2>1, Taking DEF Travelling
  <2>5. rpump'.chain = Append(rpump.chain, Head(toReceiver)) /\ rpump'.queue = rpump.queue
    BY <1>0, <2>1, <2>3, PumpArrived
  <2>6. Opening' = Opening + 1 /\ Queued' = Queued
    BY <1>0, <2>3, <2>5, Appending DEF Opening, Queued
  <2>7. Numbered(rpump'.chain, got + Queued)
    <3>1. Head(toReceiver) = got + Queued + Len(rpump.chain) + 1
      BY <2>3 DEF Opening
    <3> QED BY <1>0, <2>2, <2>3, <2>5, <3>1, NumberedAppend, PathNumbers
  <2>8. got' = got
    BY <2>1
  <2>9. /\ Underway' = Underway
        /\ got + Queued = got' + Queued'
        /\ got + Queued + Opening + 1 = got' + Queued' + Opening'
    BY <2>4, <2>6, <2>8, PathNumbers DEF Underway
  <2> QED BY <2>1, <2>2, <2>3, <2>5, <2>7, <2>9 DEF PathInv
<1>2. CASE Discarded
  <2>1. /\ receiver \in Over /\ toReceiver # <<>> /\ toReceiver' = Tail(toReceiver)
        /\ UNCHANGED <<receiver, sent, got, rpump>>
    BY <1>2 DEF Discarded, sending, receiving
  <2>2. /\ Travelling = Travelling' + 1 /\ Travelling' \in Nat
        /\ Queued' = Queued /\ Opening' = Opening
    BY <1>0, <2>1, Taking DEF Travelling, Queued, Opening
  <2>3. got + Underway <= sent
    BY DEF PathInv
  <2>4. got' = got /\ sent' = sent
    BY <2>1
  <2>5. got' + Underway' <= sent'
    BY <2>2, <2>3, <2>4, PathNumbers DEF Underway
  <2> QED BY <2>1, <2>5 DEF PathInv
<1>3. CASE ReceiverHearsClose
  <2>1. /\ rpump' = Closed(rpump)
        /\ UNCHANGED <<sent, got, toReceiver, receiver, link, lost>>
    BY <1>3 DEF ReceiverHearsClose, sending, receiving, wires
  <2>2. rpump'.chain = rpump.chain /\ rpump'.queue = rpump.queue
    BY <1>0, <2>1, PumpClosed
  <2> QED BY <2>1, <2>2, PathFrame
<1>4. CASE ReceiverPumps
  <2>1. /\ receiver \notin Over /\ PumpStep(rpump, rpump')
        /\ UNCHANGED <<sent, got, toReceiver, receiver, link, lost>>
    BY <1>4 DEF ReceiverPumps, sending, receiving, wires
  <2>2. \/ /\ rpump.chain # <<>> /\ rpump'.chain = Tail(rpump.chain)
           /\ rpump'.queue = Append(rpump.queue, Head(rpump.chain))
        \/ rpump'.chain = rpump.chain /\ rpump'.queue = rpump.queue
    BY <1>0, <2>1, PumpSteps
  <2>3. CASE rpump'.chain = rpump.chain /\ rpump'.queue = rpump.queue
    BY <2>1, <2>3, PathFrame
  <2>4. CASE /\ rpump.chain # <<>> /\ rpump'.chain = Tail(rpump.chain)
             /\ rpump'.queue = Append(rpump.queue, Head(rpump.chain))
    <3>1. /\ Numbered(rpump.queue, got) /\ Numbered(rpump.chain, got + Queued)
          /\ Numbered(toReceiver, got + Queued + Opening)
      BY <2>1 DEF PathInv
    <3>2. /\ Head(rpump.chain) \in 1..Chunks
          /\ Head(rpump.chain) = got + Queued + 1
          /\ Numbered(rpump'.chain, got + Queued + 1)
      BY <1>0, <2>4, <3>1, Taking, NumberedTail, PathNumbers
    <3>3. Opening = Opening' + 1 /\ Opening' \in Nat
      BY <1>0, <2>4, Taking DEF Opening
    <3>4. Queued' = Queued + 1 /\ Travelling' = Travelling
      BY <1>0, <2>1, <2>4, <3>2, Appending DEF Queued, Travelling
    <3>5. Numbered(rpump'.queue, got)
      <4>1. Head(rpump.chain) = got + Len(rpump.queue) + 1
        BY <3>2 DEF Queued
      <4> QED BY <1>0, <2>4, <3>1, <3>2, <4>1, NumberedAppend, PathNumbers
    <3>6. got' = got
      BY <2>1
    <3>7. /\ Underway' = Underway
          /\ got + Queued + 1 = got' + Queued'
          /\ got + Queued + Opening = got' + Queued' + Opening'
      BY <3>3, <3>4, <3>6, PathNumbers DEF Underway
    <3> QED BY <2>1, <3>1, <3>2, <3>5, <3>7 DEF PathInv
  <2> QED BY <2>2, <2>3, <2>4
<1>5. CASE Receive
  <2>1. /\ receiver = "next" /\ receiver' \in {"pushed", "pushing"}
        /\ rpump.queue # <<>> /\ rpump' = Taken(rpump) /\ got' = Head(rpump.queue)
        /\ UNCHANGED <<sent, toReceiver, link, lost>>
    BY <1>5 DEF Receive, sending, wires
  <2>2. /\ Numbered(rpump.queue, got) /\ Numbered(rpump.chain, got + Queued)
        /\ Numbered(toReceiver, got + Queued + Opening)
    BY <2>1 DEF PathInv, Over
  <2>3. rpump'.chain = rpump.chain /\ rpump'.queue = Tail(rpump.queue)
    BY <1>0, <2>1, PumpTaken
  <2>4. got' = got + 1 /\ Numbered(rpump'.queue, got + 1)
    BY <1>0, <2>1, <2>2, <2>3, NumberedTail, PathNumbers
  <2>5. /\ Queued = Queued' + 1 /\ Queued' \in Nat
        /\ Opening' = Opening /\ Travelling' = Travelling
    BY <1>0, <2>1, <2>3, Taking DEF Queued, Opening, Travelling
  <2>6. /\ got' + Underway' = got + Underway
        /\ got + Queued = got' + Queued'
        /\ got + Queued + Opening = got' + Queued' + Opening'
    BY <2>4, <2>5, PathNumbers DEF Underway
  <2> QED BY <2>1, <2>2, <2>3, <2>4, <2>6 DEF PathInv, Over
<1>6. CASE Send \/ SendResumes
  <2>1. /\ sender \in {"send", "blocked"} /\ sent' = sent + 1
        /\ toReceiver' = Sent("sender", toReceiver, sent + 1)
        /\ UNCHANGED <<link, lost, receiver, got, rpump>>
    BY <1>6 DEF Send, SendResumes, Put, SenderAt, receiving
  <2>2. sent + 1 \in 1..Chunks
    BY <2>1, TransferAssumption DEF SenderInv, TypeOK
  <2>3. got' = got /\ Queued' = Queued /\ Opening' = Opening
    BY <2>1 DEF Queued, Opening
  <2>4. got + Underway <= sent
    BY DEF PathInv
  <2>5. CASE link = "relay" /\ "sender" \in lost
    <3>1. toReceiver' = toReceiver /\ link # "p2p"
      BY <2>1, <2>5 DEF Sent
    <3>2. Travelling' = Travelling
      BY <3>1 DEF Travelling
    <3>3. got' + Underway' <= sent'
      BY <2>1, <2>3, <2>4, <3>2, PathNumbers DEF Underway
    <3> QED BY <2>1, <2>3, <2>5, <3>1, <3>3 DEF PathInv
  <2>6. CASE ~(link = "relay" /\ "sender" \in lost)
    <3>1. toReceiver' = Append(toReceiver, sent + 1) /\ (link = "p2p" \/ "sender" \notin lost)
      BY <2>1, <2>6, TransferAssumption DEF Sent, TypeOK
    <3>2. Travelling' = Travelling + 1
      BY <1>0, <2>2, <3>1, Appending DEF Travelling
    <3>3. Underway' = Underway + 1
      BY <2>3, <3>2, PathNumbers DEF Underway
    <3>4. ASSUME receiver \notin Over
          PROVE  /\ Numbered(toReceiver', got + Queued + Opening)
                 /\ got + Underway = sent
      <4>1. /\ Numbered(toReceiver, got + Queued + Opening)
            /\ got + Underway = sent
        BY <3>1, <3>4 DEF PathInv
      <4>2. sent + 1 = got + Queued + Opening + Travelling + 1
        BY <4>1, PathNumbers
      <4>3. sent + 1 = got + Queued + Opening + Len(toReceiver) + 1
        BY <4>2 DEF Travelling
      <4> QED BY <1>0, <2>2, <3>1, <4>1, <4>3, NumberedAppend, PathNumbers
    <3>5. got' + Underway' <= sent'
      BY <2>1, <2>3, <2>4, <3>3, PathNumbers
    <3>6. receiver \notin Over => got' + Underway' = sent'
      BY <2>1, <2>3, <3>3, <3>4, PathNumbers
    <3> QED BY <2>1, <2>3, <3>4, <3>5, <3>6 DEF PathInv
  <2> QED BY <2>5, <2>6
<1>7. CASE Drop
  <2>1. lost \subseteq lost'
    BY <1>7 DEF Drop, TypeOK
  <2> QED BY <1>7, <2>1, PathFrame DEF Drop, sending, receiving
<1>8. CASE Choose \/ Refill \/ CloseSink
  BY <1>8, PathFrame DEF Choose, Refill, CloseSink, Reply, ReceiverAt, sending, Over
<1>9. CASE ReceiverMove
  <2>1. receiver \notin Over
    BY <1>9 DEF ReceiverMove, ReceiveFails, ReceiverCancels, Pulled, LastChunk, Flushed,
                DrainThrows, CloseSinkFails, ReceiverGoes, ReceiverAt, Over
  <2> QED BY <1>9, <2>1, ReceiverMoved, PathFrame DEF sending, wires
<1>10. CASE Count
  BY <1>10, PathFrame DEF Count, ReceiverAt, sending, Over
<1>11. CASE \/ SenderGets \/ SenderHearsClose \/ SenderPumps \/ Control \/ ControlFails
            \/ Take \/ Pull \/ WriteChunk \/ WriteFails \/ DrainEnds \/ UNCHANGED vars
  <2>1. UNCHANGED <<got, rpump, toReceiver, sent, link, lost, receiver>>
    BY <1>11 DEF SenderGets, SenderHearsClose, SenderPumps, Control, ControlFails, Take, Pull,
                 WriteChunk, WriteFails, DrainEnds, vars, sending, receiving, wires
  <2> QED BY <2>1, PathFrame
<1>12. CASE SenderMove
  BY <1>12, SenderMoved, PathFrame DEF receiving, wires
<1> QED BY <1>1, <1>2, <1>3, <1>4, <1>5, <1>6, <1>7, <1>8, <1>9, <1>10, <1>11, <1>12, Steps
           DEF SenderMove, ReceiverMove

----------------------------------------------------------------------------
(* What the drain task has *)

LEMMA DrainFrame ==
    ASSUME DrainInv, UNCHANGED <<draining, receiver, got>>
    PROVE  DrainInv'
BY DEF DrainInv, Kept, Numbered, draining

\* The receiver moves on, and neither its chunk nor the drain task's.
LEMMA DrainMove ==
    ASSUME DrainInv, UNCHANGED <<draining, got>>, held = 0, receiver' # "pushing",
           drainer = "done" => receiver' \in {"draining", "closing"} \cup Over,
           receiver' = "pushed" => got > 0,
           receiver' \in {"draining", "closing", "ok"} => got = Chunks,
           receiver' \in {"closing", "ok"} => drainer = "done"
    PROVE  DrainInv'
BY DEF DrainInv, Kept, Numbered, draining

LEMMA DrainStep ==
    ASSUME TypeOK, PathInv, DrainInv, [Next]_vars
    PROVE  DrainInv'
<1>0. /\ written \in Seq(1..Chunks) /\ Len(written) \in Nat
      /\ got \in Nat /\ held \in Nat /\ writing \in Nat /\ held \in 0..Chunks
      /\ drainer \in {"on", "done", "failed"}
      /\ rpump \in Pump(1..Chunks) /\ rpump.queue \in Seq(1..Chunks)
  BY TransferAssumption, PumpFields, LenProperties DEF TypeOK
<1>1. CASE Receive
  <2>1. /\ receiver = "next" /\ rpump.queue # <<>> /\ got' = Head(rpump.queue)
        /\ \/ ReaderWaits /\ writing' = got' /\ receiver' = "pushed" /\ UNCHANGED held
           \/ ~ReaderWaits /\ held' = got' /\ receiver' = "pushing" /\ UNCHANGED writing
        /\ UNCHANGED <<drainer, written>>
    BY <1>1 DEF Receive
  <2>2. Numbered(rpump.queue, got)
    BY <2>1 DEF PathInv, Over
  <2>3. got' = got + 1
    BY <1>0, <2>1, <2>2, NumberedTail
  <2>4. held = 0 /\ drainer # "done"
    BY <2>1 DEF DrainInv, Over
  <2>5. CASE ReaderWaits /\ writing' = got' /\ receiver' = "pushed" /\ UNCHANGED held
    <3>1. writing = 0 /\ drainer = "on" /\ got = Len(written)
      BY <1>0, <2>4, <2>5 DEF ReaderWaits, DrainInv, Kept
    <3>2. writing' = Len(written) + 1 /\ got' = Kept'
      BY <1>0, <2>1, <2>3, <2>4, <2>5, <3>1 DEF Kept
    <3> QED BY <1>0, <2>1, <2>3, <2>4, <2>5, <3>1, <3>2 DEF DrainInv
  <2>6. CASE ~ReaderWaits /\ held' = got' /\ receiver' = "pushing" /\ UNCHANGED writing
    <3>1. held' # 0 /\ UNCHANGED <<writing, written>>
      BY <1>0, <2>1, <2>3, <2>6
    <3>2. Kept' = Kept + 1
      BY <1>0, <2>4, <3>1 DEF Kept
    <3>3. drainer # "failed" => got' = Kept'
      BY <2>3, <3>2 DEF DrainInv
    <3> QED BY <1>0, <2>1, <2>3, <2>4, <2>6, <3>1, <3>3 DEF DrainInv
  <2> QED BY <2>1, <2>5, <2>6
<1>2. CASE Choose \/ Refill \/ CloseSink
  <2>1. /\ UNCHANGED <<draining, got>> /\ receiver \in {"choosing", "pushed", "closing"}
        /\ \/ receiver' = "failed"
           \/ receiver' = "next" /\ receiver \in {"choosing", "pushed"}
           \/ receiver' = "ok" /\ receiver = "closing"
    BY <1>2 DEF Choose, Refill, CloseSink, Reply, ReceiverAt
  <2>2. held = 0 /\ (drainer = "done" => receiver = "closing")
        /\ (receiver = "closing" => got = Chunks /\ drainer = "done")
    BY <2>1 DEF DrainInv, Over
  <2> QED BY <2>1, <2>2, DrainMove DEF Over
<1>3. CASE Count
  <2>1. /\ UNCHANGED <<draining, got>> /\ receiver = "pushed" /\ receiver' = "next"
    BY <1>3 DEF Count, ReceiverAt
  <2>2. held = 0 /\ drainer # "done"
    BY <2>1 DEF DrainInv, Over
  <2> QED BY <2>1, <2>2, DrainMove DEF Over
<1>4. CASE ReceiverMove
  <2>1. UNCHANGED <<draining, got>>
    BY <1>4, ReceiverMoved
  <2>2. \/ receiver' = "failed" /\ receiver # "pushing"
        \/ receiver = "pushing" /\ held = 0 /\ receiver' = "pushed"
        \/ receiver = "pushed" /\ got = Chunks /\ receiver' = "draining"
        \/ receiver = "draining" /\ drainer = "done" /\ receiver' = "closing"
    BY <1>4 DEF ReceiverMove, ReceiveFails, ReceiverCancels, Pulled, LastChunk, Flushed,
                DrainAwaited, DrainThrows, CloseSinkFails, ReceiverGoes, ReceiverAt
  <2>3. held = 0
    BY <2>2 DEF DrainInv
  <2>4. drainer = "done" => receiver' \in {"draining", "closing"} \cup Over
    BY <2>2 DEF DrainInv, Over
  <2>5. receiver' = "pushed" => got > 0
    BY <2>2 DEF DrainInv
  <2>6. receiver' \in {"draining", "closing", "ok"} => got = Chunks
    BY <2>2 DEF DrainInv
  <2>7. receiver' \in {"closing", "ok"} => drainer = "done"
    BY <2>2
  <2> QED BY <2>1, <2>2, <2>3, <2>4, <2>5, <2>6, <2>7, DrainMove
<1>5. CASE Pull
  <2>1. /\ drainer = "on" /\ writing = 0 /\ held # 0 /\ writing' = held /\ held' = 0
        /\ UNCHANGED <<receiver, got, drainer, written>>
    BY <1>5 DEF Pull, ReaderWaits, receiving
  <2>2. got = Len(written) + 1 /\ held = got
    BY <1>0, <2>1 DEF DrainInv, Kept
  <2>3. Kept' = got'
    BY <1>0, <2>1, <2>2 DEF Kept
  <2> QED BY <1>0, <2>1, <2>2, <2>3 DEF DrainInv
<1>6. CASE WriteChunk
  <2>1. /\ writing # 0 /\ written' = Append(written, writing) /\ writing' = 0
        /\ UNCHANGED <<receiver, got, held, drainer>>
    BY <1>6 DEF WriteChunk, receiving
  <2>2. drainer = "on" /\ writing = Len(written) + 1 /\ got = Kept
    BY <1>0, <2>1 DEF DrainInv
  <2>3. writing \in 1..Chunks
    BY <2>1, TransferAssumption DEF TypeOK
  <2>4. Len(written') = Len(written) + 1
    BY <1>0, <2>1, <2>3, Appending
  <2>5. Numbered(written', 0)
    BY <1>0, <2>1, <2>2, <2>3, NumberedAppend DEF DrainInv
  <2>6. Kept' = Kept
    BY <1>0, <2>1, <2>4 DEF Kept
  <2> QED BY <2>1, <2>2, <2>5, <2>6 DEF DrainInv
<1>7. CASE WriteFails
  <2>1. /\ writing # 0 /\ writing' = 0 /\ drainer' = "failed"
        /\ UNCHANGED <<receiver, got, held, written>>
    BY <1>7 DEF WriteFails, receiving
  <2>2. drainer # "done"
    BY <2>1 DEF DrainInv
  <2>3. receiver \notin {"closing", "ok"}
    BY <2>2 DEF DrainInv
  <2> QED BY <2>1, <2>3 DEF DrainInv
<1>8. CASE DrainEnds
  <2>1. /\ receiver = "draining" /\ drainer = "on" /\ writing = 0 /\ held = 0
        /\ drainer' = "done" /\ UNCHANGED <<receiver, got, held, writing, written>>
    BY <1>8 DEF DrainEnds, ReaderWaits, receiving
  <2>2. Kept' = Kept
    BY <2>1 DEF Kept
  <2> QED BY <2>1, <2>2 DEF DrainInv
<1>9. CASE \/ SenderGets \/ ReceiverGets \/ Discarded
           \/ SenderHearsClose \/ ReceiverHearsClose \/ Drop
           \/ SenderPumps \/ Control \/ ControlFails \/ Take \/ Send \/ SendResumes
           \/ ReceiverPumps \/ UNCHANGED vars
  <2>1. UNCHANGED <<draining, receiver, got>>
    BY <1>9 DEF SenderGets, ReceiverGets, Discarded, SenderHearsClose, ReceiverHearsClose,
                Drop, SenderPumps, Control, ControlFails, Take, Send, SendResumes, Put,
                SenderAt, ReceiverPumps, vars, receiving
  <2> QED BY <2>1, DrainFrame
<1>10. CASE SenderMove
  BY <1>10, SenderMoved, DrainFrame DEF receiving
<1> QED BY <1>1, <1>2, <1>3, <1>4, <1>5, <1>6, <1>7, <1>8, <1>9, <1>10, Steps
           DEF SenderMove, ReceiverMove

----------------------------------------------------------------------------
(* What the receiver says *)

LEMMA NoMessages ==
    ASSUME NEW q \in Seq(Message), NEW c \in Seq(Message), NEW w \in Seq(Message),
           Len(q) + Len(c) + Len(w) = 0
    PROVE  Range(q) \cup Range(c) \cup Range(w) = {}
<1>1. Len(q) \in Nat /\ Len(c) \in Nat /\ Len(w) \in Nat
  BY LenProperties
<1>2. Len(q) = 0 /\ Len(c) = 0 /\ Len(w) = 0
  BY <1>1
<1>3. ASSUME NEW s \in Seq(Message), Len(s) = 0
      PROVE  Range(s) = {}
  <2>1. Range(s) = {s[i] : i \in 1..0}
    BY <1>3, RangeEquality
  <2> QED BY <2>1
<1> QED BY <1>2, <1>3

LEMMA WayNumbers ==
    ASSUME TypeOK
    PROVE  /\ Unhandled \in Nat /\ Unopened \in Nat /\ Replies \in Nat
           /\ HowMany \in Nat
           /\ HowMany = 0 => OnTheWay = {}
<1>1. /\ spump.queue \in Seq(Message) /\ spump.chain \in Seq(Message)
      /\ toSender \in Seq(Message)
  BY PumpFields DEF TypeOK
<1>2. Unhandled \in Nat /\ Unopened \in Nat /\ Replies \in Nat
  BY <1>1, LenProperties DEF Unhandled, Unopened, Replies
<1>3. HowMany = 0 => OnTheWay = {}
  BY <1>1, NoMessages DEF HowMany, Unhandled, Unopened, Replies, OnTheWay
<1> QED BY <1>2, <1>3 DEF HowMany

\* A message that moves on is still on its way.
LEMMA WayMoves ==
    ASSUME TypeOK, SenderGets \/ SenderPumps \/ SenderHearsClose
    PROVE  /\ OnTheWay' = OnTheWay /\ HowMany' = HowMany
           /\ UNCHANGED <<sending, link, toReceiver, lost, receiving, rpump, draining>>
<1>0. /\ spump \in Pump(Message) /\ toSender \in Seq(Message)
      /\ spump.queue \in Seq(Message) /\ spump.chain \in Seq(Message)
  BY PumpFields DEF TypeOK
<1>1. CASE SenderGets
  <2>1. /\ toSender # <<>> /\ toSender' = Tail(toSender)
        /\ spump' = Arrived(spump, Head(toSender))
    BY <1>1 DEF SenderGets
  <2>2. /\ Head(toSender) \in Message
        /\ Replies = Replies' + 1 /\ Replies' \in Nat
        /\ Range(toSender) = {Head(toSender)} \cup Range(toSender')
    BY <1>0, <2>1, Taking DEF Replies
  <2>3. spump'.chain = Append(spump.chain, Head(toSender)) /\ spump'.queue = spump.queue
    BY <1>0, <2>1, <2>2, PumpArrived
  <2>4. /\ Unopened' = Unopened + 1 /\ Unhandled' = Unhandled
        /\ Range(spump'.chain) = Range(spump.chain) \cup {Head(toSender)}
    BY <1>0, <2>2, <2>3, Appending DEF Unopened, Unhandled
  <2>5. HowMany' = HowMany
    BY <2>2, <2>4, WayNumbers DEF HowMany
  <2>6. OnTheWay' = OnTheWay
    BY <2>2, <2>3, <2>4 DEF OnTheWay
  <2> QED BY <1>1, <2>5, <2>6 DEF SenderGets
<1>2. CASE SenderPumps
  <2>1. PumpStep(spump, spump') /\ UNCHANGED toSender
    BY <1>2 DEF SenderPumps, wires
  <2>2. \/ /\ spump.chain # <<>> /\ spump'.chain = Tail(spump.chain)
           /\ spump'.queue = Append(spump.queue, Head(spump.chain))
        \/ spump'.chain = spump.chain /\ spump'.queue = spump.queue
    BY <1>0, <2>1, PumpSteps
  <2>3. CASE spump'.chain = spump.chain /\ spump'.queue = spump.queue
    BY <1>2, <2>1, <2>3
       DEF SenderPumps, wires, OnTheWay, HowMany, Unhandled, Unopened, Replies
  <2>4. CASE /\ spump.chain # <<>> /\ spump'.chain = Tail(spump.chain)
             /\ spump'.queue = Append(spump.queue, Head(spump.chain))
    <3>1. /\ Head(spump.chain) \in Message
          /\ Unopened = Unopened' + 1 /\ Unopened' \in Nat
          /\ Range(spump.chain) = {Head(spump.chain)} \cup Range(spump'.chain)
      BY <1>0, <2>4, Taking DEF Unopened
    <3>2. /\ Unhandled' = Unhandled + 1 /\ Replies' = Replies
          /\ Range(spump'.queue) = Range(spump.queue) \cup {Head(spump.chain)}
      BY <1>0, <2>1, <2>4, <3>1, Appending DEF Unhandled, Replies
    <3>3. HowMany' = HowMany
      BY <3>1, <3>2, WayNumbers DEF HowMany
    <3>4. OnTheWay' = OnTheWay
      BY <2>1, <3>1, <3>2 DEF OnTheWay
    <3> QED BY <1>2, <3>3, <3>4 DEF SenderPumps, wires
  <2> QED BY <2>2, <2>3, <2>4
<1>3. CASE SenderHearsClose
  <2>1. spump' = Closed(spump) /\ UNCHANGED toSender
    BY <1>3 DEF SenderHearsClose, wires
  <2>2. spump'.chain = spump.chain /\ spump'.queue = spump.queue
    BY <1>0, <2>1, PumpClosed
  <2> QED BY <1>3, <2>1, <2>2
          DEF SenderHearsClose, wires, OnTheWay, HowMany, Unhandled, Unopened, Replies
<1> QED BY <1>1, <1>2, <1>3

LEMMA WayHandled ==
    ASSUME TypeOK, Control
    PROVE  /\ OnTheWay = {Head(spump.queue)} \cup OnTheWay'
           /\ HowMany = HowMany' + 1 /\ HowMany' \in Nat
           /\ HowMany' = 0 => OnTheWay' = {}
<1>0. spump \in Pump(Message) /\ spump.queue \in Seq(Message)
  BY PumpFields DEF TypeOK
<1>1. spump.queue # <<>> /\ spump' = Taken(spump) /\ UNCHANGED toSender
  BY DEF Control, wires
<1>2. spump'.chain = spump.chain /\ spump'.queue = Tail(spump.queue)
  BY <1>0, <1>1, PumpTaken
<1>3. /\ Unhandled = Unhandled' + 1 /\ Unhandled' \in Nat
      /\ Range(spump.queue) = {Head(spump.queue)} \cup Range(spump'.queue)
  BY <1>0, <1>1, <1>2, Taking DEF Unhandled
<1>4. Unopened' = Unopened /\ Replies' = Replies
  BY <1>1, <1>2 DEF Unopened, Replies
<1>5. HowMany = HowMany' + 1 /\ HowMany' \in Nat
  BY <1>3, <1>4, WayNumbers DEF HowMany
<1>6. OnTheWay = {Head(spump.queue)} \cup OnTheWay'
  BY <1>1, <1>2, <1>3 DEF OnTheWay
<1>7. /\ spump'.queue \in Seq(Message) /\ spump'.chain \in Seq(Message)
      /\ toSender' \in Seq(Message)
  BY <1>0, <1>1, <1>2, PumpFields, Taking DEF TypeOK
<1>8. HowMany' = 0 => OnTheWay' = {}
  BY <1>7, NoMessages DEF HowMany, Unhandled, Unopened, Replies, OnTheWay
<1> QED BY <1>5, <1>6, <1>8

LEMMA WaySaid ==
    ASSUME TypeOK, NEW m \in Message, spump' = spump, toSender' = Append(toSender, m)
    PROVE  OnTheWay' = OnTheWay \cup {m} /\ HowMany' = HowMany + 1
<1>1. Replies' = Replies + 1 /\ Range(toSender') = Range(toSender) \cup {m}
  BY Appending DEF TypeOK, Replies
<1>2. Unopened' = Unopened /\ Unhandled' = Unhandled
  BY DEF Unopened, Unhandled
<1>3. HowMany' = HowMany + 1
  BY <1>1, <1>2, WayNumbers DEF HowMany
<1> QED BY <1>1, <1>3 DEF OnTheWay

LEMMA WayStays ==
    ASSUME UNCHANGED <<spump, toSender>>
    PROVE  OnTheWay' = OnTheWay /\ HowMany' = HowMany
BY DEF OnTheWay, HowMany, Unhandled, Unopened, Replies

LEMMA Answered ==
    ASSUME TypeOK, NEW m \in Message,
           \/ Choose /\ m = Ready
           \/ Refill /\ m = Credit(sinceRefill + 1)
           \/ CloseSink /\ m = Done
    PROVE  \/ OnTheWay' = OnTheWay /\ HowMany' = HowMany
              /\ (receiver' = "failed" \/ "receiver" \in lost)
           \/ OnTheWay' = OnTheWay \cup {m} /\ HowMany' = HowMany + 1
<1>1. /\ UNCHANGED spump
      /\ \/ toSender' = Sent("receiver", toSender, m)
         \/ receiver' = "failed" /\ UNCHANGED toSender
  BY Replied
<1>2. CASE UNCHANGED toSender /\ (receiver' = "failed" \/ "receiver" \in lost)
  BY <1>1, <1>2, WayStays
<1>3. CASE toSender' = Append(toSender, m)
  BY <1>1, <1>3, WaySaid
<1> QED BY <1>1, <1>2, <1>3 DEF Sent

LEMMA ControlFrame ==
    ASSUME ControlInv, UNCHANGED <<accepted, sinceRefill>>,
           OnTheWay' = OnTheWay, HowMany' = HowMany,
           control' = "done" => control = "done",
           receiver' = "choosing" => receiver = "choosing",
           receiver = "ok" => receiver' = "ok"
    PROVE  ControlInv'
BY DEF ControlInv

\* Before MSG_READY has been handled no chunk was sent, so the receiver has none.
LEMMA Unaccepted ==
    ASSUME TypeOK, SenderInv, PathInv, DrainInv, ~accepted
    PROVE  sent = 0 /\ got = 0 /\ credits = 0
           /\ receiver \notin {"pushing", "pushed", "draining", "closing", "ok"}
<1>1. sent = 0 /\ credits = 0 /\ got + Underway <= sent
  BY DEF SenderInv, PathInv
<1>n. got \in Nat /\ Underway \in Nat
  BY PathNumbers
<1>2. got = 0
  BY <1>1, <1>n
<1>3. Chunks # 0 /\ ~(0 > 0)
  BY TransferAssumption
<1> QED BY <1>1, <1>2, <1>3 DEF DrainInv

LEMMA LastOne == \A a, b \in Nat : a = b + 1 => a # 0 /\ (a <= 1 => b = 0)
OBVIOUS

LEMMA ControlStep ==
    ASSUME TypeOK, SenderInv, PathInv, DrainInv, ControlInv, [Next]_vars
    PROVE  ControlInv'
<1>0. /\ sinceRefill \in Nat /\ RefillAt \in Nat \ {0} /\ HowMany \in Nat
      /\ RefillAt > 0 /\ sinceRefill + 1 \in Nat
  BY TransferAssumption, WayNumbers DEF TypeOK
<1>1. CASE SenderGets \/ SenderPumps \/ SenderHearsClose
  BY <1>1, WayMoves, ControlFrame DEF sending, receiving
<1>2. CASE Control
  <2> DEFINE m == Head(spump.queue)
  <2>1. /\ accepted' = (accepted \/ m.kind = "ready")
        /\ control' = IF m.kind = "done" THEN "done" ELSE "on"
        /\ UNCHANGED <<receiver, sinceRefill>>
    BY <1>2 DEF Control, receiving
  <2>2. /\ OnTheWay = {m} \cup OnTheWay' /\ HowMany = HowMany' + 1 /\ HowMany' \in Nat
    BY <1>2, WayHandled
  <2>3. CASE ~accepted
    <3>1. HowMany <= 1 /\ (receiver = "choosing" => HowMany = 0)
      BY <2>3 DEF ControlInv
    <3>2. HowMany' = 0 /\ receiver # "choosing"
      <4>1. HowMany = HowMany' + 1 /\ HowMany' \in Nat /\ HowMany \in Nat
        BY <1>0, <2>2
      <4>2. HowMany <= 1
        BY <3>1
      <4>3. HowMany' = 0 /\ HowMany # 0
        BY <4>1, <4>2, LastOne
      <4> QED BY <3>1, <4>3
    <3>3. OnTheWay' = {}
      BY <1>2, <3>2, WayHandled
    <3>4. m = Ready
      BY <2>2, <2>3 DEF ControlInv
    <3>5. m.kind = "ready"
      BY <3>4 DEF Ready
    <3>6. accepted' /\ control' # "done"
      BY <2>1, <3>5
    <3> QED BY <2>1, <3>2, <3>3, <3>6 DEF ControlInv
  <2>4. CASE accepted
    <3>1. accepted' /\ OnTheWay' \subseteq OnTheWay
      BY <2>1, <2>2, <2>4
    <3>2. control' = "done" => m = Done
      BY <2>1, <2>2, <2>4 DEF ControlInv, Credit
    <3> QED BY <2>1, <2>2, <2>4, <3>1, <3>2 DEF ControlInv
  <2> QED BY <2>3, <2>4 DEF TypeOK
<1>3. CASE ControlFails
  BY <1>3, WayStays, ControlFrame DEF ControlFails, receiving, wires
<1>4. CASE Choose
  <2>1. /\ receiver = "choosing" /\ receiver' \in {"next", "failed"}
        /\ UNCHANGED <<accepted, control, sinceRefill>>
    BY <1>4 DEF Choose, Reply, ReceiverAt, sending
  <2>2. ~accepted /\ HowMany = 0 /\ OnTheWay = {} /\ control # "done"
    BY <2>1, WayNumbers DEF ControlInv
  <2>3. OnTheWay' \subseteq {Ready} /\ HowMany' <= 1
    BY <1>4, <2>2, Answered, MessageTypes
  <2>4. Done \notin OnTheWay'
    BY <2>3, MessageTypes
  <2> QED BY <2>1, <2>2, <2>3, <2>4 DEF ControlInv
<1>5. CASE Refill
  <2>1. /\ receiver = "pushed" /\ receiver' \in {"next", "failed"}
        /\ sinceRefill + 1 >= RefillAt /\ sinceRefill' = 0
        /\ UNCHANGED <<accepted, control>>
    BY <1>5 DEF Refill, RefillDue, Reset, Reply, ReceiverAt, sending
  <2>2. accepted /\ control # "done" /\ Done \notin OnTheWay
    BY <2>1, Unaccepted DEF ControlInv
  <2>3. sinceRefill + 1 = RefillAt
    BY <1>0, <2>1 DEF ControlInv
  <2>4. OnTheWay' \subseteq OnTheWay \cup {Credit(RefillAt)}
    BY <1>0, <1>5, <2>3, Answered, MessageTypes
  <2>5. Done \notin OnTheWay' /\ OnTheWay' \subseteq {Credit(RefillAt), Done}
    BY <1>0, <2>2, <2>4, MessageTypes DEF ControlInv
  <2> QED BY <1>0, <2>1, <2>2, <2>5 DEF ControlInv
<1>6. CASE CloseSink
  <2>1. /\ receiver = "closing" /\ receiver' \in {"ok", "failed"}
        /\ UNCHANGED <<accepted, control, sinceRefill>>
    BY <1>6 DEF CloseSink, Reply, ReceiverAt, sending
  <2>2. accepted /\ control # "done" /\ Done \notin OnTheWay
    BY <2>1, Unaccepted DEF ControlInv
  <2>3. OnTheWay' \subseteq OnTheWay \cup {Done}
    BY <1>6, Answered, MessageTypes
  <2>4. receiver' = "failed" => Done \notin OnTheWay'
    <3>1. receiver' = "failed" => UNCHANGED <<spump, toSender>>
      BY <1>6 DEF CloseSink, Reply, ReceiverAt
    <3> QED BY <2>2, <3>1, WayStays
  <2> QED BY <2>1, <2>2, <2>3, <2>4 DEF ControlInv
<1>7. CASE Count
  <2>1. /\ receiver = "pushed" /\ receiver' = "next" /\ sinceRefill' = sinceRefill + 1
        /\ ~(sinceRefill + 1 >= RefillAt) /\ UNCHANGED <<accepted, control>>
        /\ UNCHANGED <<spump, toSender>>
    BY <1>7 DEF Count, RefillDue, ReceiverAt, sending
  <2>2. accepted
    BY <2>1, Unaccepted
  <2>3. sinceRefill' < RefillAt
    BY <1>0, <2>1
  <2> QED BY <2>1, <2>2, <2>3, WayStays DEF ControlInv
<1>8. CASE Receive
  BY <1>8, WayStays, ControlFrame DEF Receive, sending, wires
<1>9. CASE ReceiverMove
  <2>1. receiver # "ok" /\ receiver' # "choosing"
    BY <1>9 DEF ReceiverMove, ReceiveFails, ReceiverCancels, Pulled, LastChunk, Flushed,
                DrainThrows, CloseSinkFails, ReceiverGoes, ReceiverAt
  <2> QED BY <1>9, <2>1, ReceiverMoved, WayStays, ControlFrame DEF sending, wires
<1>10. CASE SenderMove
  BY <1>10, SenderMoved, WayStays, ControlFrame DEF receiving, wires
<1>11. CASE \/ ReceiverGets \/ Discarded \/ ReceiverHearsClose \/ Drop \/ ReceiverPumps
            \/ Take \/ Send \/ SendResumes
            \/ Pull \/ WriteChunk \/ WriteFails \/ DrainEnds \/ UNCHANGED vars
  <2>1. UNCHANGED <<accepted, control, spump, toSender, receiver, sinceRefill>>
    BY <1>11 DEF ReceiverGets, Discarded, ReceiverHearsClose, Drop, ReceiverPumps, Take, Send,
                 SendResumes, Put, SenderAt, Pull, WriteChunk, WriteFails, DrainEnds, vars,
                 sending, receiving, wires
  <2> QED BY <2>1, WayStays, ControlFrame
<1> QED BY <1>1, <1>2, <1>3, <1>4, <1>5, <1>6, <1>7, <1>8, <1>9, <1>10, <1>11, Steps
           DEF SenderMove, ReceiverMove

----------------------------------------------------------------------------
(* Credits *)

LEMMA Multiplied == \A r, h \in Nat : r * h \in Nat /\ r * (h + 1) = r * h + r /\ r * 0 = 0
OBVIOUS

LEMMA DueNumbers ==
    ASSUME TypeOK, HowMany' \in Nat
    PROVE  /\ Due \in Nat /\ Due' \in Nat
           /\ HowMany' = HowMany => Due' = Due
           /\ HowMany' = HowMany + 1 => Due' = Due + RefillAt
           /\ HowMany = HowMany' + 1 => Due = Due' + RefillAt
           /\ HowMany' = 0 => Due' = 0
<1>1. HowMany \in Nat /\ RefillAt \in Nat /\ HowMany' \in Nat
  BY WayNumbers, TransferAssumption
<1>2. Due = RefillAt * HowMany
  BY DEF Due
<1>3. Due' = RefillAt * HowMany'
  BY DEF Due
<1>4. Due \in Nat /\ Due' \in Nat
  BY <1>1, <1>2, <1>3, Multiplied, Zenon
<1>5. HowMany' = HowMany => Due' = Due
  BY <1>2, <1>3, Zenon
<1>6. HowMany' = HowMany + 1 => Due' = Due + RefillAt
  BY <1>1, <1>2, <1>3, Multiplied, Zenon
<1>7. HowMany = HowMany' + 1 => Due = Due' + RefillAt
  BY <1>1, <1>2, <1>3, Multiplied, Zenon
<1>8. HowMany' = 0 => Due' = 0
  BY <1>1, <1>3, Multiplied, Zenon
<1> QED BY <1>4, <1>5, <1>6, <1>7, <1>8

LEMMA CreditNumbers ==
    ASSUME TypeOK
    PROVE  /\ Spent \in Nat /\ Due \in Nat /\ sinceRefill \in Nat /\ Counted \in Int
           /\ Claimed \in Int /\ Granted \in Int
           /\ got \in Nat /\ credits \in Nat /\ sent \in Nat
           /\ Window \in Nat \ {0} /\ RefillAt \in Nat \ {0} /\ Chunks \in Nat \ {0}
<1>1. /\ sent \in Nat /\ credits \in Nat /\ got \in Nat /\ sinceRefill \in Nat
      /\ Window \in Nat \ {0} /\ RefillAt \in Nat \ {0} /\ Chunks \in Nat \ {0}
  BY TransferAssumption DEF TypeOK
<1>2. Spent \in Nat
  BY <1>1 DEF Spent
<1>3. Counted \in Int
  BY <1>1 DEF Counted
<1>4. Due \in Nat
  BY <1>1, WayNumbers, Multiplied DEF Due
<1>5. Claimed \in Int
  BY <1>1, <1>2, <1>4 DEF Claimed
<1>6. Granted \in Int
  BY <1>1, <1>3 DEF Granted
<1> QED BY <1>1, <1>2, <1>3, <1>4, <1>5, <1>6

\* A step that claims no more than it grants.
LEMMA CreditFrame ==
    ASSUME TypeOK, CreditInv,
           accepted' /\ receiver' # "ok" => accepted /\ receiver # "ok",
           \/ Claimed' = Claimed /\ Granted' = Granted
           \/ Claimed' = Claimed /\ Granted' = Granted + 1
           \/ Claimed' = Claimed - 1 /\ Granted' = Granted
           \/ Claimed' = Claimed + 1 /\ Granted' = Granted + 1
           \/ Claimed' = Claimed + 1 - RefillAt /\ Granted' = Granted + 1
    PROVE  CreditInv'
<1>1. Claimed \in Int /\ Granted \in Int /\ RefillAt \in Nat \ {0}
  BY CreditNumbers
<1>2. CASE accepted' /\ receiver' # "ok"
  <2>1. Claimed <= Granted
    BY <1>2 DEF CreditInv
  <2>2. Claimed' <= Granted'
    BY <1>1, <2>1
  <2> QED BY <2>2 DEF CreditInv
<1> QED BY <1>2 DEF CreditInv

LEMMA ClaimFrame ==
    ASSUME UNCHANGED <<sender, sent, credits, sinceRefill>>, HowMany' = HowMany
    PROVE  Spent' = Spent /\ Due' = Due /\ Claimed' = Claimed
BY DEF Claimed, Spent, Due

LEMMA GrantFrame ==
    ASSUME UNCHANGED <<receiver, got>>
    PROVE  Counted' = Counted /\ Granted' = Granted
BY DEF Granted, Counted

LEMMA CreditStep ==
    ASSUME TypeOK, SenderInv, PathInv, DrainInv, ControlInv, CreditInv, [Next]_vars
    PROVE  CreditInv'
<1>0. /\ sent \in Nat /\ credits \in Nat /\ got \in Nat /\ sinceRefill \in Nat
      /\ Spent \in Nat /\ Due \in Nat /\ Counted \in Int
      /\ Window \in Nat \ {0} /\ RefillAt \in Nat \ {0} /\ HowMany \in Nat
  BY CreditNumbers, WayNumbers
<1>1. CASE SenderGets \/ SenderPumps \/ SenderHearsClose
  <2>1. HowMany' = HowMany /\ UNCHANGED <<sending, receiving>>
    BY <1>1, WayMoves
  <2>2. Claimed' = Claimed /\ Granted' = Granted
    BY <2>1, ClaimFrame, GrantFrame DEF sending, receiving
  <2> QED BY <2>1, <2>2, CreditFrame DEF sending, receiving
<1>2. CASE Control
  <2> DEFINE m == Head(spump.queue)
  <2>1. /\ sender \notin Over /\ credits' = credits + Grants(m)
        /\ accepted' = (accepted \/ m.kind = "ready")
        /\ UNCHANGED <<sender, sent, receiver, got, sinceRefill>>
    BY <1>2 DEF Control, receiving
  <2>2. /\ m \in OnTheWay /\ HowMany = HowMany' + 1 /\ HowMany' \in Nat
    BY <1>2, WayHandled
  <2>3. Due = Due' + RefillAt /\ Due' \in Nat /\ (HowMany' = 0 => Due' = 0)
    BY <2>2, DueNumbers
  <2>4. Granted' = Granted
    BY <2>1, GrantFrame
  <2>5. CASE ~accepted
    <3>1. /\ sent = 0 /\ got = 0 /\ credits = 0 /\ sinceRefill = 0
          /\ receiver \notin {"pushing", "pushed"} /\ sender = "ready"
          /\ HowMany <= 1 /\ m = Ready
      BY <2>1, <2>2, <2>5, Unaccepted DEF SenderInv, ControlInv, Over
    <3>2. HowMany' = 0
      <4>1. HowMany <= 1
        BY <3>1
      <4> QED BY <1>0, <2>2, <4>1, LastOne
    <3>3. Due' = 0
      BY <2>3, <3>2
    <3>4. credits' = Window
      BY <1>0, <2>1, <3>1, MessageTypes
    <3>5. Spent' = Window
      BY <1>0, <2>1, <3>1, <3>4 DEF Spent
    <3>6. Claimed' = Window
      BY <1>0, <2>1, <3>1, <3>3, <3>5 DEF Claimed
    <3>7. Granted' = Window
      BY <1>0, <2>4, <3>1 DEF Granted, Counted
    <3> QED BY <1>0, <3>6, <3>7 DEF CreditInv
  <2>6. CASE accepted
    <3>1. CASE receiver # "ok"
      <4>1. m = Credit(RefillAt)
        BY <2>2, <2>6, <3>1 DEF ControlInv
      <4>2. credits' = credits + RefillAt
        BY <1>0, <2>1, <4>1, MessageTypes
      <4>3. Spent' = Spent + RefillAt
        BY <1>0, <2>1, <4>2 DEF Spent
      <4>4. Claimed' = Claimed
        BY <1>0, <2>1, <2>3, <4>3 DEF Claimed
      <4> QED BY <2>1, <2>4, <2>6, <4>4, CreditFrame
    <3>2. CASE receiver = "ok"
      BY <2>1, <3>2 DEF CreditInv
    <3> QED BY <3>1, <3>2
  <2> QED BY <2>5, <2>6 DEF TypeOK
<1>3. CASE Take
  <2>1. /\ sender = "gate" /\ sender' = "send" /\ credits' = credits - 1
        /\ UNCHANGED <<sent, accepted, spump, toSender, receiver, got, sinceRefill>>
    BY <1>3 DEF Take, wires, receiving
  <2>2. Spent' = Spent
    BY <1>0, <2>1 DEF Spent
  <2>3. Claimed' = Claimed
    BY <2>1, <2>2, WayStays DEF Claimed, Due
  <2> QED BY <2>1, <2>3, GrantFrame, CreditFrame
<1>4. CASE Send \/ SendResumes
  <2>1. /\ sender \in {"send", "blocked"} /\ sender' = "top" /\ sent' = sent + 1
        /\ UNCHANGED <<credits, accepted, spump, toSender, receiver, got, sinceRefill>>
    BY <1>4 DEF Send, SendResumes, Put, SenderAt, receiving
  <2>2. Spent' = Spent
    BY <1>0, <2>1 DEF Spent
  <2>3. Claimed' = Claimed
    BY <2>1, <2>2, WayStays DEF Claimed, Due
  <2> QED BY <2>1, <2>3, GrantFrame, CreditFrame
<1>5. CASE SenderMove
  <2>1. UNCHANGED <<sent, credits, accepted, spump, toSender, receiver, got, sinceRefill>>
    BY <1>5, SenderMoved DEF wires, receiving
  <2>2. sender' \in {"send", "blocked"} => sender \in {"send", "blocked"}
    BY <1>5 DEF SenderMove, Started, NeverStarted, NextChunk, SenderCancels, TakeFails,
                SendWaits, SendFails, SendBreaks, SendStalls, Confirmed, Unconfirmed,
                SenderGoes, SenderAt
  <2>3. Due' = Due /\ Granted' = Granted
    BY <2>1, WayStays, GrantFrame DEF Due
  <2>4. Spent' = Spent \/ Spent' = Spent - 1
    BY <1>0, <2>1, <2>2 DEF Spent
  <2>5. Claimed' = Claimed \/ Claimed' = Claimed - 1
    BY <1>0, <2>1, <2>3, <2>4 DEF Claimed
  <2> QED BY <2>1, <2>3, <2>5, CreditFrame
<1>6. CASE Choose
  BY <1>6 DEF Choose, Reply, ReceiverAt, sending, ControlInv, CreditInv
<1>7. CASE Refill
  <2>1. /\ receiver = "pushed" /\ receiver' \in {"next", "failed"}
        /\ sinceRefill + 1 >= RefillAt /\ sinceRefill' = 0
        /\ UNCHANGED <<sender, sent, credits, accepted, got>>
    BY <1>7 DEF Refill, RefillDue, Reset, Reply, ReceiverAt, sending
  <2>2. sinceRefill + 1 = RefillAt
    BY <1>0, <2>1 DEF ControlInv
  <2>3. HowMany' = HowMany \/ HowMany' = HowMany + 1
    BY <1>0, <1>7, <2>2, Answered, MessageTypes
  <2>4. Due' = Due \/ Due' = Due + RefillAt
    BY <1>0, <2>3, DueNumbers
  <2>5. Spent' = Spent /\ Counted' = Counted + 1
    BY <1>0, <2>1 DEF Spent, Counted
  <2>6. Claimed' = Claimed + 1 \/ Claimed' = Claimed + 1 - RefillAt
    BY <1>0, <2>1, <2>2, <2>4, <2>5 DEF Claimed
  <2>7. Granted' = Granted + 1
    BY <1>0, <2>5 DEF Granted
  <2> QED BY <2>1, <2>6, <2>7, CreditFrame
<1>8. CASE Count
  <2>1. /\ receiver = "pushed" /\ receiver' = "next" /\ sinceRefill' = sinceRefill + 1
        /\ UNCHANGED <<sender, sent, credits, accepted, got, spump, toSender>>
    BY <1>8 DEF Count, ReceiverAt, sending
  <2>2. Spent' = Spent /\ Counted' = Counted + 1 /\ Due' = Due
    BY <1>0, <2>1, WayStays DEF Spent, Counted, Due
  <2>3. Claimed' = Claimed + 1
    BY <1>0, <2>1, <2>2 DEF Claimed
  <2>4. Granted' = Granted + 1
    BY <1>0, <2>2 DEF Granted
  <2> QED BY <2>1, <2>3, <2>4, CreditFrame
<1>9. CASE Receive
  <2>1. /\ receiver = "next" /\ receiver' \in {"pushed", "pushing"}
        /\ rpump.queue # <<>> /\ got' = Head(rpump.queue)
        /\ UNCHANGED <<sender, sent, credits, accepted, sinceRefill, spump, toSender>>
    BY <1>9 DEF Receive, sending, wires
  <2>2. rpump.queue \in Seq(1..Chunks) /\ Numbered(rpump.queue, got)
    BY <2>1, PumpFields DEF TypeOK, PathInv, Over
  <2>3. got' = got + 1
    BY <1>0, <2>1, <2>2, NumberedTail
  <2>4. Counted' = Counted
    BY <1>0, <2>1, <2>3 DEF Counted
  <2>5. Claimed' = Claimed /\ Granted' = Granted
    BY <2>1, <2>4, WayStays, ClaimFrame DEF Granted
  <2> QED BY <2>1, <2>5, CreditFrame
<1>10. CASE ReceiverMove
  <2>1. UNCHANGED <<sender, sent, credits, accepted, got, sinceRefill, spump, toSender>>
    BY <1>10, ReceiverMoved DEF sending, wires
  <2>2. /\ receiver # "ok"
        /\ receiver' \in {"pushing", "pushed"} => receiver \in {"pushing", "pushed"}
    BY <1>10 DEF ReceiverMove, ReceiveFails, ReceiverCancels, Pulled, LastChunk, Flushed,
                 DrainThrows, CloseSinkFails, ReceiverGoes, ReceiverAt
  <2>3. Counted' = Counted \/ Counted' = Counted + 1
    BY <1>0, <2>1, <2>2 DEF Counted
  <2>4. Granted' = Granted \/ Granted' = Granted + 1
    BY <1>0, <2>3 DEF Granted
  <2> QED BY <2>1, <2>2, <2>4, WayStays, ClaimFrame, CreditFrame
<1>11. CASE CloseSink
  <2>1. \/ receiver' = "ok"
        \/ /\ receiver = "closing" /\ receiver' = "failed"
           /\ UNCHANGED <<sender, sent, credits, accepted, got, sinceRefill, spump, toSender>>
    BY <1>11 DEF CloseSink, Reply, ReceiverAt, sending
  <2>2. CASE receiver' = "ok"
    BY <2>2 DEF CreditInv
  <2>3. CASE /\ receiver = "closing" /\ receiver' = "failed"
             /\ UNCHANGED <<sender, sent, credits, accepted, got, sinceRefill, spump, toSender>>
    <3>1. Granted' = Granted
      BY <2>3 DEF Granted, Counted
    <3> QED BY <2>3, <3>1, WayStays, ClaimFrame, CreditFrame
  <2> QED BY <2>1, <2>2, <2>3
<1>12. CASE \/ ReceiverGets \/ Discarded \/ ReceiverHearsClose \/ Drop \/ ReceiverPumps
            \/ ControlFails
            \/ Pull \/ WriteChunk \/ WriteFails \/ DrainEnds \/ UNCHANGED vars
  <2>1. UNCHANGED <<sender, sent, credits, accepted, got, sinceRefill, receiver>>
    BY <1>12 DEF ReceiverGets, Discarded, ReceiverHearsClose, Drop, ReceiverPumps, ControlFails,
                 Pull, WriteChunk, WriteFails, DrainEnds, vars, sending, receiving
  <2>2. UNCHANGED <<spump, toSender>>
    BY <1>12 DEF ReceiverGets, Discarded, ReceiverHearsClose, Drop, ReceiverPumps, ControlFails,
                 Pull, WriteChunk, WriteFails, DrainEnds, vars, wires
  <2> QED BY <2>1, <2>2, WayStays, ClaimFrame, GrantFrame, CreditFrame
<1> QED BY <1>1, <1>2, <1>3, <1>4, <1>5, <1>6, <1>7, <1>8, <1>9, <1>10, <1>11, <1>12, Steps
           DEF SenderMove, ReceiverMove

----------------------------------------------------------------------------
(* The last word *)

LEMMA HeardFrame ==
    ASSUME HeardInv, UNCHANGED <<sender, sent, control, spump, toSender, receiver, lost>>
    PROVE  HeardInv'
BY WayStays DEF HeardInv

\* A receiver that is not over has been heard to its last word by nobody.
LEMMA HeardMove ==
    ASSUME HeardInv, receiver \notin Over, UNCHANGED <<sender, sent, control, spump, lost>>,
           lost = {} /\ receiver' = "ok" => Done \in OnTheWay'
    PROVE  HeardInv'
BY DEF HeardInv, Over

LEMMA HeardStep ==
    ASSUME TypeOK, SenderInv, ControlInv, HeardInv, [Next]_vars
    PROVE  HeardInv'
<1>0. /\ spump \in Pump(Message) /\ toSender \in Seq(Message)
      /\ spump.queue \in Seq(Message) /\ spump.chain \in Seq(Message)
  BY PumpFields DEF TypeOK
<1>1. CASE SenderGets
  <2>1. /\ ~spump.closed /\ spump' = Arrived(spump, Head(toSender)) /\ toSender # <<>>
        /\ UNCHANGED <<sending, lost, receiving>>
    BY <1>1 DEF SenderGets
  <2>2. spump'.closed = spump.closed /\ spump'.drained = spump.drained
    BY <1>0, <2>1, Taking, PumpArrived
  <2> QED BY <1>1, <2>1, <2>2, WayMoves DEF HeardInv, sending, receiving
<1>2. CASE SenderPumps
  <2>1. PumpStep(spump, spump') /\ UNCHANGED <<sending, toSender, lost, receiving>>
    BY <1>2 DEF SenderPumps, wires
  <2>2. /\ spump'.closed = spump.closed
        /\ \/ spump.chain # <<>> /\ spump'.drained = spump.drained
           \/ spump.closed /\ spump.chain = <<>> /\ spump'.chain = spump.chain
    BY <1>0, <2>1, PumpSteps
  <2> QED BY <1>2, <2>1, <2>2, WayMoves DEF HeardInv, sending, receiving
<1>3. CASE SenderHearsClose
  <2>1. /\ ~spump.closed /\ spump' = Closed(spump)
        /\ lost = {} => receiver \in Over /\ toSender = <<>>
        /\ UNCHANGED <<sending, toSender, lost, receiving>>
    BY <1>3 DEF SenderHearsClose, Broken, wires
  <2>2. spump'.chain = spump.chain /\ spump'.drained = spump.drained
    BY <1>0, <2>1, PumpClosed
  <2> QED BY <1>3, <2>1, <2>2, WayMoves DEF HeardInv, sending, receiving
<1>4. CASE Control
  <2>1. /\ control = "on" /\ spump.queue # <<>> /\ spump' = Taken(spump)
        /\ control' = IF Head(spump.queue).kind = "done" THEN "done" ELSE "on"
        /\ UNCHANGED <<sender, sent, receiver, toSender, lost>>
    BY <1>4 DEF Control, wires, receiving
  <2>2. /\ spump'.closed = spump.closed /\ spump'.drained = spump.drained
        /\ spump'.chain = spump.chain
    BY <1>0, <2>1, PumpTaken
  <2>3. OnTheWay = {Head(spump.queue)} \cup OnTheWay'
    BY <1>4, WayHandled
  <2>4. Done \in OnTheWay => control' = "done" \/ Done \in OnTheWay'
    BY <2>1, <2>3 DEF Done
  <2> QED BY <2>1, <2>2, <2>4 DEF HeardInv
<1>5. CASE ControlFails
  <2>1. /\ control = "on" /\ spump.queue = <<>> /\ spump.drained /\ control' = "failed"
        /\ UNCHANGED <<sender, sent, spump, receiver, toSender, lost>>
    BY <1>5 DEF ControlFails, Rejects, wires, receiving
  <2>2. ASSUME lost = {}
        PROVE  receiver = "failed"
    <3>1. spump.chain = <<>> /\ toSender = <<>> /\ receiver \in Over
      BY <2>1, <2>2 DEF HeardInv
    <3>2. Len(spump.queue) = 0 /\ Len(spump.chain) = 0 /\ Len(toSender) = 0
      BY <2>1, <3>1
    <3>3. OnTheWay = {}
      BY <1>0, <3>2, NoMessages DEF OnTheWay
    <3> QED BY <2>1, <2>2, <3>1, <3>3 DEF HeardInv, Over
  <2> QED BY <2>1, <2>2, WayStays DEF HeardInv
<1>6. CASE SenderMove
  <2>1. UNCHANGED <<sent, control, spump, toSender, receiver, lost>>
    BY <1>6, SenderMoved DEF wires, receiving
  <2>2. sender' = "failed" => sent < Chunks \/ control = "failed"
    <3>1. 0 < Chunks
      BY TransferAssumption
    <3> QED BY <1>6, <3>1 DEF SenderMove, Started, NeverStarted, NextChunk, SenderCancels,
               TakeFails, SendWaits, SendFails, SendBreaks, SendStalls, Confirmed,
               Unconfirmed, SenderGoes, SenderAt, SenderInv
  <2> QED BY <2>1, <2>2, WayStays DEF HeardInv
<1>7. CASE Take \/ Send \/ SendResumes
  <2>1. /\ sender' \in {"send", "top"}
        /\ UNCHANGED <<control, spump, toSender, receiver, lost>>
    BY <1>7 DEF Take, Send, SendResumes, Put, SenderAt, wires, receiving
  <2> QED BY <2>1, WayStays DEF HeardInv
<1>8. CASE Choose \/ Refill \/ Count \/ Receive \/ ReceiverMove
  <2>1. receiver \notin Over /\ receiver' # "ok"
    BY <1>8 DEF Choose, Refill, Count, Receive, Reply, ReceiverMove, ReceiveFails,
                ReceiverCancels, Pulled, LastChunk, Flushed, DrainThrows, CloseSinkFails,
                ReceiverGoes, ReceiverAt, Over
  <2>2. UNCHANGED <<sender, sent, control, spump, lost>>
    BY <1>8, ReceiverMoved DEF Choose, Refill, Count, Receive, Reply, ReceiverAt, sending,
                               wires
  <2> QED BY <2>1, <2>2, HeardMove
<1>9. CASE CloseSink
  <2>1. receiver = "closing" /\ UNCHANGED <<sender, sent, control, spump, lost>>
    BY <1>9 DEF CloseSink, Reply, ReceiverAt, sending
  <2>2. lost = {} /\ receiver' = "ok" => Done \in OnTheWay'
    BY <1>9, Answered, MessageTypes
  <2> QED BY <2>1, <2>2, HeardMove DEF Over
<1>10. CASE Drop
  <2>1. lost' # {}
    BY <1>10 DEF Drop, Devices
  <2> QED BY <2>1 DEF HeardInv
<1>11. CASE \/ ReceiverGets \/ Discarded \/ ReceiverHearsClose \/ ReceiverPumps
            \/ Pull \/ WriteChunk \/ WriteFails \/ DrainEnds \/ UNCHANGED vars
  <2>1. UNCHANGED <<sender, sent, control, spump, toSender, receiver, lost>>
    BY <1>11 DEF ReceiverGets, Discarded, ReceiverHearsClose, ReceiverPumps, Pull, WriteChunk,
                 WriteFails, DrainEnds, vars, sending, receiving, wires
  <2> QED BY <2>1, HeardFrame
<1> QED BY <1>1, <1>2, <1>3, <1>4, <1>5, <1>6, <1>7, <1>8, <1>9, <1>10, <1>11, Steps
           DEF SenderMove, ReceiverMove

----------------------------------------------------------------------------
(* The theorems *)

LEMMA LiveInit == Init => LiveInv
<1> SUFFICES ASSUME Init PROVE LiveInv
  OBVIOUS
<1>1. TypeOK
  BY TypeInit
<1>2. /\ NewPump.chain = <<>> /\ NewPump.queue = <<>> /\ ~NewPump.closed /\ ~NewPump.drained
      /\ Len(<<>>) = 0 /\ \A n : Numbered(<<>>, n)
  BY DEF NewPump, Numbered
<1>3. Queued = 0 /\ Opening = 0 /\ Travelling = 0 /\ Unhandled = 0 /\ Unopened = 0 /\ Replies = 0
  BY <1>2 DEF Init, Queued, Opening, Travelling, Unhandled, Unopened, Replies
<1>4. Underway = 0 /\ HowMany = 0
  BY <1>3 DEF Underway, HowMany
<1>5. OnTheWay = {}
  BY <1>1, <1>4, WayNumbers
<1>6. SenderInv
  BY DEF Init, SenderInv
<1>7. PathInv
  BY <1>2, <1>4 DEF Init, PathInv
<1>8. DrainInv
  <2>1. Kept = 0
    BY <1>2 DEF Init, Kept
  <2> QED BY <1>2, <2>1 DEF Init, DrainInv, Over
<1>9. ControlInv
  BY <1>4, <1>5, TransferAssumption DEF Init, ControlInv
<1>10. CreditInv
  BY DEF Init, CreditInv
<1>11. HeardInv
  BY <1>2 DEF Init, HeardInv
<1> QED BY <1>1, <1>6, <1>7, <1>8, <1>9, <1>10, <1>11 DEF LiveInv

LEMMA LiveStep == LiveInv /\ [Next]_vars => LiveInv'
BY TypeStep, SenderStep, PathStep, DrainStep, ControlStep, CreditStep, HeardStep DEF LiveInv

\* The invariant holds in every state of every transfer.
LEMMA LiveInvariant == Spec => []LiveInv
BY LiveInit, LiveStep, PTL DEF Spec

\* Every variable keeps its type: the sender never sends past the end of the file
\* and the receiver never counts past a refill (sendChunks, receiveChunks).
THEOREM TransferTypesCorrect == Spec => []TypeOK
<1>1. LiveInv => TypeOK
  BY DEF LiveInv
<1> QED BY <1>1, LiveInvariant, PTL

LEMMA FewInFlight == LiveInv => WindowHolds
<1> SUFFICES ASSUME LiveInv PROVE WindowHolds
  OBVIOUS
<1>1. /\ Queued \in Nat /\ Opening \in Nat /\ Travelling \in Nat /\ Underway \in Nat
  BY PathNumbers DEF LiveInv
<1>2. /\ got \in Nat /\ sent \in Nat /\ credits \in Nat /\ sent <= Chunks
      /\ Spent \in Nat /\ Due \in Nat /\ sinceRefill \in Nat /\ Counted \in Int
      /\ Window \in Nat \ {0} /\ Chunks \in Nat
  BY CreditNumbers DEF LiveInv, TypeOK
<1>3. InFlight = Underway + (IF held = 0 THEN 0 ELSE 1)
  <2>1. InFlight = Travelling + Opening + Queued + (IF held = 0 THEN 0 ELSE 1)
    BY Zenon DEF InFlight, Queued, Opening, Travelling
  <2> QED BY <1>1, <2>1 DEF Underway
<1>4. got + Underway <= sent
  BY DEF LiveInv, PathInv
<1>5. held # 0 => receiver = "pushing" /\ held = got
  BY DEF LiveInv, DrainInv
<1>6. CASE ~accepted
  <2>1. got = 0 /\ sent = 0
    BY <1>6, Unaccepted DEF LiveInv
  <2> QED BY <1>1, <1>2, <1>3, <1>4, <1>5, <2>1 DEF WindowHolds
<1>7. CASE receiver = "ok"
  <2>1. got = Chunks
    BY <1>7 DEF LiveInv, DrainInv
  <2> QED BY <1>1, <1>2, <1>3, <1>4, <1>5, <1>7, <2>1 DEF WindowHolds
<1>8. CASE accepted /\ receiver # "ok"
  <2>1. Spent + Due + sinceRefill <= Window + Counted
    BY <1>8 DEF LiveInv, CreditInv, Claimed, Granted
  <2>2. sent <= Spent
    BY <1>2 DEF Spent
  <2>3. got + Underway <= Window + Counted
    BY <1>1, <1>2, <1>4, <2>1, <2>2
  <2>4. Counted <= got /\ (held # 0 => Counted = got - 1)
    BY <1>2, <1>5 DEF Counted
  <2> QED BY <1>1, <1>2, <1>3, <2>3, <2>4 DEF WindowHolds
<1> QED BY <1>6, <1>7, <1>8 DEF LiveInv, TypeOK

\* Whatever the file, the window and the refill: what is sent and not yet taken by
\* the destination never exceeds the window (CreditGate, CREDIT_REFILL_AT).
THEOREM WindowRespected == Spec => []WindowHolds
BY FewInFlight, LiveInvariant, PTL

LEMMA OkMeansWritten == LiveInv => VerifiedMeansWritten
<1> SUFFICES ASSUME LiveInv PROVE VerifiedMeansWritten
  OBVIOUS
<1>1. sender = "ok" => receiver = "ok"
  BY DEF LiveInv, SenderInv, ControlInv
<1>2. ASSUME receiver = "ok"
      PROVE  written = File
  <2>1. drainer = "done" /\ got = Chunks /\ held = 0 /\ writing = 0 /\ got = Kept
    BY <1>2 DEF LiveInv, DrainInv
  <2>2. written \in Seq(1..Chunks) /\ Len(written) \in Nat
    BY LenProperties DEF LiveInv, TypeOK
  <2>3. Len(written) = Chunks
    BY <2>1, <2>2 DEF Kept
  <2>4. \A i \in 1..Len(written) : written[i] = 0 + i
    BY DEF LiveInv, DrainInv, Numbered
  <2>5. \A i \in 1..Chunks : written[i] = i
    BY <2>3, <2>4, TransferAssumption
  <2>6. written \in [1..Chunks -> 1..Chunks]
    BY <2>2, <2>3, LenProperties
  <2> QED BY <2>5, <2>6 DEF File
<1> QED BY <1>1, <1>2 DEF VerifiedMeansWritten

\* The sender reports success only when the receiver has ended well, and the
\* receiver only when every chunk of the file is in its place (MSG_DONE, await drain).
THEOREM VerifiedIsTrue == Spec => []VerifiedMeansWritten
BY OkMeansWritten, LiveInvariant, PTL

LEMMA OkIsHeard == LiveInv => ConfirmationHeard
<1> SUFFICES ASSUME LiveInv, receiver = "ok", lost = {} PROVE sender # "failed"
  BY DEF ConfirmationHeard
<1>1. got \in Nat /\ sent \in Nat /\ Chunks \in Nat /\ Underway \in Nat
  BY CreditNumbers, PathNumbers DEF LiveInv
<1>2. got = Chunks /\ got + Underway <= sent
  BY DEF LiveInv, DrainInv, PathInv
<1>3. ~(sent < Chunks)
  BY <1>1, <1>2
<1> QED BY <1>3 DEF LiveInv, HeardInv

\* Over connections that hold, a receiver that ended well leaves no sender that
\* reports a failure: its close does not overtake its confirmation (MessagePump.fail).
THEOREM ConfirmationIsHeard == Spec => []ConfirmationHeard
BY OkIsHeard, LiveInvariant, PTL

=============================================================================
