---------------------------- MODULE SessionProofs ----------------------------
(***************************************************************************)
(* The safety of setting up a live session, proved for any number of losses: *)
(* module Session.                                                          *)
(***************************************************************************)
EXTENDS Session, SequenceTheorems, TLAPS

----------------------------------------------------------------------------
(* The invariant *)

Decided == {"p2p", "relay"}

Coming(d) == Range(toward[d])

\* What d has been told or will be.
Told(d) == dev[d].heard \cup Coming(d)

\* A link is decided after the direct attempt, and a pump made after the link and
\* the handshake.
OrderInv(v) ==
    /\ v.phase \in {"derive", "peer", "join"} =>
          v.attempt = "idle" /\ v.kex = "off"
    /\ v.attempt \in {"up", "off"} <=> v.link # "none"
    /\ v.phase \in {"sealing", "attach", "header", "meta", "transfer"} => v.pump # "none"
    /\ v.pump # "none" => v.kex = "done" /\ v.link \in Decided

\* What a device is told of the other is so.
ToldInv(d) ==
    LET o == dev[Other(d)] IN
    /\ "link-direct" \in Told(d) => o.attempt = "up"
    /\ "link-none" \in Told(d) => o.attempt = "off"
    /\ "receiver-attached" \in Told(d) => o.pump # "none"
    /\ faults = 0 /\ "peer-left" \in Coming(d) => o.phase = "failed"

\* While nothing is lost, the room closes when a device fails.
RoomInv ==
    faults = 0 =>
        /\ \A d \in Devices :
              /\ dev[d].phase \notin {"failed", "join"} => dev[d].online
              /\ dev[d].phase = "failed" => room = "closed"
        /\ room = "closed" => \E d \in Devices : dev[d].phase = "failed"

\* The direct link is used after two successes; the relay after a failure, by a
\* device that was left, or by one that has left.
DecidedInv(d) ==
    LET v == dev[d]  o == dev[Other(d)] IN
    /\ v.link = "p2p" => v.attempt = "up" /\ o.attempt = "up"
    /\ Whole /\ v.link = "relay" =>
          \/ v.attempt = "off" \/ o.attempt = "off" \/ o.phase = "failed"
          \/ v.phase = "failed" /\ v.pump = "none"

\* It took a message, or sent the first one.
Taking(v) == v.inbox # <<>> \/ v.phase \in {"meta", "transfer"}

\* A frame was sent by a device that passed the handshake, over its own link, and
\* if nothing was lost or late the receiver listens there.
FrameOn(kind) ==
    /\ dev["sender"].kex = "done" /\ dev["sender"].link = kind
    /\ Whole => dev["receiver"].link = kind /\ dev["receiver"].pump # "none"

FramesInv ==
    /\ dev["sender"].kex = "done" => match
    /\ Frames \cap Coming("receiver") # {} => FrameOn("relay")
    /\ pipe # <<>> => FrameOn("p2p")
    /\ Taking(dev["sender"]) => dev["receiver"].pump # "none"
    /\ Taking(dev["receiver"]) =>
          /\ dev["sender"].kex = "done"
          /\ dev["sender"].link = dev["receiver"].link
          /\ dev["receiver"].pump # "none"
    /\ Whole => dropped = {}

SetupInv ==
    /\ TypeOK
    /\ \A d \in Devices : OrderInv(dev[d]) /\ ToldInv(d) /\ DecidedInv(d)
    /\ RoomInv
    /\ FramesInv

----------------------------------------------------------------------------
(* Sequences of messages *)

LEMMA RangeTaken ==
    ASSUME NEW S, NEW s \in Seq(S), s # <<>>
    PROVE  /\ Head(s) \in Range(s) /\ Head(s) \in S
           /\ Tail(s) \in Seq(S) /\ Range(Tail(s)) \subseteq Range(s)
<1>1. /\ Head(s) \in S /\ Tail(s) \in Seq(S)
      /\ Len(Tail(s)) = Len(s) - 1
      /\ \A i \in 1..Len(Tail(s)) : Tail(s)[i] = s[i + 1]
  BY HeadTailProperties
<1>2. Len(s) \in Nat \ {0}
  BY EmptySeq
<1>3. /\ Range(s) = {s[i] : i \in 1..Len(s)}
      /\ Range(Tail(s)) = {Tail(s)[i] : i \in 1..Len(Tail(s))}
  BY <1>1, RangeEquality
<1>4. Head(s) = s[1] /\ 1 \in 1..Len(s)
  BY <1>2
<1>5. \A i \in 1..Len(Tail(s)) : i + 1 \in 1..Len(s)
  BY <1>1, <1>2
<1> QED BY <1>1, <1>3, <1>4, <1>5

LEMMA RangeAppended ==
    ASSUME NEW S, NEW s \in Seq(S), NEW e \in S
    PROVE  Append(s, e) \in Seq(S) /\ Range(Append(s, e)) = Range(s) \cup {e}
<1>1. /\ Append(s, e) \in Seq(S)
      /\ Len(Append(s, e)) = Len(s) + 1 /\ Len(s) \in Nat
      /\ \A i \in 1..Len(s) : Append(s, e)[i] = s[i]
      /\ Append(s, e)[Len(s) + 1] = e
  BY AppendProperties, LenProperties
<1>2. 1..(Len(s) + 1) = 1..Len(s) \cup {Len(s) + 1}
  BY <1>1
<1>3. /\ Range(s) = {s[i] : i \in 1..Len(s)}
      /\ Range(Append(s, e)) = {Append(s, e)[i] : i \in 1..(Len(s) + 1)}
  BY <1>1, RangeEquality
<1> QED BY <1>1, <1>2, <1>3

LEMMA RangeJoined ==
    ASSUME NEW S, NEW s \in Seq(S), NEW t \in Seq(S)
    PROVE  s \o t \in Seq(S) /\ Range(s \o t) = Range(s) \cup Range(t)
<1>1. s \o t \in Seq(S)
  BY ConcatProperties
<1>2. Range(s \o t) = Range(s) \cup Range(t)
  BY RangeConcatenation
<1> QED BY <1>1, <1>2

LEMMA RangeCut ==
    ASSUME NEW S, NEW s \in Seq(S), NEW n \in 0..Len(s)
    PROVE  SubSeq(s, 1, n) \in Seq(S) /\ Range(SubSeq(s, 1, n)) \subseteq Range(s)
<1>0. Len(s) \in Nat /\ n \in Int /\ n \in Nat /\ (\A i \in 1..n : i \in 1..Len(s))
      /\ (\A i \in 1..Len(s) : s[i] \in S)
  BY LenProperties
<1>1. /\ SubSeq(s, 1, n) \in Seq(S)
      /\ Len(SubSeq(s, 1, n)) = IF 1 <= n THEN n - 1 + 1 ELSE 0
      /\ \A i \in 1..n - 1 + 1 : SubSeq(s, 1, n)[i] = s[1 + i - 1]
  BY <1>0, SubSeqProperties
<1>2. /\ Len(SubSeq(s, 1, n)) = n
      /\ \A i \in 1..n : SubSeq(s, 1, n)[i] = s[i]
  BY <1>0, <1>1
<1>3. /\ Range(s) = {s[i] : i \in 1..Len(s)}
      /\ Range(SubSeq(s, 1, n)) = {SubSeq(s, 1, n)[i] : i \in 1..Len(SubSeq(s, 1, n))}
  BY <1>1, RangeEquality
<1> QED BY <1>0, <1>1, <1>2, <1>3

LEMMA RangeNone == Range(<<>>) = {}
<1>1. Range(<<>>) = {<<>>[i] : i \in 1..Len(<<>>)}
  BY EmptySeq, RangeEquality, <<>> \in Seq({})
<1> QED BY <1>1

LEMMA RangeOne ==
    ASSUME NEW S, NEW e \in S
    PROVE  <<e>> \in Seq(S) /\ Range(<<e>>) = {e}
<1>1. /\ <<e>> \in Seq(S) /\ Len(<<e>>) = 1 /\ <<e>>[1] = e
  OBVIOUS
<1>2. Range(<<e>>) = {<<e>>[i] : i \in 1..1}
  BY <1>1, RangeEquality
<1>3. 1..1 = {1}
  OBVIOUS
<1> QED BY <1>1, <1>2, <1>3

\* A device keeps its type when a field is given a value of its own.
LEMMA Updates ==
    ASSUME NEW u \in Device
    PROVE  /\ \A x \in {"derive", "peer", "join", "both", "sealing", "attach", "header",
                         "meta", "transfer", "failed"} : [u EXCEPT !.phase = x] \in Device
           /\ \A x \in {"off", "response", "hello", "derive", "confirm", "done"} : [u EXCEPT !.kex = x] \in Device
           /\ \A x \in {"idle", "trying", "stats", "up", "off"} : [u EXCEPT !.attempt = x] \in Device
           /\ \A x \in BOOLEAN : [u EXCEPT !.local = x] \in Device
           /\ \A x \in {"none", "setting", "set"} : [u EXCEPT !.remote = x] \in Device
           /\ \A x \in {"none", "pending", "added"} : [u EXCEPT !.candidate = x] \in Device
           /\ \A x \in {"none", "open", "closed"} : [u EXCEPT !.dc = x] \in Device
           /\ \A x \in {"none", "waiting", "p2p", "relay"} : [u EXCEPT !.link = x] \in Device
           /\ \A x \in BOOLEAN : [u EXCEPT !.shut = x] \in Device
           /\ \A x \in BOOLEAN : [u EXCEPT !.online = x] \in Device
           /\ \A x \in BOOLEAN : [u EXCEPT !.joined = x] \in Device
           /\ \A x \in SUBSET Signals : [u EXCEPT !.heard = x] \in Device
           /\ \A x \in {"none", "on", "failed"} : [u EXCEPT !.pump = x] \in Device
           /\ \A x \in Seq(Frames) : [u EXCEPT !.inbox = x] \in Device
           /\ \A x \in Nat : [u EXCEPT !.opened = x] \in Device
           /\ \A x \in {"none", "auth", "gone", "late", "broken", "cancelled", "refused"} : [u EXCEPT !.reason = x] \in Device
<1>1. \A x \in {"derive", "peer", "join", "both", "sealing", "attach", "header",
              "meta", "transfer", "failed"} : [u EXCEPT !.phase = x] \in Device
  BY DEF Device
<1>2. \A x \in {"off", "response", "hello", "derive", "confirm", "done"} : [u EXCEPT !.kex = x] \in Device
  BY DEF Device
<1>3. \A x \in {"idle", "trying", "stats", "up", "off"} : [u EXCEPT !.attempt = x] \in Device
  BY DEF Device
<1>4. \A x \in BOOLEAN : [u EXCEPT !.local = x] \in Device
  BY DEF Device
<1>5. \A x \in {"none", "setting", "set"} : [u EXCEPT !.remote = x] \in Device
  BY DEF Device
<1>6. \A x \in {"none", "pending", "added"} : [u EXCEPT !.candidate = x] \in Device
  BY DEF Device
<1>7. \A x \in {"none", "open", "closed"} : [u EXCEPT !.dc = x] \in Device
  BY DEF Device
<1>8. \A x \in {"none", "waiting", "p2p", "relay"} : [u EXCEPT !.link = x] \in Device
  BY DEF Device
<1>9. \A x \in BOOLEAN : [u EXCEPT !.shut = x] \in Device
  BY DEF Device
<1>10. \A x \in BOOLEAN : [u EXCEPT !.online = x] \in Device
  BY DEF Device
<1>11. \A x \in BOOLEAN : [u EXCEPT !.joined = x] \in Device
  BY DEF Device
<1>12. \A x \in SUBSET Signals : [u EXCEPT !.heard = x] \in Device
  BY DEF Device
<1>13. \A x \in {"none", "on", "failed"} : [u EXCEPT !.pump = x] \in Device
  BY DEF Device
<1>14. \A x \in Seq(Frames) : [u EXCEPT !.inbox = x] \in Device
  BY DEF Device
<1>15. \A x \in Nat : [u EXCEPT !.opened = x] \in Device
  BY DEF Device
<1>16. \A x \in {"none", "auth", "gone", "late", "broken", "cancelled", "refused"} : [u EXCEPT !.reason = x] \in Device
  BY DEF Device
<1> QED BY <1>1, <1>2, <1>3, <1>4, <1>5, <1>6, <1>7, <1>8, <1>9, <1>10, <1>11, <1>12, <1>13, <1>14, <1>15, <1>16

LEMMA Others ==
    /\ Other("sender") = "receiver" /\ Other("receiver") = "sender"
    /\ \A d \in Devices : /\ Other(d) \in Devices /\ Other(d) # d /\ Other(Other(d)) = d
                          /\ \A e \in Devices : e = d \/ e = Other(d)
BY DEF Other, Devices

----------------------------------------------------------------------------
(* The shape of a step *)

\* What a device does not take back.
Grows(u, v) ==
    /\ u.attempt \in {"up", "off"} => v.attempt = u.attempt
    /\ u.link \in Decided => v.link = u.link
    /\ u.pump # "none" => v.pump # "none"
    /\ u.kex = "done" => v.kex = "done"
    /\ u.phase = "failed" => v.phase = "failed" /\ (u.pump = "none" => v.pump = "none")

\* A step of one device, and what it says to the other one.
Step(d, ms) ==
    LET o == Other(d) IN
    /\ dev'[o] = dev[o]
    /\ Grows(dev[d], dev'[d])
    /\ Told(d)' \subseteq Told(d) \cup {"peer-left"}
    /\ Told(o)' \subseteq Told(o) \cup Range(ms) \cup {"peer-left"}
    /\ Coming(d)' \subseteq Coming(d) \cup {"peer-left"}
    /\ Coming(o)' \subseteq Coming(o) \cup Range(ms) \cup {"peer-left"}
    /\ faults' = 0 =>
          /\ faults = 0
          /\ "peer-left" \in Coming(d)' => "peer-left" \in Coming(d)
          /\ "peer-left" \in Coming(o)' => "peer-left" \in Coming(o) \/ dev'[d].phase = "failed"
    /\ Whole' => Whole
    /\ match' = match

\* w is v, whatever became of its socket and its link.
Same(w, v) ==
    /\ w.phase = v.phase /\ w.kex = v.kex /\ w.attempt = v.attempt /\ w.link = v.link
    /\ w.heard = v.heard /\ w.pump = v.pump /\ w.inbox = v.inbox /\ w.reason = v.reason

\* How a step of d leaves the room.
Rooms(d) ==
    /\ room' = room \/ (room' = "closed" /\ (faults' = 0 => dev'[d].phase = "failed"))
    /\ faults' = 0 /\ dev'[d].phase = "failed" => room' = "closed"
    /\ faults' = 0 /\ dev'[d].phase \notin {"failed", "join"} => dev'[d].online

LEMMA Posted ==
    ASSUME TypeOK, NEW d \in Devices, NEW ms \in Seq(Events)
    PROVE  /\ Posts(d, ms) \in [Devices -> Seq(Events)]
           /\ Posts(d, ms)[d] = toward[d]
           /\ Range(Posts(d, ms)[Other(d)]) \subseteq Coming(Other(d)) \cup Range(ms)
           /\ room = "closed" => Posts(d, ms) = toward
<1>1. /\ toward \in [Devices -> Seq(Events)] /\ Other(d) \in Devices /\ Other(d) # d
      /\ toward[Other(d)] \in Seq(Events)
  BY Others DEF TypeOK
<1>2. /\ toward[Other(d)] \o ms \in Seq(Events)
      /\ Range(toward[Other(d)] \o ms) = Coming(Other(d)) \cup Range(ms)
  BY <1>1, ConcatProperties, RangeConcatenation DEF Coming
<1>3. CASE Posts(d, ms) = toward
  BY <1>1, <1>3 DEF Coming
<1>4. CASE room = "open" /\ Posts(d, ms) = [toward EXCEPT ![Other(d)] = @ \o ms]
  BY <1>1, <1>2, <1>4
<1> QED BY <1>3, <1>4 DEF Posts

LEMMA PeerLeft == "peer-left" \in Events /\ <<"peer-left">> \in Seq(Events)
                  /\ Range(<<"peer-left">>) = {"peer-left"}
<1>1. "peer-left" \in Events
  BY DEF Events
<1> QED BY <1>1, RangeOne

LEMMA Leaving ==
    ASSUME TypeOK, NEW d \in Devices, NEW v \in Device, NEW ms \in Seq(Events), Leaves(d, v, ms)
    PROVE  /\ dev' \in [Devices -> Device] /\ toward' \in [Devices -> Seq(Events)]
           /\ dev'[Other(d)] = dev[Other(d)] /\ Same(dev'[d], v)
           /\ Coming(d)' = {}
           /\ Coming(Other(d))' \subseteq Coming(Other(d)) \cup Range(ms) \cup {"peer-left"}
           /\ room' = IF dev[d].online THEN "closed" ELSE room
<1>1. dev \in [Devices -> Device] /\ Other(d) \in Devices /\ Other(d) # d
  BY Others DEF TypeOK
<1>2. PICK b \in BOOLEAN, c \in {"none", "open", "closed"} :
         dev' = [dev EXCEPT ![d] = [v EXCEPT !.online = FALSE, !.shut = b, !.dc = c]]
  <2>1. v.shut \in BOOLEAN /\ v.dc \in {"none", "open", "closed"}
    BY DEF Device
  <2> QED BY <2>1 DEF Leaves
<1>3. [v EXCEPT !.online = FALSE, !.shut = b, !.dc = c] \in Device
  BY <1>2, Updates
<1>4. dev' \in [Devices -> Device] /\ dev'[Other(d)] = dev[Other(d)]
      /\ dev'[d] = [v EXCEPT !.online = FALSE, !.shut = b, !.dc = c]
  BY <1>1, <1>2, <1>3
<1>5. Same(dev'[d], v)
  BY <1>4 DEF Same, Device
<1> DEFINE end == <<"peer-left">>
           ns == ms \o end
<1>6. ns \in Seq(Events) /\ Range(ns) = Range(ms) \cup {"peer-left"}
  <2>1. end \in Seq(Events) /\ Range(end) = {"peer-left"}
    BY PeerLeft
  <2> HIDE DEF end
  <2> QED BY <2>1, RangeJoined
<1>7. toward' = [Posts(d, ns) EXCEPT ![d] = <<>>]
  BY DEF Leaves
<1> HIDE DEF ns
<1>8. toward' \in [Devices -> Seq(Events)] /\ toward'[d] = <<>>
      /\ toward'[Other(d)] = Posts(d, ns)[Other(d)]
  BY <1>1, <1>6, <1>7, Posted
<1>9. Coming(d)' = {}
  BY <1>8, RangeNone DEF Coming
<1>10. Coming(Other(d))' \subseteq Coming(Other(d)) \cup Range(ns)
  BY <1>6, <1>8, Posted DEF Coming
<1>11. room' = IF dev[d].online THEN "closed" ELSE room
  BY DEF Leaves
<1> QED BY <1>4, <1>5, <1>6, <1>8, <1>9, <1>10, <1>11

LEMMA Becoming ==
    ASSUME TypeOK, RoomInv, NEW d \in Devices, NEW v \in Device, NEW ms \in Seq(Events),
           Becomes(d, v, ms), "peer-left" \notin Range(ms),
           Grows(dev[d], v), v.heard = dev[d].heard, v.online = dev[d].online,
           dev[d].phase = "join" => v.phase = "join",
           faults' = faults, match' = match, expired => expired'
    PROVE  /\ dev' \in [Devices -> Device] /\ toward' \in [Devices -> Seq(Events)]
           /\ room' \in {"open", "closed"}
           /\ Step(d, ms) /\ Rooms(d) /\ Same(dev'[d], v)
<1>1. dev \in [Devices -> Device] /\ Other(d) \in Devices /\ Other(d) # d
      /\ room \in {"open", "closed"}
  BY Others DEF TypeOK
<1>2. Whole' => Whole
  BY DEF Whole
<1>3. CASE v.phase = "failed" /\ dev[d].phase # "failed"
  <2>1. Leaves(d, v, ms)
    BY <1>3 DEF Becomes
  <2>2. /\ dev' \in [Devices -> Device] /\ toward' \in [Devices -> Seq(Events)]
        /\ dev'[Other(d)] = dev[Other(d)] /\ Same(dev'[d], v)
        /\ Coming(d)' = {}
        /\ Coming(Other(d))' \subseteq Coming(Other(d)) \cup Range(ms) \cup {"peer-left"}
        /\ room' = IF dev[d].online THEN "closed" ELSE room
    BY <2>1, Leaving
  <2>3. Grows(dev[d], dev'[d]) /\ dev'[d].heard = dev[d].heard /\ dev'[d].phase = "failed"
    BY <1>3, <2>2 DEF Grows, Same
  <2>4. /\ Told(d)' \subseteq Told(d)
        /\ Told(Other(d))' \subseteq Told(Other(d)) \cup Range(ms) \cup {"peer-left"}
    BY <2>2, <2>3 DEF Told
  <2>5. Step(d, ms)
    BY <1>2, <2>2, <2>3, <2>4 DEF Step
  <2>6. faults = 0 => dev[d].online
    BY <1>3 DEF RoomInv
  <2>7. Rooms(d)
    BY <2>2, <2>3, <2>6 DEF Rooms
  <2> QED BY <1>1, <2>2, <2>5, <2>7
<1>4. CASE ~(v.phase = "failed" /\ dev[d].phase # "failed")
  <2>1. dev' = [dev EXCEPT ![d] = v] /\ toward' = Posts(d, ms) /\ room' = room
    BY <1>4 DEF Becomes
  <2>2. dev' \in [Devices -> Device] /\ dev'[d] = v /\ dev'[Other(d)] = dev[Other(d)]
    BY <1>1, <2>1
  <2>3. /\ toward' \in [Devices -> Seq(Events)] /\ Coming(d)' = Coming(d)
        /\ Coming(Other(d))' \subseteq Coming(Other(d)) \cup Range(ms)
    BY <2>1, Posted DEF Coming
  <2>4. /\ Told(d)' \subseteq Told(d)
        /\ Told(Other(d))' \subseteq Told(Other(d)) \cup Range(ms)
    BY <2>2, <2>3 DEF Told
  <2>5. Step(d, ms)
    BY <1>2, <2>2, <2>3, <2>4 DEF Step
  <2>6. Rooms(d)
    <3>1. faults' = 0 /\ dev'[d].phase = "failed" => room' = "closed"
      BY <1>4, <2>1, <2>2 DEF RoomInv
    <3>2. faults' = 0 /\ dev'[d].phase \notin {"failed", "join"} => dev'[d].online
      <4>1. dev'[d].phase \notin {"failed", "join"} => dev[d].phase \notin {"failed", "join"}
        BY <2>2 DEF Grows
      <4>2. dev[d].online = TRUE => dev'[d].online = TRUE
        BY <2>2
      <4>3. faults = 0 /\ dev[d].phase \notin {"failed", "join"} => dev[d].online
        BY DEF RoomInv
      <4> QED BY <4>1, <4>2, <4>3
    <3> QED BY <2>1, <3>1, <3>2, Zenon DEF Rooms
  <2> QED BY <1>1, <2>1, <2>2, <2>3, <2>5, <2>6 DEF Same
<1> QED BY <1>3, <1>4

----------------------------------------------------------------------------
(* What every step of this shape keeps *)

\* What v says is so.
Says(v, ms) ==
    /\ "link-direct" \in Range(ms) => v.attempt = "up"
    /\ "link-none" \in Range(ms) => v.attempt = "off"
    /\ "receiver-attached" \in Range(ms) => v.pump # "none"

LEMMA RoomKept ==
    ASSUME RoomInv, NEW d \in Devices, NEW ms, Step(d, ms), Rooms(d)
    PROVE  RoomInv'
<1>1. ASSUME faults' = 0
      PROVE  /\ \A e \in Devices : /\ dev'[e].phase \notin {"failed", "join"} => dev'[e].online
                                   /\ dev'[e].phase = "failed" => room' = "closed"
             /\ room' = "closed" => \E e \in Devices : dev'[e].phase = "failed"
  <2>1. faults = 0 /\ dev'[Other(d)] = dev[Other(d)] /\ Other(d) \in Devices
        /\ (room' = room \/ room' = "closed")
    BY <1>1, Others DEF Step, Rooms
  <2>2. /\ dev'[d].phase \notin {"failed", "join"} => dev'[d].online
        /\ dev'[d].phase = "failed" => room' = "closed"
    BY <1>1 DEF Rooms
  <2>3. /\ dev'[Other(d)].phase \notin {"failed", "join"} => dev'[Other(d)].online
        /\ dev'[Other(d)].phase = "failed" => room' = "closed"
    BY <2>1 DEF RoomInv
  <2>4. room' = "closed" => \E e \in Devices : dev'[e].phase = "failed"
    <3>1. CASE room = "closed"
      <4>1. PICK e \in Devices : dev[e].phase = "failed"
        BY <2>1, <3>1 DEF RoomInv
      <4>2. dev'[e].phase = "failed"
        BY <2>1, <4>1, Others DEF Step, Grows
      <4> QED BY <4>2
    <3>2. CASE room # "closed" /\ room' = "closed"
      BY <1>1, <3>2 DEF Rooms
    <3> QED BY <3>1, <3>2
  <2>5. \A e \in Devices : e = d \/ e = Other(d)
    BY Others
  <2> QED BY <2>2, <2>3, <2>4, <2>5
<1> QED BY <1>1 DEF RoomInv

LEMMA ToldKept ==
    ASSUME NEW d \in Devices, NEW ms, ToldInv(d), ToldInv(Other(d)),
           Step(d, ms), Says(dev'[d], ms)
    PROVE  \A e \in Devices : ToldInv(e)'
<1>0. Other(d) \in Devices /\ Other(Other(d)) = d
  BY Others
<1>1. ToldInv(d)'
  BY DEF ToldInv, Step
<1>2. ToldInv(Other(d))'
  BY <1>0 DEF ToldInv, Step, Says, Grows
<1> QED BY <1>1, <1>2, Others

LEMMA DecidedOther ==
    ASSUME NEW d \in Devices, NEW ms, DecidedInv(Other(d)), Step(d, ms)
    PROVE  DecidedInv(Other(d))'
<1>0. Other(d) \in Devices /\ Other(Other(d)) = d
  BY Others
<1> QED BY <1>0 DEF DecidedInv, Step, Grows

LEMMA DecidedSame ==
    ASSUME NEW d \in Devices, NEW ms, DecidedInv(d), Step(d, ms),
           dev'[d].link \in Decided => dev[d].link = dev'[d].link
    PROVE  DecidedInv(d)'
BY DEF DecidedInv, Step, Grows, Decided

LEMMA FramesKept ==
    ASSUME FramesInv, NEW d \in Devices, NEW ms, Step(d, ms),
           OrderInv(dev["receiver"]), Frames \cap Range(ms) = {},
           pipe' # <<>> => pipe # <<>>, dropped' = dropped,
           d = "sender" /\ dev'[d].kex = "done" => match,
           Taking(dev'[d]) => Taking(dev[d])
    PROVE  FramesInv'
<1>0. /\ "sender" \in Devices /\ "receiver" \in Devices
      /\ \A e \in Devices : Grows(dev[e], dev'[e]) \/ dev'[e] = dev[e]
      /\ Whole' => Whole
      /\ match' = match
  BY Others DEF Step, Devices
<1>1. \A kind \in Decided : FrameOn(kind) => FrameOn(kind)'
  BY <1>0 DEF FrameOn, Grows, Decided
<1>2. Frames \cap Coming("receiver")' # {} => Frames \cap Coming("receiver") # {}
  BY Others DEF Step, Frames, Devices
<1>3. dev'["sender"].kex = "done" => match'
  BY <1>0, Others DEF FramesInv, Step, Devices
<1>4. \A e \in Devices : Taking(dev'[e]) => Taking(dev[e])
  BY Others DEF Step
<1>5. /\ Taking(dev["sender"]) => dev'["receiver"].pump # "none"
      /\ Taking(dev["receiver"]) =>
           /\ dev'["sender"].kex = "done"
           /\ dev'["sender"].link = dev'["receiver"].link
           /\ dev'["receiver"].pump # "none"
  BY <1>0 DEF FramesInv, OrderInv, Grows
<1>6. "p2p" \in Decided /\ "relay" \in Decided
  BY DEF Decided
<1> QED BY <1>0, <1>1, <1>2, <1>3, <1>4, <1>5, <1>6 DEF FramesInv

\* v is a state d may come to by a step of its own code.
Comes(d, v, ms) ==
    /\ Grows(dev[d], v) /\ OrderInv(v) /\ Says(v, ms)
    /\ v.heard = dev[d].heard /\ v.online = dev[d].online
    /\ dev[d].phase = "join" => v.phase = "join"
    /\ d = "sender" /\ v.kex = "done" => match
    /\ Taking(v) => Taking(dev[d])

LEMMA Combined ==
    ASSUME SetupInv, NEW d \in Devices, NEW ms, TypeOK', Step(d, ms), Rooms(d),
           OrderInv(dev'[d]), Says(dev'[d], ms), DecidedInv(d)', FramesInv'
    PROVE  SetupInv'
<1>1. /\ Other(d) \in Devices /\ dev'[Other(d)] = dev[Other(d)]
      /\ \A e \in Devices : e = d \/ e = Other(d)
  BY Others DEF Step
<1>2. \A e \in Devices : OrderInv(dev[e])'
  BY <1>1 DEF SetupInv
<1>3. \A e \in Devices : ToldInv(e)'
  BY <1>1, ToldKept DEF SetupInv
<1>4. \A e \in Devices : DecidedInv(e)'
  BY <1>1, DecidedOther DEF SetupInv
<1>5. RoomInv'
  BY RoomKept DEF SetupInv
<1> QED BY <1>2, <1>3, <1>4, <1>5 DEF SetupInv

LEMMA Kept ==
    ASSUME SetupInv, NEW d \in Devices, NEW v \in Device, NEW ms \in Seq(Events),
           Becomes(d, v, ms), Comes(d, v, ms),
           Range(ms) \cap (Frames \cup {"peer-left"}) = {},
           UNCHANGED <<pipe, match, faults, dropped>>, expired' \in BOOLEAN,
           expired => expired',
           v.link \in Decided => dev[d].link = v.link \/ DecidedInv(d)'
    PROVE  SetupInv'
<1>1. /\ dev' \in [Devices -> Device] /\ toward' \in [Devices -> Seq(Events)]
      /\ room' \in {"open", "closed"}
      /\ Step(d, ms) /\ Rooms(d) /\ Same(dev'[d], v)
  BY Becoming DEF SetupInv, Comes
<1>2. TypeOK'
  BY <1>1 DEF SetupInv, TypeOK
<1>3. OrderInv(dev'[d]) /\ Says(dev'[d], ms)
  BY <1>1 DEF Comes, Same, OrderInv, Says
<1>4. DecidedInv(d)'
  BY <1>1, DecidedSame DEF SetupInv, Same
<1>5. FramesInv'
  <2>1. OrderInv(dev["receiver"]) /\ FramesInv
    BY DEF SetupInv, Devices
  <2>2. d = "sender" /\ dev'[d].kex = "done" => match
    BY <1>1 DEF Comes, Same
  <2>3. Taking(dev'[d]) => Taking(dev[d])
    BY <1>1 DEF Comes, Same, Taking
  <2> QED BY <1>1, <2>1, <2>2, <2>3, FramesKept
<1> QED BY <1>1, <1>2, <1>3, <1>4, <1>5, Combined

----------------------------------------------------------------------------
(* The device's own code *)

\* Messages that claim nothing.
Plain == {"hello", "response", "confirm", "kex-abort", "sdp", "ice"}

LEMMA Messages ==
    /\ <<>> \in Seq(Events) /\ Range(<<>>) = {}
    /\ \A m \in Events : <<m>> \in Seq(Events) /\ Range(<<m>>) = {m}
    /\ \A m, n \in Events : <<m, n>> \in Seq(Events) /\ Range(<<m, n>>) = {m, n}
    /\ Signals \subseteq Events /\ Frames \subseteq Events
    /\ Plain \subseteq Signals
<1>1. \A m \in Events : <<m>> \in Seq(Events) /\ Range(<<m>>) = {m}
  BY RangeOne
<1>2. ASSUME NEW m \in Events, NEW n \in Events
      PROVE  <<m, n>> \in Seq(Events) /\ Range(<<m, n>>) = {m, n}
  <2>1. /\ <<m, n>> \in Seq(Events) /\ Len(<<m, n>>) = 2
        /\ <<m, n>>[1] = m /\ <<m, n>>[2] = n
    OBVIOUS
  <2>2. Range(<<m, n>>) = {<<m, n>>[i] : i \in 1..2}
    BY <2>1, RangeEquality
  <2>3. 1..2 = {1, 2}
    OBVIOUS
  <2> QED BY <2>1, <2>2, <2>3
<1>3. <<>> \in Seq(Events)
  BY EmptySeq
<1> QED BY <1>1, <1>2, <1>3, RangeNone DEF Events, Plain, Signals

\* What it does without deciding on a link.
LEMMA Goes ==
    ASSUME SetupInv, NEW d \in Devices, NEW v \in Device, NEW ms \in Seq(Events),
           Becomes(d, v, ms), Comes(d, v, ms),
           Range(ms) \subseteq Signals, v.link = dev[d].link \/ v.link = "waiting",
           UNCHANGED <<pipe, match, faults, dropped>>, expired' \in BOOLEAN,
           expired => expired'
    PROVE  SetupInv'
<1>1. Range(ms) \cap (Frames \cup {"peer-left"}) = {}
  BY DEF Signals, Frames
<1>2. v.link \in Decided => dev[d].link = v.link
  BY DEF Decided
<1> QED BY <1>1, <1>2, Kept

LEMMA Expiry ==
    ASSUME TypeOK, NEW d \in Devices
    PROVE  expired \in BOOLEAN
           /\ (expired \/ room = "open" \/ toward[d] # <<>>) \in BOOLEAN
BY DEF TypeOK

\* It fails, and says nothing of its link.
LEMMA Failing ==
    ASSUME SetupInv, NEW d \in Devices, NEW ms \in Seq(Events), Range(ms) \subseteq Plain,
           NEW why \in {"auth", "gone", "late", "broken", "cancelled", "refused"},
           dev[d].phase # "join", Becomes(d, Fail(dev[d], why), ms),
           UNCHANGED <<pipe, match, faults, dropped>>, expired' \in BOOLEAN,
           expired => expired'
    PROVE  SetupInv'
<1> DEFINE u == dev[d]
           v == Fail(u, why)
<1>1. u \in Device /\ OrderInv(u) /\ FramesInv
  BY DEF SetupInv, TypeOK
<1>v. v \in Device
  BY <1>1, Updates DEF Fail
<1>2. /\ v.phase = "failed" /\ v.kex = u.kex /\ v.attempt = u.attempt
      /\ v.link = u.link /\ v.heard = u.heard /\ v.pump = u.pump /\ v.inbox = u.inbox
      /\ v.online = u.online
  BY <1>1 DEF Fail, Device
<1>3. Says(v, ms)
  BY DEF Says, Plain
<1>4. d = "sender" /\ v.kex = "done" => match
  BY <1>1, <1>2 DEF FramesInv
<1>5. Comes(d, v, ms)
  BY <1>1, <1>2, <1>3, <1>4 DEF Comes, Taking, Grows, OrderInv
<1>6. Range(ms) \subseteq Signals
  BY Messages
<1> HIDE DEF v
<1>7. Becomes(d, v, ms)
  BY DEF v
<1> QED BY <1>v, <1>2, <1>5, <1>6, <1>7, Goes

LEMMA OpeningKept ==
    ASSUME SetupInv, Derived \/ PeerHere \/ Cancelled
    PROVE  SetupInv'
<1>0. /\ "sender" \in Devices /\ dev["sender"] \in Device /\ OrderInv(dev["sender"])
      /\ FramesInv
  BY DEF SetupInv, TypeOK, Devices
<1>q. UNCHANGED <<pipe, match, faults, expired, dropped>> /\ expired' \in BOOLEAN
  BY DEF Derived, PeerHere, Cancelled, Quiet, SetupInv, TypeOK
<1>1. CASE Derived
  <2> DEFINE u == dev["sender"]
             v == [u EXCEPT !.phase = "peer"]
  <2>1. u.phase = "derive" /\ Becomes("sender", v, <<>>)
    BY <1>1 DEF Derived
  <2>2. /\ v \in Device /\ v.phase = "peer" /\ v.kex = u.kex /\ v.attempt = u.attempt
        /\ v.link = u.link /\ v.heard = u.heard /\ v.pump = u.pump /\ v.inbox = u.inbox
        /\ v.online = u.online
    BY <1>0 DEF Device
  <2>3. Comes("sender", v, <<>>)
    BY <1>0, <2>1, <2>2, Messages DEF Comes, Taking, Grows, OrderInv, Says, FramesInv
  <2> HIDE DEF v
  <2> QED BY <1>0, <1>q, <2>1, <2>2, <2>3, Messages, Goes
<1>2. CASE PeerHere
  <2> DEFINE u == dev["sender"]
             v == [u EXCEPT !.phase = "both", !.kex = "response", !.attempt = "trying"]
  <2>1. u.phase = "peer" /\ Becomes("sender", v, <<"hello">>)
    BY <1>2 DEF PeerHere
  <2>v. v \in Device
    BY <1>0, Updates
  <2>2. /\ v.phase = "both" /\ v.kex = "response" /\ v.attempt = "trying"
        /\ v.link = u.link /\ v.heard = u.heard /\ v.pump = u.pump /\ v.inbox = u.inbox
        /\ v.online = u.online
    BY <1>0 DEF Device
  <2>3. <<"hello">> \in Seq(Events) /\ Range(<<"hello">>) = {"hello"} /\ "hello" \in Signals
    BY Messages DEF Plain
  <2>4. Comes("sender", v, <<"hello">>)
    BY <1>0, <2>1, <2>2, <2>3 DEF Comes, Taking, Grows, OrderInv, Says, Decided
  <2> HIDE DEF v
  <2> QED BY <1>0, <1>q, <2>v, <2>1, <2>2, <2>3, <2>4, Goes
<1>3. CASE Cancelled
  <2>1. dev["sender"].phase = "peer" /\ Becomes("sender", Fail(dev["sender"], "cancelled"), <<>>)
    BY <1>3 DEF Cancelled
  <2> QED BY <1>0, <1>q, <2>1, Messages, Failing
<1> QED BY <1>1, <1>2, <1>3

LEMMA JoinedKept ==
    ASSUME SetupInv, Joined
    PROVE  SetupInv'
<1> DEFINE u == dev["receiver"]
           v == [u EXCEPT !.phase = "both", !.kex = "hello", !.attempt = "trying",
                          !.online = TRUE]
           ms == <<"peer-joined">>
<1>0. /\ "receiver" \in Devices /\ "sender" \in Devices /\ Other("receiver") = "sender"
      /\ u \in Device /\ OrderInv(u) /\ FramesInv /\ TypeOK
      /\ dev \in [Devices -> Device] /\ toward \in [Devices -> Seq(Events)]
  BY Others DEF SetupInv, TypeOK, Devices
<1>1. /\ u.phase = "join" /\ dev' = [dev EXCEPT !["receiver"] = v]
      /\ toward' = [toward EXCEPT !["sender"] = Append(@, "peer-joined")]
      /\ UNCHANGED <<room, pipe, match, faults, expired, dropped>>
      /\ room = "open"
  BY DEF Joined, Quiet
<1>2. v \in Device
  BY <1>0, Updates
<1>3. /\ v.phase = "both" /\ v.kex = "hello" /\ v.attempt = "trying"
      /\ v.link = u.link /\ v.heard = u.heard /\ v.pump = u.pump /\ v.inbox = u.inbox
      /\ v.online = TRUE
  BY <1>0 DEF Device
<1> HIDE DEF v
<1>4. dev' \in [Devices -> Device] /\ dev'["receiver"] = v /\ dev'["sender"] = dev["sender"]
  BY <1>0, <1>1, <1>2
<1>5. "peer-joined" \in Events /\ Range(ms) = {"peer-joined"}
  BY Messages DEF Events
<1>6. /\ toward' \in [Devices -> Seq(Events)] /\ toward'["receiver"] = toward["receiver"]
      /\ Range(toward'["sender"]) = Range(toward["sender"]) \cup {"peer-joined"}
  <2>1. toward["sender"] \in Seq(Events)
    BY <1>0
  <2>2. /\ Append(toward["sender"], "peer-joined") \in Seq(Events)
        /\ Range(Append(toward["sender"], "peer-joined"))
             = Range(toward["sender"]) \cup {"peer-joined"}
    BY <1>5, <2>1, RangeAppended
  <2>3. /\ toward'["sender"] = Append(toward["sender"], "peer-joined")
        /\ toward'["receiver"] = toward["receiver"]
    BY <1>0, <1>1
  <2> QED BY <1>0, <1>1, <2>2, <2>3
<1> HIDE DEF ms
<1>7. Grows(u, v) /\ OrderInv(v) /\ Says(v, ms)
  BY <1>0, <1>1, <1>3, <1>5 DEF Grows, OrderInv, Says, Decided
<1>8. Step("receiver", ms)
  <2>1. Coming("receiver")' = Coming("receiver")
        /\ Coming("sender")' = Coming("sender") \cup Range(ms)
    BY <1>5, <1>6 DEF Coming
  <2>2. Told("receiver")' = Told("receiver") /\ Told("sender")' = Told("sender") \cup Range(ms)
    BY <1>3, <1>4, <2>1 DEF Told
  <2>3. Whole' = Whole /\ match' = match /\ faults' = faults
    BY <1>1 DEF Whole
  <2> QED BY <1>0, <1>4, <1>5, <1>7, <2>1, <2>2, <2>3 DEF Step
<1>9. Rooms("receiver")
  BY <1>1, <1>3, <1>4 DEF Rooms
<1>10. TypeOK'
  BY <1>0, <1>1, <1>4, <1>6 DEF TypeOK
<1>11. DecidedInv("receiver")'
  BY <1>0, <1>3, <1>4, <1>8, DecidedSame DEF SetupInv
<1>12. FramesInv'
  <2>1. Frames \cap Range(ms) = {}
    BY <1>5 DEF Frames
  <2> QED BY <1>0, <1>1, <1>3, <1>4, <1>8, <2>1, FramesKept DEF Taking
<1> QED BY <1>0, <1>4, <1>7, <1>8, <1>9, <1>10, <1>11, <1>12, Combined

LEMMA JoinRefusedKept ==
    ASSUME SetupInv, JoinRefused
    PROVE  SetupInv'
<1> DEFINE u == dev["receiver"]
           v == Fail(u, "refused")
<1>0. /\ "receiver" \in Devices /\ "sender" \in Devices /\ Other("receiver") = "sender"
      /\ u \in Device /\ OrderInv(u) /\ FramesInv /\ TypeOK
      /\ dev \in [Devices -> Device]
  BY Others DEF SetupInv, TypeOK, Devices
<1>1. /\ u.phase = "join" /\ dev' = [dev EXCEPT !["receiver"] = v]
      /\ UNCHANGED <<toward, room, pipe, match, faults, expired, dropped>>
      /\ room = "closed"
  BY DEF JoinRefused, Quiet
<1>2. v \in Device
  BY <1>0, Updates DEF Fail
<1>3. /\ v.phase = "failed" /\ v.kex = u.kex /\ v.attempt = u.attempt
      /\ v.link = u.link /\ v.heard = u.heard /\ v.pump = u.pump /\ v.inbox = u.inbox
  BY <1>0 DEF Device, Fail
<1> HIDE DEF v
<1>4. dev' \in [Devices -> Device] /\ dev'["receiver"] = v /\ dev'["sender"] = dev["sender"]
  BY <1>0, <1>1, <1>2
<1>5. Grows(u, v) /\ OrderInv(v) /\ Says(v, <<>>)
  BY <1>0, <1>3, Messages DEF Grows, OrderInv, Says
<1>6. Step("receiver", <<>>)
  <2>1. Coming("receiver")' = Coming("receiver") /\ Coming("sender")' = Coming("sender")
    BY <1>1 DEF Coming
  <2>2. Told("receiver")' = Told("receiver") /\ Told("sender")' = Told("sender")
    BY <1>3, <1>4, <2>1 DEF Told
  <2>3. Whole' = Whole /\ match' = match /\ faults' = faults
    BY <1>1 DEF Whole
  <2> QED BY <1>0, <1>4, <1>5, <2>1, <2>2, <2>3 DEF Step
<1>7. Rooms("receiver")
  BY <1>1, <1>3, <1>4 DEF Rooms
<1>8. TypeOK'
  BY <1>0, <1>1, <1>4 DEF TypeOK
<1>9. DecidedInv("receiver")'
  BY <1>0, <1>3, <1>4, <1>6, DecidedSame DEF SetupInv
<1>10. FramesInv'
  BY <1>0, <1>1, <1>3, <1>4, <1>6, Messages, FramesKept DEF Taking
<1> QED BY <1>0, <1>4, <1>5, <1>6, <1>7, <1>8, <1>9, <1>10, Combined

LEMMA HandshakeKept ==
    ASSUME SetupInv, AcceptsResponse \/ HearsHello \/ Responds \/ VerifiesConfirm
    PROVE  SetupInv'
<1>0. /\ FramesInv /\ "receiver" \in Devices /\ "sender" \in Devices
      /\ \A d \in Devices : dev[d] \in Device /\ OrderInv(dev[d])
  BY DEF SetupInv, TypeOK, Devices
<1>q. UNCHANGED <<pipe, match, faults, expired, dropped>> /\ expired' \in BOOLEAN
  BY DEF AcceptsResponse, HearsHello, Responds, VerifiesConfirm, Quiet, SetupInv, TypeOK
<1>m. /\ \A m \in Plain : /\ <<m>> \in Seq(Events) /\ Range(<<m>>) = {m}
                          /\ Range(<<m>>) \subseteq Plain /\ Range(<<m>>) \subseteq Signals
      /\ <<>> \in Seq(Events) /\ Range(<<>>) \subseteq Plain /\ Range(<<>>) \subseteq Signals
      /\ {"confirm", "response", "kex-abort"} \subseteq Plain
  BY Messages DEF Plain
<1>1. ASSUME NEW d \in Devices, NEW why \in {"auth", "late"}, dev[d].phase = "both",
             \/ Becomes(d, Fail(dev[d], why), <<>>)
             \/ Becomes(d, Fail(dev[d], why), <<"kex-abort">>)
      PROVE  SetupInv'
  BY <1>q, <1>m, <1>1, Failing
<1>2. ASSUME NEW d \in Devices, NEW k \in {"derive", "confirm", "done"}, NEW m,
             m = <<>> \/ m \in {<<n>> : n \in {"confirm", "response"}},
             dev[d].phase = "both", dev[d].kex # "done",
             d = "sender" /\ k = "done" => match,
             Becomes(d, [dev[d] EXCEPT !.kex = k], m)
      PROVE  SetupInv'
  <2> DEFINE u == dev[d]
             v == [u EXCEPT !.kex = k]
  <2>v. v \in Device
    BY <1>0, Updates
  <2>1. /\ v.phase = "both" /\ v.kex = k /\ v.attempt = u.attempt
        /\ v.link = u.link /\ v.heard = u.heard /\ v.pump = u.pump /\ v.inbox = u.inbox
        /\ v.online = u.online
    BY <1>0, <1>2 DEF Device
  <2>2. m \in Seq(Events) /\ Range(m) \subseteq Plain /\ Range(m) \subseteq Signals
    BY <1>m, <1>2
  <2>3. Grows(u, v) /\ OrderInv(v) /\ Says(v, m)
    BY <1>0, <1>2, <2>1, <2>2 DEF Grows, OrderInv, Says, Plain
  <2>4. Comes(d, v, m)
    BY <1>2, <2>1, <2>3 DEF Comes, Taking
  <2> HIDE DEF v
  <2>5. Becomes(d, v, m)
    BY <1>2 DEF v
  <2> QED BY <1>q, <2>v, <2>1, <2>2, <2>4, <2>5, Goes
<1>3. CASE AcceptsResponse
  <2>1. /\ dev["sender"].phase = "both" /\ dev["sender"].kex # "done"
        /\ \/ Becomes("sender", Fail(dev["sender"], "auth"), <<>>)
           \/ match /\ Becomes("sender", [dev["sender"] EXCEPT !.kex = "done"], <<"confirm">>)
           \/ Becomes("sender", Fail(dev["sender"], "auth"), <<"kex-abort">>)
    BY <1>3 DEF AcceptsResponse, InHandshake, Steps, Verified, Abort
  <2> QED BY <1>0, <1>1, <1>2, <2>1
<1>4. CASE HearsHello
  <2>1. /\ dev["receiver"].phase = "both" /\ dev["receiver"].kex # "done"
        /\ \/ Becomes("receiver", Fail(dev["receiver"], "auth"), <<>>)
           \/ Becomes("receiver", [dev["receiver"] EXCEPT !.kex = "derive"], <<>>)
    BY <1>4 DEF HearsHello, InHandshake, Steps
  <2> QED BY <1>0, <1>1, <1>2, <2>1
<1>5. CASE Responds
  <2>1. /\ dev["receiver"].phase = "both" /\ dev["receiver"].kex # "done"
        /\ Becomes("receiver", [dev["receiver"] EXCEPT !.kex = "confirm"], <<"response">>)
    BY <1>5 DEF Responds
  <2> QED BY <1>0, <1>2, <2>1
<1>6. CASE VerifiesConfirm
  <2>1. /\ dev["receiver"].phase = "both" /\ dev["receiver"].kex # "done"
        /\ \/ Becomes("receiver", Fail(dev["receiver"], "auth"), <<>>)
           \/ Becomes("receiver", [dev["receiver"] EXCEPT !.kex = "done"], <<>>)
           \/ Becomes("receiver", Fail(dev["receiver"], "auth"), <<"kex-abort">>)
    BY <1>6 DEF VerifiesConfirm, InHandshake, Steps, Abort
  <2> QED BY <1>0, <1>1, <1>2, <2>1
<1> QED BY <1>3, <1>4, <1>5, <1>6

\* A wait that runs out before anything is decided: StepTimeout, AttachTimeout,
\* HeaderTimeout.
LEMMA LateKept ==
    ASSUME SetupInv, NEW d \in Devices, dev[d].phase # "join",
           TimesOut(d, Fail(dev[d], "late"))
    PROVE  SetupInv'
<1>1. /\ Becomes(d, Fail(dev[d], "late"), <<>>)
      /\ expired' = (expired \/ room = "open" \/ toward[d] # <<>>)
      /\ UNCHANGED <<pipe, match, faults, dropped>>
  BY DEF TimesOut
<1>2. expired' \in BOOLEAN /\ (expired => expired')
  BY <1>1, Expiry DEF SetupInv
<1> QED BY <1>1, <1>2, Messages, Failing

LEMMA AttemptKept ==
    ASSUME SetupInv, NEW d \in Devices,
           Describes(d) \/ RemoteSet(d) \/ Opens(d) \/ AttemptSucceeds(d) \/ AttemptFails(d)
    PROVE  SetupInv'
<1> DEFINE u == dev[d]
<1>0. /\ FramesInv /\ u \in Device /\ OrderInv(u)
      /\ u.dc \in {"none", "open", "closed"} /\ u.candidate \in {"none", "pending", "added"}
  BY DEF SetupInv, TypeOK, Device
<1>q. UNCHANGED <<pipe, match, faults, expired, dropped>> /\ expired' \in BOOLEAN
  BY DEF Describes, RemoteSet, Opens, AttemptSucceeds, AttemptFails, Quiet, SetupInv, TypeOK
<1>1. CASE Describes(d)
  <2> DEFINE v == [u EXCEPT !.local = TRUE]
  <2>1. PICK ms \in {<<"sdp", "ice">>, <<"ice", "sdp">>} : Becomes(d, v, ms)
    BY <1>1 DEF Describes
  <2>2. ms \in Seq(Events) /\ Range(ms) = {"sdp", "ice"} /\ Range(ms) \subseteq Signals
    <3>1. "sdp" \in Events /\ "ice" \in Events /\ "sdp" \in Signals /\ "ice" \in Signals
      BY Messages DEF Signals
    <3>2. /\ <<"sdp", "ice">> \in Seq(Events) /\ Range(<<"sdp", "ice">>) = {"sdp", "ice"}
          /\ <<"ice", "sdp">> \in Seq(Events) /\ Range(<<"ice", "sdp">>) = {"ice", "sdp"}
      BY <3>1, Messages
    <3>3. CASE ms = <<"sdp", "ice">>
      BY <3>1, <3>2, <3>3
    <3>4. CASE ms = <<"ice", "sdp">>
      BY <3>1, <3>2, <3>4
    <3> QED BY <2>1, <3>3, <3>4
  <2>v. v \in Device
    BY <1>0, Updates
  <2>3. /\ v.phase = u.phase /\ v.kex = u.kex /\ v.attempt = u.attempt
        /\ v.link = u.link /\ v.heard = u.heard /\ v.pump = u.pump /\ v.inbox = u.inbox
        /\ v.online = u.online
    BY <1>0 DEF Device
  <2> HIDE DEF v
  <2>4. Comes(d, v, ms)
    BY <1>0, <2>2, <2>3 DEF Comes, Taking, Grows, OrderInv, Says, FramesInv
  <2> QED BY <1>q, <2>v, <2>1, <2>2, <2>3, <2>4, Goes
<1>2. CASE RemoteSet(d)
  <2>1. PICK c \in {"none", "pending", "added"} :
           Becomes(d, [u EXCEPT !.remote = "set", !.candidate = c], <<>>)
    BY <1>0, <1>2 DEF RemoteSet
  <2> DEFINE v == [u EXCEPT !.remote = "set", !.candidate = c]
  <2>v. v \in Device
    BY <1>0, Updates
  <2>2. /\ v.phase = u.phase /\ v.kex = u.kex /\ v.attempt = u.attempt
        /\ v.link = u.link /\ v.heard = u.heard /\ v.pump = u.pump /\ v.inbox = u.inbox
        /\ v.online = u.online
    BY <1>0 DEF Device
  <2>3. Becomes(d, v, <<>>)
    BY <2>1
  <2> HIDE DEF v
  <2>4. Comes(d, v, <<>>)
    BY <1>0, <2>2, Messages DEF Comes, Taking, Grows, OrderInv, Says, FramesInv
  <2> QED BY <1>q, <2>v, <2>2, <2>3, <2>4, Messages, Goes
<1>3. CASE Opens(d)
  <2> DEFINE v == [u EXCEPT !.dc = "open", !.attempt = "stats"]
  <2>1. u.attempt = "trying" /\ Becomes(d, v, <<>>)
    BY <1>3 DEF Opens
  <2>v. v \in Device
    BY <1>0, Updates
  <2>2. /\ v.phase = u.phase /\ v.kex = u.kex /\ v.attempt = "stats"
        /\ v.link = u.link /\ v.heard = u.heard /\ v.pump = u.pump /\ v.inbox = u.inbox
        /\ v.online = u.online
    BY <1>0 DEF Device
  <2> HIDE DEF v
  <2>3. Comes(d, v, <<>>)
    BY <1>0, <2>1, <2>2, Messages DEF Comes, Taking, Grows, OrderInv, Says, FramesInv
  <2> QED BY <1>q, <2>v, <2>1, <2>2, <2>3, Messages, Goes
<1>4. ASSUME NEW got \in {"up", "off"}, u.attempt \in {"trying", "stats"}, NEW m,
             m = IF got = "up" THEN "link-direct" ELSE "link-none",
             Becomes(d, Report(u, got), <<m>>)
      PROVE  SetupInv'
  <2> DEFINE v == Report(u, got)
  <2>1. <<m>> \in Seq(Events) /\ Range(<<m>>) = {m} /\ m \in Signals
    BY <1>4, Messages DEF Signals
  <2>v. v \in Device
    <3>1. PICK c \in {"none", "open", "closed"} :
             v = [u EXCEPT !.attempt = got, !.link = "waiting", !.dc = c]
      BY <1>0 DEF Report
    <3> HIDE DEF v
    <3> QED BY <1>0, <1>4, <3>1, Updates
  <2>2. /\ v.phase = u.phase /\ v.kex = u.kex /\ v.attempt = got
        /\ v.link = "waiting" /\ v.heard = u.heard /\ v.pump = u.pump /\ v.inbox = u.inbox
        /\ v.online = u.online
    BY <1>0 DEF Device, Report
  <2>3. Becomes(d, v, <<m>>)
    BY <1>4
  <2> HIDE DEF v
  <2>4. u.link = "none" /\ u.pump = "none" /\ u.phase \notin {"derive", "peer", "join"}
    BY <1>0, <1>4 DEF OrderInv, Decided, Device
  <2>5. Comes(d, v, <<m>>)
    BY <1>0, <1>4, <2>1, <2>2, <2>4 DEF Comes, Taking, Grows, OrderInv, Says, FramesInv, Decided
  <2> QED BY <1>q, <2>v, <2>1, <2>2, <2>3, <2>5, Goes
<1>5. CASE AttemptSucceeds(d)
  BY <1>4, <1>5 DEF AttemptSucceeds
<1>6. CASE AttemptFails(d)
  BY <1>4, <1>6 DEF AttemptFails
<1> QED BY <1>1, <1>2, <1>3, <1>5, <1>6

\* A device decides: rightly if what it believes of the other is so, or the other
\* one has gone.
LEMMA Deciding ==
    ASSUME SetupInv, NEW d \in Devices, NEW direct \in BOOLEAN, dev[d].link = "waiting",
           Becomes(d, Decide(dev[d], direct), <<>>),
           UNCHANGED <<pipe, match, faults, dropped>>, expired' \in BOOLEAN,
           expired => expired',
           direct => dev[Other(d)].attempt = "up",
           ~direct /\ Whole' => \/ dev[Other(d)].attempt = "off"
                                \/ \E e \in Devices : dev[e].phase = "failed"
    PROVE  SetupInv'
<1> DEFINE u == dev[d]
           v == Decide(u, direct)
<1>0. /\ FramesInv /\ RoomInv /\ TypeOK /\ u \in Device /\ OrderInv(u)
  BY DEF SetupInv, TypeOK
<1>v. v \in Device
  BY <1>0, Updates DEF Decide
<1>1. /\ v.phase = u.phase /\ v.kex = u.kex /\ v.attempt = u.attempt
      /\ v.link = IF u.attempt = "up" /\ direct THEN "p2p" ELSE "relay"
      /\ v.heard = u.heard /\ v.pump = u.pump /\ v.inbox = u.inbox /\ v.online = u.online
  BY <1>0 DEF Device, Decide
<1>b. Becomes(d, v, <<>>)
  OBVIOUS
<1> HIDE DEF v
<1>2. u.attempt \in {"up", "off"} /\ u.pump = "none" /\ u.phase \notin {"derive", "peer", "join"}
  BY <1>0 DEF OrderInv, Decided, Device
<1>3. Comes(d, v, <<>>)
  BY <1>0, <1>1, <1>2, Messages DEF Comes, Taking, Grows, OrderInv, Says, FramesInv, Decided
<1>4. Same(dev'[d], v) /\ dev'[Other(d)] = dev[Other(d)]
  BY <1>0, <1>v, <1>b, <1>3, Messages, Becoming DEF Comes, Step
<1>5. DecidedInv(d)'
  <2>1. \A e \in Devices : e = d \/ e = Other(d)
    BY Others
  <2> QED BY <1>1, <1>2, <1>4, <2>1 DEF DecidedInv, Same
<1> QED BY <1>v, <1>b, <1>3, <1>5, Messages, Kept

LEMMA LinkKept ==
    ASSUME SetupInv, NEW d \in Devices, LinkAgreed(d) \/ LinkTimeout(d)
    PROVE  SetupInv'
<1>1. CASE LinkAgreed(d)
  <2>1. /\ dev[d].link = "waiting"
        /\ Becomes(d, Decide(dev[d], "link-direct" \in dev[d].heard), <<>>)
        /\ "link-direct" \in dev[d].heard \/ "link-none" \in dev[d].heard
        /\ UNCHANGED <<pipe, match, faults, expired, dropped>> /\ expired' \in BOOLEAN
    BY <1>1 DEF LinkAgreed, LinkHeard, Reports, Quiet, SetupInv, TypeOK
  <2>2. /\ "link-direct" \in dev[d].heard => dev[Other(d)].attempt = "up"
        /\ "link-none" \in dev[d].heard => dev[Other(d)].attempt = "off"
    BY DEF SetupInv, ToldInv, Told
  <2> DEFINE direct == "link-direct" \in dev[d].heard
  <2>3. direct \in BOOLEAN /\ Becomes(d, Decide(dev[d], direct), <<>>)
    BY <2>1
  <2>4. direct => dev[Other(d)].attempt = "up"
    BY <2>2
  <2>5. ~direct => dev[Other(d)].attempt = "off"
    BY <2>1, <2>2
  <2> HIDE DEF direct
  <2> QED BY <2>1, <2>3, <2>4, <2>5, Deciding
<1>2. CASE LinkTimeout(d)
  <2>1. /\ dev[d].link = "waiting" /\ Becomes(d, Decide(dev[d], FALSE), <<>>)
        /\ expired' = (expired \/ room = "open" \/ toward[d] # <<>>)
        /\ UNCHANGED <<pipe, match, faults, dropped>>
    BY <1>2 DEF LinkTimeout, TimesOut
  <2>2. expired' \in BOOLEAN /\ (expired => expired')
    BY <2>1, Expiry DEF SetupInv
  <2>3. Whole' => \E e \in Devices : dev[e].phase = "failed"
    BY <2>1 DEF Whole, SetupInv, RoomInv, TypeOK
  <2> QED BY <2>1, <2>2, <2>3, Deciding
<1> QED BY <1>1, <1>2

----------------------------------------------------------------------------
(* After both tasks *)

LEMMA CreatedKept ==
    ASSUME SetupInv, SenderCreated \/ ReceiverCreated \/ Sealed
    PROVE  SetupInv'
<1>0. /\ FramesInv /\ "receiver" \in Devices /\ "sender" \in Devices
      /\ \A d \in Devices : dev[d] \in Device /\ OrderInv(dev[d])
  BY DEF SetupInv, TypeOK, Devices
<1>q. UNCHANGED <<pipe, match, faults, expired, dropped>> /\ expired' \in BOOLEAN
  BY DEF SenderCreated, ReceiverCreated, Sealed, Quiet, SetupInv, TypeOK
<1>1. ASSUME NEW d \in Devices, NEW p \in {"sealing", "header"}, NEW ms \in Seq(Events),
             BothDone(dev[d]), Range(ms) \subseteq {"receiver-attached"},
             Becomes(d, [dev[d] EXCEPT !.phase = p, !.pump = "on"], ms)
      PROVE  SetupInv'
  <2> DEFINE u == dev[d]
             v == [u EXCEPT !.phase = p, !.pump = "on"]
  <2>v. v \in Device
    BY <1>0, Updates
  <2>1. /\ v.phase = p /\ v.kex = u.kex /\ v.attempt = u.attempt
        /\ v.link = u.link /\ v.heard = u.heard /\ v.pump = "on" /\ v.inbox = u.inbox
        /\ v.online = u.online
    BY <1>0 DEF Device
  <2>2. u.phase = "both" /\ u.kex = "done" /\ u.link \in Decided
    BY <1>1 DEF BothDone, Decided
  <2>3. Grows(u, v) /\ OrderInv(v) /\ Says(v, ms)
    BY <1>0, <1>1, <2>1, <2>2 DEF Grows, OrderInv, Says
  <2>4. Comes(d, v, ms)
    BY <1>0, <2>1, <2>2, <2>3 DEF Comes, Taking, FramesInv
  <2> HIDE DEF v
  <2>5. Becomes(d, v, ms)
    BY <1>1 DEF v
  <2>6. Range(ms) \subseteq Signals
    BY <1>1 DEF Signals
  <2> QED BY <1>q, <2>v, <2>1, <2>4, <2>5, <2>6, Goes
<1>2. CASE SenderCreated
  BY <1>0, <1>1, <1>2, Messages DEF SenderCreated
<1>3. CASE ReceiverCreated
  <2>1. "receiver-attached" \in Events
    BY Messages DEF Signals
  <2>2. /\ <<"receiver-attached">> \in Seq(Events)
        /\ Range(<<"receiver-attached">>) = {"receiver-attached"}
    BY <2>1, Messages
  <2> QED BY <1>0, <1>1, <1>3, <2>2 DEF ReceiverCreated
<1>4. CASE Sealed
  <2> DEFINE u == dev["sender"]
             v == [u EXCEPT !.phase = "attach"]
  <2>1. u.phase = "sealing" /\ Becomes("sender", v, <<>>)
    BY <1>4 DEF Sealed
  <2>v. v \in Device
    BY <1>0, Updates
  <2>2. /\ v.phase = "attach" /\ v.kex = u.kex /\ v.attempt = u.attempt
        /\ v.link = u.link /\ v.heard = u.heard /\ v.pump = u.pump /\ v.inbox = u.inbox
        /\ v.online = u.online
    BY <1>0 DEF Device
  <2>3. Comes("sender", v, <<>>)
    BY <1>0, <2>1, <2>2, Messages DEF Comes, Taking, Grows, OrderInv, Says, FramesInv
  <2> HIDE DEF v
  <2> QED BY <1>0, <1>q, <2>v, <2>1, <2>2, <2>3, Messages, Goes
<1> QED BY <1>2, <1>3, <1>4

\* The receiver takes a frame, or learns that none will come.
LEMMA TakenKept ==
    ASSUME SetupInv, Takes("header", "meta") \/ Takes("meta", "transfer") \/ PumpRejects
    PROVE  SetupInv'
<1> DEFINE u == dev["receiver"]
<1>0. /\ FramesInv /\ "receiver" \in Devices /\ u \in Device /\ OrderInv(u)
      /\ u.inbox \in Seq(Frames)
  BY DEF SetupInv, TypeOK, Devices, Device
<1>q. UNCHANGED <<pipe, match, faults, expired, dropped>> /\ expired' \in BOOLEAN
  BY DEF Takes, PumpRejects, Quiet, SetupInv, TypeOK
<1>1. ASSUME NEW next \in {"meta", "transfer"}, u.phase \in {"header", "meta"}, u.inbox # <<>>,
             Becomes("receiver", [u EXCEPT !.phase = next, !.inbox = Tail(@)], <<>>)
      PROVE  SetupInv'
  <2> DEFINE v == [u EXCEPT !.phase = next, !.inbox = Tail(u.inbox)]
  <2>0. Tail(u.inbox) \in Seq(Frames)
    BY <1>0, <1>1, RangeTaken
  <2>v. v \in Device
    BY <1>0, <2>0, Updates
  <2>1. /\ v.phase = next /\ v.kex = u.kex /\ v.attempt = u.attempt
        /\ v.link = u.link /\ v.heard = u.heard /\ v.pump = u.pump
        /\ v.online = u.online
    BY <1>0 DEF Device
  <2>2. Becomes("receiver", v, <<>>)
    BY <1>1
  <2> HIDE DEF v
  <2>3. Comes("receiver", v, <<>>)
    BY <1>0, <1>1, <2>1, Messages DEF Comes, Taking, Grows, OrderInv, Says
  <2> QED BY <1>0, <1>q, <2>v, <2>1, <2>2, <2>3, Messages, Goes
<1>2. CASE Takes("header", "meta")
  BY <1>1, <1>2 DEF Takes
<1>3. CASE Takes("meta", "transfer")
  BY <1>1, <1>3 DEF Takes
<1>4. CASE PumpRejects
  <2>1. u.phase # "join" /\ Becomes("receiver", Fail(u, "broken"), <<>>)
    BY <1>4 DEF PumpRejects, Frames
  <2> QED BY <1>0, <1>q, <2>1, Messages, Failing
<1> QED BY <1>2, <1>3, <1>4

LEMMA TimeoutsKept ==
    ASSUME SetupInv, AttachTimeout \/ HeaderTimeout \/ \E d \in Devices : StepTimeout(d)
    PROVE  SetupInv'
<1>1. PICK d \in Devices : dev[d].phase # "join" /\ TimesOut(d, Fail(dev[d], "late"))
  BY DEF AttachTimeout, HeaderTimeout, StepTimeout, InHandshake, Devices
<1> QED BY <1>1, LateKept

\* The sender has heard that the receiver listens: both decided, on the same link
\* or on the relay of a device that was left.
LEMMA Agreeing ==
    ASSUME SetupInv, Whole, dev["sender"].phase \in {"attach", "meta"},
           dev["receiver"].pump # "none"
    PROVE  \/ dev["receiver"].link = dev["sender"].link
           \/ dev["sender"].link = "relay" /\ dev["receiver"].phase = "failed"
<1>1. /\ OrderInv(dev["sender"]) /\ OrderInv(dev["receiver"])
      /\ DecidedInv("sender") /\ DecidedInv("receiver")
  BY DEF SetupInv, Devices
<1>2. dev["sender"].link \in Decided /\ dev["receiver"].link \in Decided
  BY <1>1 DEF OrderInv
<1> QED BY <1>1, <1>2, Others DEF DecidedInv, Decided

LEMMA SendsKept ==
    ASSUME SetupInv, SendsHeader \/ SendsMeta
    PROVE  SetupInv'
<1> DEFINE u == dev["sender"]
           r == dev["receiver"]
<1>0. /\ FramesInv /\ RoomInv /\ TypeOK /\ "receiver" \in Devices /\ "sender" \in Devices
      /\ u \in Device /\ OrderInv(u) /\ OrderInv(r) /\ ToldInv("sender") /\ DecidedInv("sender")
      /\ Other("sender") = "receiver" /\ expired \in BOOLEAN
  BY Others DEF SetupInv, TypeOK, Devices
<1>1. PICK next \in {"meta", "transfer"}, frame \in Frames :
         /\ Sends([u EXCEPT !.phase = next], frame)
         /\ u.phase \in {"attach", "meta"} /\ r.pump # "none"
         /\ UNCHANGED <<match, faults, expired, dropped>>
  <2>1. CASE SendsHeader
    <3>1. /\ u.phase = "attach" /\ "receiver-attached" \in u.heard
          /\ Sends([u EXCEPT !.phase = "meta"], "header")
          /\ UNCHANGED <<match, faults, expired, dropped>>
      BY <2>1 DEF SendsHeader, Attached
    <3>2. r.pump # "none"
      BY <1>0, <3>1 DEF ToldInv, Told
    <3> QED BY <3>1, <3>2 DEF Frames
  <2>2. CASE SendsMeta
    <3>1. /\ u.phase = "meta" /\ Sends([u EXCEPT !.phase = "transfer"], "meta")
          /\ UNCHANGED <<match, faults, expired, dropped>>
      BY <2>2 DEF SendsMeta
    <3>2. r.pump # "none"
      BY <1>0, <3>1 DEF FramesInv, Taking
    <3> QED BY <3>1, <3>2 DEF Frames
  <2> QED BY <2>1, <2>2
<1> DEFINE v == [u EXCEPT !.phase = next]
           ms == IF v.link = "relay" THEN <<frame>> ELSE <<>>
<1>v. v \in Device
  BY <1>0, Updates
<1>2. /\ v.phase = next /\ v.kex = u.kex /\ v.attempt = u.attempt
      /\ v.link = u.link /\ v.heard = u.heard /\ v.pump = u.pump /\ v.inbox = u.inbox
      /\ v.online = u.online
  BY <1>0 DEF Device
<1>3. u.kex = "done" /\ u.link \in Decided /\ u.pump # "none"
  BY <1>0, <1>1 DEF OrderInv
<1>4. CASE Becomes("sender", Fail(v, "broken"), <<>>) /\ UNCHANGED pipe
  <2>1. Fail(v, "broken") = Fail(u, "broken")
    BY <1>0 DEF Fail, Device
  <2> HIDE DEF v
  <2>2. Becomes("sender", Fail(u, "broken"), <<>>)
    BY <1>4, <2>1
  <2> QED BY <1>0, <1>1, <1>4, <2>2, Messages, Failing
<1>5. CASE /\ Becomes("sender", v, ms)
           /\ pipe' = IF v.link = "p2p" THEN Append(pipe, frame) ELSE pipe
  <2>0. frame \in Events
    BY Messages
  <2>1. /\ ms \in Seq(Events) /\ Range(ms) \subseteq {frame}
        /\ v.link # "relay" => Range(ms) = {}
    BY <2>0, Messages
  <2>b. Becomes("sender", v, ms)
    BY <1>5
  <2>p. \/ pipe' = pipe
        \/ v.link = "p2p" /\ pipe' = Append(pipe, frame)
    BY <1>5
  <2> HIDE DEF v, ms
  <2>2. "peer-left" \notin Range(ms) /\ Says(v, ms)
    BY <2>1 DEF Frames, Says
  <2>3. Grows(u, v) /\ OrderInv(v)
    BY <1>0, <1>1, <1>2, <1>3 DEF Grows, OrderInv
  <2>4. /\ dev' \in [Devices -> Device] /\ toward' \in [Devices -> Seq(Events)]
        /\ room' \in {"open", "closed"}
        /\ Step("sender", ms) /\ Rooms("sender") /\ Same(dev'["sender"], v)
    BY <1>0, <1>1, <1>v, <1>2, <2>1, <2>b, <2>2, <2>3, Becoming
  <2>5. pipe' \in Seq(Frames)
    <3>1. pipe \in Seq(Frames)
      BY <1>0 DEF TypeOK
    <3>2. Append(pipe, frame) \in Seq(Frames)
      BY <3>1, RangeAppended
    <3> QED BY <2>p, <3>1, <3>2
  <2>6. TypeOK'
    BY <1>0, <1>1, <2>4, <2>5 DEF TypeOK
  <2>7. OrderInv(dev'["sender"]) /\ Says(dev'["sender"], ms)
    BY <2>2, <2>3, <2>4 DEF Same, OrderInv, Says
  <2>8. DecidedInv("sender")'
    BY <1>0, <1>2, <2>4, DecidedSame DEF Same
  <2>9. FramesInv'
    <3>1. /\ dev'["receiver"] = r /\ dev'["sender"].kex = "done" /\ dev'["sender"].link = u.link
          /\ Whole' = Whole /\ match' = match /\ dropped' = dropped
      BY <1>0, <1>1, <1>2, <1>3, <2>4 DEF Step, Same, Whole
    <3>2. Whole => \/ r.link = u.link
                   \/ u.link = "relay" /\ r.phase = "failed"
      BY <1>1, Agreeing
    <3>3. r.pump # "none"
      BY <1>1
    <3> DEFINE On(kind) == /\ u.kex = "done" /\ u.link = kind
                           /\ Whole => r.link = kind /\ r.pump # "none"
    <3>4. \A kind \in Decided : FrameOn(kind) <=> On(kind)
      BY DEF FrameOn
    <3>5. \A kind \in Decided : On(kind) => FrameOn(kind)'
      BY <1>3, <3>1 DEF FrameOn
    <3> HIDE DEF On
    <3>6. "p2p" \in Decided /\ "relay" \in Decided
      BY DEF Decided
    <3>7. pipe' # <<>> => FrameOn("p2p")'
      <4>1. CASE pipe # <<>>
        BY <1>0, <3>4, <3>5, <3>6, <4>1 DEF FramesInv
      <4>2. CASE u.link = "p2p"
        BY <1>3, <3>2, <3>3, <3>5, <3>6, <4>2 DEF On
      <4> QED BY <1>2, <2>p, <4>1, <4>2
    <3>8. Frames \cap Coming("receiver")' # {} => FrameOn("relay")'
      <4>1. CASE Frames \cap Coming("receiver") # {}
        BY <1>0, <3>4, <3>5, <3>6, <4>1 DEF FramesInv
      <4>2. CASE u.link = "relay" /\ (Whole => r.phase # "failed")
        BY <1>3, <3>2, <3>3, <3>5, <3>6, <4>2 DEF On
      <4>3. CASE Frames \cap Coming("receiver") = {} /\ u.link # "relay"
        <5>1. Coming("receiver")' \subseteq Coming("receiver") \cup {"peer-left"}
          BY <1>0, <1>2, <2>1, <2>4, <4>3 DEF Step
        <5> QED BY <4>3, <5>1 DEF Frames
      <4>4. CASE Frames \cap Coming("receiver") = {} /\ Whole /\ r.phase = "failed"
        <5>1. room = "closed"
          BY <1>0, <4>4 DEF RoomInv, Whole
        <5>2. ~(v.phase = "failed")
          BY <1>1, <1>2
        <5>3. toward' = toward
          BY <1>0, <2>1, <2>b, <5>1, <5>2, Posted DEF Becomes
        <5> QED BY <4>4, <5>3 DEF Coming
      <4> QED BY <4>1, <4>2, <4>3, <4>4
    <3>9. Taking(dev'["sender"]) => dev'["receiver"].pump # "none"
      BY <3>1, <3>3
    <3>10. Taking(dev'["receiver"]) => /\ dev'["sender"].kex = "done"
                                       /\ dev'["sender"].link = dev'["receiver"].link
                                       /\ dev'["receiver"].pump # "none"
      BY <1>0, <3>1 DEF FramesInv
    <3>11. match' /\ (Whole' => dropped' = {})
      BY <1>0, <1>3, <3>1 DEF FramesInv
    <3> QED BY <3>7, <3>8, <3>9, <3>10, <3>11 DEF FramesInv
  <2> QED BY <1>0, <2>4, <2>6, <2>7, <2>8, <2>9, Combined
<1>6. Sends(v, frame)
  BY <1>1
<1> HIDE DEF v, ms
<1>7. \/ Becomes("sender", Fail(v, "broken"), <<>>) /\ UNCHANGED pipe
      \/ /\ Becomes("sender", v, IF v.link = "relay" THEN <<frame>> ELSE <<>>)
         /\ pipe' = IF v.link = "p2p" THEN Append(pipe, frame) ELSE pipe
  BY <1>6 DEF Sends
<1> QED BY <1>4, <1>5, <1>7 DEF ms

----------------------------------------------------------------------------
(* What a device hears *)

\* v is d after an event it heard without sending anything.
Turns(d, v) ==
    /\ Grows(dev[d], v) /\ OrderInv(v)
    /\ v.kex = dev[d].kex /\ v.online = dev[d].online
    /\ Taking(v) => Taking(dev[d])
    /\ v.link \in Decided =>
          \/ dev[d].link = v.link
          \/ v.link = "relay" /\ (faults = 0 => dev[Other(d)].phase = "failed")

LEMMA Heard ==
    ASSUME SetupInv, NEW d \in Devices, NEW v \in Device, Turns(d, v),
           dev[d].online = TRUE, toward[d] # <<>>,
           v.heard \subseteq dev[d].heard \cup {Head(toward[d])},
           IF v.phase = "failed" THEN Leaves(d, v, <<>>)
           ELSE /\ dev' = [dev EXCEPT ![d] = v]
                /\ toward' = [toward EXCEPT ![d] = Tail(@)]
                /\ UNCHANGED room,
           UNCHANGED <<pipe, match, faults, expired, dropped>>
    PROVE  SetupInv'
<1> DEFINE o == Other(d)
<1>0. /\ TypeOK /\ FramesInv /\ RoomInv /\ DecidedInv(d)
      /\ o \in Devices /\ o # d /\ dev[d] \in Device
      /\ dev \in [Devices -> Device] /\ toward \in [Devices -> Seq(Events)]
      /\ toward[d] \in Seq(Events) /\ room \in {"open", "closed"} /\ OrderInv(dev["receiver"])
  BY Others DEF SetupInv, TypeOK, Devices
<1>1. /\ Head(toward[d]) \in Coming(d) /\ Tail(toward[d]) \in Seq(Events)
      /\ Range(Tail(toward[d])) \subseteq Coming(d)
  BY <1>0, RangeTaken DEF Coming
<1>2. /\ dev' \in [Devices -> Device] /\ toward' \in [Devices -> Seq(Events)]
      /\ dev'[o] = dev[o] /\ Same(dev'[d], v)
      /\ Coming(d)' \subseteq Coming(d)
      /\ Coming(o)' \subseteq Coming(o) \cup {"peer-left"}
      /\ "peer-left" \in Coming(o)' => "peer-left" \in Coming(o) \/ v.phase = "failed"
      /\ room' = IF v.phase = "failed" THEN "closed" ELSE room
      /\ v.phase # "failed" => dev'[d].online = v.online
  <2>1. CASE v.phase = "failed"
    <3>1. Leaves(d, v, <<>>)
      BY <2>1
    <3>2. /\ dev' \in [Devices -> Device] /\ toward' \in [Devices -> Seq(Events)]
          /\ dev'[Other(d)] = dev[Other(d)] /\ Same(dev'[d], v)
          /\ Coming(d)' = {}
          /\ Coming(Other(d))' \subseteq Coming(Other(d)) \cup Range(<<>>) \cup {"peer-left"}
          /\ room' = IF dev[d].online THEN "closed" ELSE room
      BY <1>0, <3>1, Messages, Leaving
    <3> QED BY <2>1, <3>2, Messages
  <2>2. CASE v.phase # "failed"
    <3>1. /\ dev' = [dev EXCEPT ![d] = v] /\ toward' = [toward EXCEPT ![d] = Tail(@)]
          /\ room' = room
      BY <2>2
    <3>2. /\ dev' \in [Devices -> Device] /\ toward' \in [Devices -> Seq(Events)]
          /\ dev'[d] = v /\ dev'[o] = dev[o]
          /\ toward'[d] = Tail(toward[d]) /\ toward'[o] = toward[o]
      BY <1>0, <1>1, <3>1
    <3>3. Coming(d)' \subseteq Coming(d) /\ Coming(o)' = Coming(o)
      BY <1>1, <3>2 DEF Coming
    <3> QED BY <2>2, <3>1, <3>2, <3>3 DEF Same
  <2> QED BY <2>1, <2>2
<1>3. Told(d)' \subseteq Told(d) /\ Told(o)' \subseteq Told(o) \cup {"peer-left"}
  BY <1>1, <1>2 DEF Told, Same
<1>4. Whole' = Whole
  BY DEF Whole
<1>5. Grows(dev[d], dev'[d]) /\ OrderInv(dev'[d]) /\ Says(dev'[d], <<>>)
      /\ (Taking(dev'[d]) => Taking(dev[d])) /\ dev'[d].kex = dev[d].kex
  BY <1>2, Messages DEF Turns, Same, Grows, OrderInv, Says, Taking
<1>6. Step(d, <<>>)
  BY <1>2, <1>3, <1>4, <1>5, Messages DEF Step, Same
<1>7. Rooms(d)
  <2>1. dev'[d].phase = v.phase /\ v.online = TRUE
    BY <1>2 DEF Same, Turns
  <2>2. dev'[d].phase \notin {"failed", "join"} => dev'[d].online = TRUE
    BY <1>2, <2>1
  <2> QED BY <1>2, <2>1, <2>2 DEF Rooms
<1>8. TypeOK'
  BY <1>0, <1>2 DEF TypeOK
<1>9. DecidedInv(d)'
  <2>1. CASE dev'[d].link \in Decided => dev[d].link = dev'[d].link
    BY <1>0, <1>6, <2>1, DecidedSame
  <2>2. CASE dev'[d].link = "relay" /\ (faults = 0 => dev[o].phase = "failed")
    BY <1>2, <1>4, <2>2 DEF DecidedInv, Whole
  <2>3. v.link = dev'[d].link
    BY <1>2 DEF Same
  <2> QED BY <2>1, <2>2, <2>3 DEF Turns
<1>10. FramesInv'
  <2>1. d = "sender" /\ dev'[d].kex = "done" => match
    BY <1>0, <1>5 DEF FramesInv
  <2>2. Frames \cap Range(<<>>) = {}
    BY Messages
  <2> QED BY <1>0, <1>5, <1>6, <2>1, <2>2, FramesKept
<1> QED BY <1>5, <1>6, <1>7, <1>8, <1>9, <1>10, Combined

LEMMA SignalKept ==
    ASSUME SetupInv, NEW d \in Devices, DeliverSignal(d)
    PROVE  SetupInv'
<1> DEFINE u == dev[d]
           m == Head(toward[d])
           v == Hears(u, m)
<1>0. /\ u \in Device /\ OrderInv(u) /\ ToldInv(d)
      /\ toward[d] \in Seq(Events) /\ toward[d] # <<>> /\ m \notin Frames
      /\ u.online = TRUE
      /\ UNCHANGED <<pipe, match, faults, expired, dropped>>
  <2>1. u.online \in BOOLEAN /\ u.online
    BY DEF SetupInv, TypeOK, Device, DeliverSignal
  <2> QED BY <2>1 DEF SetupInv, TypeOK, DeliverSignal, Quiet
<1>1. m \in Events /\ m \in Coming(d)
  BY <1>0, RangeTaken DEF Coming
<1>2. v \in Device /\ Turns(d, v) /\ v.heard \subseteq u.heard \cup {m}
  <2>1. ASSUME NEW w \in Device, w.phase = u.phase, w.kex = u.kex, w.attempt = u.attempt,
               w.link = u.link, w.pump = u.pump, w.inbox = u.inbox, w.online = u.online
        PROVE  Turns(d, w)
    BY <1>0, <2>1 DEF Turns, Grows, OrderInv, Taking
  <2>2. CASE m = "peer-joined"
    <3> DEFINE w == [u EXCEPT !.joined = TRUE]
    <3>1. v = w
      BY <2>2 DEF Hears
    <3>2. w \in Device
      BY <1>0, Updates
    <3>3. /\ w.phase = u.phase /\ w.kex = u.kex /\ w.attempt = u.attempt /\ w.link = u.link
          /\ w.pump = u.pump /\ w.inbox = u.inbox /\ w.online = u.online /\ w.heard = u.heard
      BY <1>0 DEF Device
    <3> HIDE DEF w, v
    <3> QED BY <2>1, <3>1, <3>2, <3>3
  <2>3. CASE m = "sdp"
    <3> DEFINE w == Sdp(u)
    <3>1. v = w
      BY <2>3 DEF Hears
    <3>2. w \in Device
      BY <1>0, Updates DEF Sdp
    <3>3. /\ w.phase = u.phase /\ w.kex = u.kex /\ w.attempt = u.attempt /\ w.link = u.link
          /\ w.pump = u.pump /\ w.inbox = u.inbox /\ w.online = u.online /\ w.heard = u.heard
      BY <1>0 DEF Device, Sdp
    <3> HIDE DEF w, v
    <3> QED BY <2>1, <3>1, <3>2, <3>3
  <2>4. CASE m = "ice"
    <3> DEFINE w == Ice(u)
    <3>1. v = w
      BY <2>4 DEF Hears
    <3>2. w \in Device
      <4>1. PICK c \in {"none", "pending", "added"} : w = u \/ w = [u EXCEPT !.candidate = c]
        BY DEF Ice
      <4> HIDE DEF w
      <4> QED BY <1>0, <4>1, Updates
    <3>3. /\ w.phase = u.phase /\ w.kex = u.kex /\ w.attempt = u.attempt /\ w.link = u.link
          /\ w.pump = u.pump /\ w.inbox = u.inbox /\ w.online = u.online /\ w.heard = u.heard
      BY <1>0 DEF Device, Ice
    <3> HIDE DEF w, v
    <3> QED BY <2>1, <3>1, <3>2, <3>3
  <2>5. CASE m \in Signals \ {"sdp", "ice"}
    <3> DEFINE w == [u EXCEPT !.heard = u.heard \cup {m}]
    <3>1. v = w
      BY <2>5 DEF Hears, Remember, Signals
    <3>2. w \in Device
      <4>1. u.heard \cup {m} \in SUBSET Signals
        BY <1>0, <2>5 DEF Device
      <4> QED BY <1>0, <4>1, Updates
    <3>3. /\ w.phase = u.phase /\ w.kex = u.kex /\ w.attempt = u.attempt /\ w.link = u.link
          /\ w.pump = u.pump /\ w.inbox = u.inbox /\ w.online = u.online
          /\ w.heard = u.heard \cup {m}
      BY <1>0 DEF Device
    <3> HIDE DEF w, v
    <3> QED BY <2>1, <3>1, <3>2, <3>3
  <2>6. CASE m = "peer-left"
    <3> DEFINE gone == u.phase \in {"peer", "attach"} \/ InHandshake(u)
               After(l) == IF gone THEN Fail(l, "gone") ELSE l
    <3>1. ASSUME NEW l \in Device, l.phase = u.phase, l.kex = u.kex, l.attempt = u.attempt,
                 l.inbox = u.inbox, l.online = u.online, l.heard = u.heard,
                 \/ l.link = u.link /\ (l.pump = "none" <=> u.pump = "none")
                 \/ u.link = "waiting" /\ l.link = "relay" /\ l.pump = u.pump
          PROVE  After(l) \in Device /\ Turns(d, After(l)) /\ After(l).heard = u.heard
      <4> DEFINE w == After(l)
      <4>1. w \in Device
        <5>1. Fail(l, "gone") \in Device
          BY <3>1, Updates DEF Fail
        <5> QED BY <3>1, <5>1
      <4>2. /\ w.phase = u.phase \/ (w.phase = "failed" /\ u.phase # "failed")
            /\ w.kex = u.kex /\ w.attempt = u.attempt /\ w.link = l.link
            /\ w.inbox = u.inbox /\ w.online = u.online /\ w.heard = u.heard /\ w.pump = l.pump
        BY <3>1 DEF Fail, Device, InHandshake
      <4>3. faults = 0 => dev[Other(d)].phase = "failed"
        BY <1>0, <1>1, <2>6 DEF ToldInv
      <4> HIDE DEF w
      <4>4. Turns(d, w)
        BY <1>0, <3>1, <4>2, <4>3 DEF Turns, Grows, OrderInv, Taking, Decided
      <4> QED BY <4>1, <4>2, <4>4 DEF w
    <3> HIDE DEF gone
    <3>2. CASE u.link = "waiting"
      <4> DEFINE l == Decide(u, FALSE)
      <4>1. v = After(l)
        BY <2>6, <3>2 DEF Hears, HearsLeft, gone
      <4>2. l \in Device
        BY <1>0, Updates DEF Decide
      <4>3. /\ l.phase = u.phase /\ l.kex = u.kex /\ l.attempt = u.attempt
            /\ l.inbox = u.inbox /\ l.online = u.online /\ l.heard = u.heard
            /\ l.link = "relay" /\ l.pump = u.pump
        BY <1>0 DEF Decide, Device
      <4> HIDE DEF l, v, After
      <4> QED BY <3>1, <3>2, <4>1, <4>2, <4>3
    <3>3. CASE u.link = "relay"
      <4> DEFINE l == [u EXCEPT !.shut = TRUE, !.pump = IF @ = "on" THEN "failed" ELSE @]
      <4>1. v = After(l)
        BY <2>6, <3>3 DEF Hears, HearsLeft, gone
      <4>2. l \in Device
        <5>1. u.pump \in {"none", "on", "failed"}
          BY <1>0 DEF Device
        <5> QED BY <1>0, <5>1, Updates
      <4>3. /\ l.phase = u.phase /\ l.kex = u.kex /\ l.attempt = u.attempt
            /\ l.inbox = u.inbox /\ l.online = u.online /\ l.heard = u.heard
            /\ l.link = u.link /\ (l.pump = "none" <=> u.pump = "none")
        BY <1>0 DEF Device
      <4> HIDE DEF l, v, After
      <4> QED BY <3>1, <4>1, <4>2, <4>3
    <3>4. CASE u.link \notin {"waiting", "relay"}
      <4>1. v = After(u)
        BY <2>6, <3>4 DEF Hears, HearsLeft, gone
      <4> HIDE DEF v, After
      <4> QED BY <1>0, <3>1, <4>1
    <3> QED BY <3>2, <3>3, <3>4
  <2> QED BY <1>0, <1>1, <2>2, <2>3, <2>4, <2>5, <2>6 DEF Events
<1>3. IF v.phase = "failed" THEN Leaves(d, v, <<>>)
      ELSE /\ dev' = [dev EXCEPT ![d] = v]
           /\ toward' = [toward EXCEPT ![d] = Tail(@)]
           /\ UNCHANGED room
  BY DEF DeliverSignal
<1> HIDE DEF v
<1> QED BY <1>0, <1>2, <1>3, Heard

\* A frame arrives: on a link of the sender's kind, where the receiver listens.
LEMMA ArrivesKept ==
    ASSUME SetupInv, NEW frame \in Frames, NEW kind \in Decided, FrameOn(kind),
           Arrives(frame, kind), UNCHANGED <<room, match, faults, expired>>,
           \/ /\ toward["receiver"] # <<>> /\ UNCHANGED pipe
              /\ toward' = [toward EXCEPT !["receiver"] = Tail(@)]
           \/ /\ pipe # <<>> /\ pipe' = Tail(pipe) /\ UNCHANGED toward,
           dev["receiver"].online = TRUE \/ UNCHANGED toward
    PROVE  SetupInv'
<1> DEFINE u == dev["receiver"]
<1>0. /\ TypeOK /\ FramesInv /\ RoomInv /\ DecidedInv("receiver") /\ OrderInv(u)
      /\ "receiver" \in Devices /\ "sender" \in Devices /\ Other("receiver") = "sender"
      /\ dev \in [Devices -> Device] /\ toward \in [Devices -> Seq(Events)]
      /\ u \in Device /\ toward["receiver"] \in Seq(Events) /\ pipe \in Seq(Frames)
  BY Others DEF SetupInv, TypeOK, Devices
<1>1. /\ toward' \in [Devices -> Seq(Events)] /\ pipe' \in Seq(Frames)
      /\ Coming("sender")' = Coming("sender")
      /\ Coming("receiver")' \subseteq Coming("receiver")
      /\ pipe' # <<>> => pipe # <<>>
  <2>1. CASE /\ toward["receiver"] # <<>> /\ UNCHANGED pipe
             /\ toward' = [toward EXCEPT !["receiver"] = Tail(@)]
    <3>1. /\ Tail(toward["receiver"]) \in Seq(Events)
          /\ Range(Tail(toward["receiver"])) \subseteq Range(toward["receiver"])
      BY <1>0, <2>1, RangeTaken
    <3>2. /\ toward' \in [Devices -> Seq(Events)]
          /\ toward'["receiver"] = Tail(toward["receiver"])
          /\ toward'["sender"] = toward["sender"]
      BY <1>0, <2>1, <3>1
    <3> QED BY <1>0, <2>1, <3>1, <3>2 DEF Coming
  <2>2. CASE pipe # <<>> /\ pipe' = Tail(pipe) /\ UNCHANGED toward
    <3>1. Tail(pipe) \in Seq(Frames)
      BY <1>0, <2>2, RangeTaken
    <3> QED BY <1>0, <2>2, <3>1 DEF Coming
  <2> QED BY <2>1, <2>2
<1>2. PICK v \in Device :
         /\ dev' = [dev EXCEPT !["receiver"] = v]
         /\ v.phase = u.phase /\ v.kex = u.kex /\ v.attempt = u.attempt /\ v.link = u.link
         /\ v.heard = u.heard /\ v.online = u.online
         /\ v.pump = "none" <=> u.pump = "none"
         /\ \/ v.inbox = u.inbox
            \/ u.link = kind /\ u.pump # "none"
         /\ \/ dropped' = dropped
            \/ dropped' = dropped \cup {frame} /\ ~(u.link = kind /\ u.pump # "none")
  <2>1. CASE u.link = kind /\ u.pump # "none"
    <3> DEFINE v == Opened(u, frame)
    <3>1. dev' = [dev EXCEPT !["receiver"] = v] /\ dropped' = dropped
      BY <2>1 DEF Arrives
    <3>2. u.opened + 1 \in Nat /\ u.inbox \in Seq(Frames) /\ Append(u.inbox, frame) \in Seq(Frames)
      BY <1>0, RangeAppended DEF Device
    <3>3. v \in Device
      BY <1>0, <3>2, Updates DEF Opened
    <3>4. /\ v.phase = u.phase /\ v.kex = u.kex /\ v.attempt = u.attempt /\ v.link = u.link
          /\ v.heard = u.heard /\ v.online = u.online /\ v.pump # "none"
      BY <1>0, <2>1 DEF Opened, Device
    <3> HIDE DEF v
    <3> QED BY <2>1, <3>1, <3>3, <3>4
  <2>2. CASE ~(u.link = kind /\ u.pump # "none")
    <3>1. dropped' = dropped \cup {frame} /\ dev' = dev
      BY <2>2 DEF Arrives
    <3>2. dev' = [dev EXCEPT !["receiver"] = u]
      BY <1>0, <3>1
    <3> QED BY <1>0, <2>2, <3>1, <3>2
  <2> QED BY <2>1, <2>2
<1>3. dev' \in [Devices -> Device] /\ dev'["receiver"] = v /\ dev'["sender"] = dev["sender"]
  BY <1>0, <1>2
<1>4. Whole' = Whole
  BY DEF Whole
<1>5. Grows(u, v) /\ OrderInv(v) /\ Says(v, <<>>)
  BY <1>0, <1>2, Messages DEF Grows, OrderInv, Says
<1>6. Step("receiver", <<>>)
  <2>1. Told("receiver")' \subseteq Told("receiver") /\ Told("sender")' = Told("sender")
    BY <1>1, <1>2, <1>3 DEF Told
  <2> QED BY <1>0, <1>1, <1>3, <1>4, <1>5, <2>1 DEF Step
<1>7. Rooms("receiver")
  <2>1. /\ faults' = faults /\ room' = room
        /\ dev'["receiver"].phase = u.phase /\ dev'["receiver"].online = u.online
    BY <1>2, <1>3
  <2>2. faults = 0 => /\ u.phase = "failed" => room = "closed"
                      /\ u.phase \notin {"failed", "join"} => u.online
    BY <1>0 DEF RoomInv
  <2> QED BY <2>1, <2>2 DEF Rooms
<1>8. TypeOK'
  <2>1. dropped' \subseteq Frames
    BY <1>0, <1>2 DEF TypeOK
  <2> QED BY <1>0, <1>1, <1>3, <2>1 DEF TypeOK
<1>9. DecidedInv("receiver")'
  BY <1>0, <1>2, <1>3, <1>6, DecidedSame
<1>10. FramesInv'
  <2>1. \A k \in Decided : FrameOn(k) => FrameOn(k)'
    BY <1>2, <1>3, <1>4 DEF FrameOn
  <2>2. "p2p" \in Decided /\ "relay" \in Decided
    BY DEF Decided
  <2>3. pipe' # <<>> => FrameOn("p2p")'
    BY <1>0, <1>1, <2>1, <2>2 DEF FramesInv
  <2>4. Frames \cap Coming("receiver")' # {} => FrameOn("relay")'
    BY <1>0, <1>1, <2>1, <2>2 DEF FramesInv
  <2>5. Taking(v) => /\ dev["sender"].kex = "done" /\ dev["sender"].link = u.link
                     /\ u.pump # "none"
    <3>1. CASE v.inbox = u.inbox
      BY <1>0, <1>2, <3>1 DEF FramesInv, Taking
    <3>2. CASE u.link = kind /\ u.pump # "none"
      BY <3>2 DEF FrameOn
    <3> QED BY <1>2, <3>1, <3>2
  <2>6. Taking(dev'["sender"]) => v.pump # "none"
    BY <1>0, <1>2, <1>3 DEF FramesInv
  <2>7. Whole => dropped' = {}
    BY <1>0, <1>2 DEF FramesInv, FrameOn
  <2>8. dev'["sender"].kex = "done" => match'
    BY <1>0, <1>3 DEF FramesInv
  <2> QED BY <1>2, <1>3, <1>4, <2>3, <2>4, <2>5, <2>6, <2>7, <2>8 DEF FramesInv
<1> QED BY <1>0, <1>3, <1>5, <1>6, <1>7, <1>8, <1>9, <1>10, Combined

LEMMA DeliveredKept ==
    ASSUME SetupInv, DeliverRelayed \/ DeliverDirect
    PROVE  SetupInv'
<1>0. /\ FramesInv /\ toward["receiver"] \in Seq(Events) /\ pipe \in Seq(Frames)
      /\ dev["receiver"].online \in BOOLEAN
      /\ "p2p" \in Decided /\ "relay" \in Decided
  BY DEF SetupInv, TypeOK, Devices, Device, Decided
<1>1. CASE DeliverRelayed
  <2>1. Head(toward["receiver"]) \in Frames \cap Coming("receiver")
    BY <1>0, <1>1, RangeTaken DEF DeliverRelayed, Coming
  <2>2. FrameOn("relay")
    BY <1>0, <2>1 DEF FramesInv
  <2>3. dev["receiver"].online = TRUE
    BY <1>0, <1>1 DEF DeliverRelayed
  <2> QED BY <1>0, <1>1, <2>1, <2>2, <2>3, ArrivesKept DEF DeliverRelayed
<1>2. CASE DeliverDirect
  <2>1. Head(pipe) \in Frames /\ FrameOn("p2p")
    BY <1>0, <1>2, RangeTaken DEF DeliverDirect, FramesInv
  <2> QED BY <1>0, <1>2, <2>1, ArrivesKept DEF DeliverDirect
<1> QED BY <1>1, <1>2

----------------------------------------------------------------------------
(* What is lost *)

LEMMA ClosedKept ==
    ASSUME SetupInv, NEW d \in Devices, dev' = [dev EXCEPT ![d] = HearsClosed(@)],
           pipe' = pipe \/ pipe' = <<>>,
           faults' = faults \/ (faults < MaxFaults /\ faults' = faults + 1),
           UNCHANGED <<toward, room, match, expired, dropped>>
    PROVE  SetupInv'
<1> DEFINE u == dev[d]
           o == Other(d)
           v == HearsClosed(u)
<1>0. /\ TypeOK /\ FramesInv /\ RoomInv /\ DecidedInv(d) /\ OrderInv(u)
      /\ OrderInv(dev["receiver"])
      /\ o \in Devices /\ o # d /\ u \in Device
      /\ dev \in [Devices -> Device]
      /\ faults \in Nat /\ MaxFaults \in Nat /\ faults <= MaxFaults
  BY Others, SessionAssumption DEF SetupInv, TypeOK, Devices
<1>1. v \in Device
  <2>1. /\ u.pump \in {"none", "on", "failed"}
        /\ (IF u.pump = "on" THEN "failed" ELSE u.pump) \in {"none", "on", "failed"}
    BY <1>0 DEF Device
  <2> QED BY <1>0, <2>1, Updates DEF HearsClosed
<1>2. /\ v.phase = u.phase /\ v.kex = u.kex /\ v.attempt = u.attempt /\ v.link = u.link
      /\ v.heard = u.heard /\ v.inbox = u.inbox /\ v.online = u.online
      /\ v.pump = "none" <=> u.pump = "none"
  BY <1>0 DEF HearsClosed, Device
<1>3. dev' = [dev EXCEPT ![d] = v]
  OBVIOUS
<1> HIDE DEF v
<1>4. dev' \in [Devices -> Device] /\ dev'[d] = v /\ dev'[o] = dev[o]
  BY <1>0, <1>1, <1>3
<1>5. faults' \in 0..MaxFaults /\ (faults' = 0 => faults = 0)
  BY <1>0
<1>6. pipe' \in Seq(Frames) /\ (pipe' # <<>> => pipe # <<>>)
  <2>1. pipe \in Seq(Frames) /\ <<>> \in Seq(Frames)
    BY <1>0, EmptySeq DEF TypeOK
  <2> QED BY <2>1
<1>7. Grows(u, v) /\ OrderInv(v) /\ Says(v, <<>>)
  BY <1>0, <1>2, Messages DEF Grows, OrderInv, Says
<1>8. Step(d, <<>>)
  <2>1. Coming(d)' = Coming(d) /\ Coming(o)' = Coming(o)
    BY DEF Coming
  <2>2. Told(d)' = Told(d) /\ Told(o)' = Told(o)
    BY <1>2, <1>4, <2>1 DEF Told
  <2>3. Whole' => Whole
    BY <1>5 DEF Whole
  <2> QED BY <1>4, <1>5, <1>7, <2>1, <2>2, <2>3 DEF Step
<1>9. Rooms(d)
  <2>1. room' = room /\ dev'[d].phase = u.phase /\ dev'[d].online = u.online
    BY <1>2, <1>4
  <2>2. faults = 0 => /\ u.phase = "failed" => room = "closed"
                      /\ u.phase \notin {"failed", "join"} => u.online
    BY <1>0 DEF RoomInv
  <2> QED BY <1>5, <2>1, <2>2 DEF Rooms
<1>10. TypeOK'
  BY <1>0, <1>4, <1>5, <1>6 DEF TypeOK
<1>11. DecidedInv(d)'
  BY <1>0, <1>2, <1>4, <1>8, DecidedSame
<1>12. FramesInv'
  <2>1. d = "sender" /\ dev'[d].kex = "done" => match
    BY <1>0, <1>2, <1>4 DEF FramesInv
  <2>2. Taking(dev'[d]) => Taking(dev[d])
    BY <1>2, <1>4 DEF Taking
  <2>3. Frames \cap Range(<<>>) = {}
    BY Messages
  <2> QED BY <1>0, <1>6, <1>8, <2>1, <2>2, <2>3, FramesKept
<1> QED BY <1>4, <1>7, <1>8, <1>9, <1>10, <1>11, <1>12, Combined

\* After a fault that changes sockets and the room only.
LEMMA LostKept ==
    ASSUME SetupInv, NEW d \in Devices, faults < MaxFaults, faults' = faults + 1,
           dev' = dev \/ dev' = [dev EXCEPT ![d].online = FALSE],
           toward' \in [Devices -> Seq(Events)],
           \A e \in Devices : Coming(e)' \subseteq Coming(e) \cup {"peer-left"},
           room' = "closed", UNCHANGED <<pipe, match, expired, dropped>>
    PROVE  SetupInv'
<1> DEFINE u == dev[d]
           o == Other(d)
<1>0. /\ TypeOK /\ FramesInv /\ DecidedInv(d) /\ OrderInv(u)
      /\ OrderInv(dev["receiver"])
      /\ o \in Devices /\ o # d /\ u \in Device
      /\ dev \in [Devices -> Device]
      /\ faults \in Nat /\ MaxFaults \in Nat
  BY Others, SessionAssumption DEF SetupInv, TypeOK, Devices
<1>1. PICK v \in Device : /\ dev' = [dev EXCEPT ![d] = v]
                          /\ v.phase = u.phase /\ v.kex = u.kex /\ v.attempt = u.attempt
                          /\ v.link = u.link /\ v.heard = u.heard /\ v.inbox = u.inbox
                          /\ v.pump = u.pump
  <2>1. CASE dev' = dev
    <3>1. dev' = [dev EXCEPT ![d] = u]
      BY <1>0, <2>1
    <3> QED BY <1>0, <3>1
  <2>2. CASE dev' = [dev EXCEPT ![d].online = FALSE]
    <3> DEFINE v == [u EXCEPT !.online = FALSE]
    <3>1. dev' = [dev EXCEPT ![d] = v]
      BY <2>2
    <3>2. /\ v \in Device
          /\ v.phase = u.phase /\ v.kex = u.kex /\ v.attempt = u.attempt
          /\ v.link = u.link /\ v.heard = u.heard /\ v.inbox = u.inbox /\ v.pump = u.pump
      BY <1>0 DEF Device
    <3> QED BY <3>1, <3>2
  <2> QED BY <2>1, <2>2
<1>2. dev' \in [Devices -> Device] /\ dev'[d] = v /\ dev'[o] = dev[o]
  BY <1>0, <1>1
<1>3. faults' \in 0..MaxFaults /\ faults' # 0
  BY <1>0
<1>4. Grows(u, v) /\ OrderInv(v) /\ Says(v, <<>>)
  BY <1>0, <1>1, Messages DEF Grows, OrderInv, Says
<1>5. Step(d, <<>>)
  <2>1. /\ Coming(d)' \subseteq Coming(d) \cup {"peer-left"}
        /\ Coming(o)' \subseteq Coming(o) \cup {"peer-left"}
    BY <1>0
  <2>2. /\ Told(d)' \subseteq Told(d) \cup {"peer-left"}
        /\ Told(o)' \subseteq Told(o) \cup {"peer-left"}
    BY <1>1, <1>2, <2>1 DEF Told
  <2>3. ~Whole'
    BY <1>3 DEF Whole
  <2> QED BY <1>2, <1>3, <1>4, <2>1, <2>2, <2>3 DEF Step
<1>6. Rooms(d)
  BY <1>3 DEF Rooms
<1>7. TypeOK'
  BY <1>0, <1>2, <1>3 DEF TypeOK
<1>8. DecidedInv(d)'
  BY <1>0, <1>1, <1>2, <1>5, DecidedSame
<1>9. FramesInv'
  <2>1. d = "sender" /\ dev'[d].kex = "done" => match
    BY <1>0, <1>1, <1>2 DEF FramesInv
  <2>2. Taking(dev'[d]) => Taking(dev[d])
    BY <1>1, <1>2 DEF Taking
  <2>3. Frames \cap Range(<<>>) = {}
    BY Messages
  <2> QED BY <1>0, <1>5, <2>1, <2>2, <2>3, FramesKept
<1> QED BY <1>2, <1>4, <1>5, <1>6, <1>7, <1>8, <1>9, Combined

LEMMA FaultsKept ==
    ASSUME SetupInv, Faults
    PROVE  SetupInv'
<1>0. /\ "receiver" \in Devices /\ \A d \in Devices : Other(d) \in Devices /\ Other(d) # d
      /\ toward \in [Devices -> Seq(Events)] /\ "peer-left" \in Events
  BY Others, PeerLeft DEF SetupInv, TypeOK, Devices
<1>1. ASSUME NEW d \in Devices, ChannelLost(d)
      PROVE  SetupInv'
  BY <1>1, ClosedKept DEF ChannelLost
<1>2. ASSUME NEW d \in Devices, SocketLost(d)
      PROVE  SetupInv'
  <2> DEFINE o == Other(d)
  <2>1. PICK n \in 0..Len(toward[o]) :
          toward' = [toward EXCEPT ![d] = <<>>,
                       ![o] = IF room = "open" /\ dev[o].online
                              THEN Append(SubSeq(@, 1, n), "peer-left") ELSE @]
    BY <1>2 DEF SocketLost
  <2> DEFINE cut == Append(SubSeq(toward[o], 1, n), "peer-left")
  <2>2. cut \in Seq(Events) /\ Range(cut) \subseteq Coming(o) \cup {"peer-left"}
    <3> DEFINE kept == SubSeq(toward[o], 1, n)
    <3>0. toward[o] \in Seq(Events)
      BY <1>0
    <3>1. kept \in Seq(Events) /\ Range(kept) \subseteq Range(toward[o])
      BY <2>1, <3>0, RangeCut
    <3> HIDE DEF kept
    <3>2. /\ Append(kept, "peer-left") \in Seq(Events)
          /\ Range(Append(kept, "peer-left")) = Range(kept) \cup {"peer-left"}
      BY <1>0, <3>1, RangeAppended
    <3>3. cut = Append(kept, "peer-left")
      BY DEF kept
    <3> HIDE DEF cut
    <3> QED BY <3>1, <3>2, <3>3 DEF Coming
  <2>3. toward' = [toward EXCEPT ![d] = <<>>,
                     ![o] = IF room = "open" /\ dev[o].online THEN cut ELSE toward[o]]
    BY <1>0, <2>1
  <2> HIDE DEF cut
  <2>4. /\ toward' \in [Devices -> Seq(Events)] /\ toward'[d] = <<>>
        /\ toward'[o] = cut \/ toward'[o] = toward[o]
    BY <1>0, <2>2, <2>3, Messages
  <2>5. /\ Coming(d)' \subseteq Coming(d) \cup {"peer-left"}
        /\ Coming(o)' \subseteq Coming(o) \cup {"peer-left"}
    BY <2>2, <2>4, RangeNone DEF Coming
  <2>6. \A e \in Devices : Coming(e)' \subseteq Coming(e) \cup {"peer-left"}
    BY <2>5, Others
  <2>7. /\ faults < MaxFaults /\ faults' = faults + 1 /\ room' = "closed"
        /\ dev' = [dev EXCEPT ![d].online = FALSE]
        /\ UNCHANGED <<pipe, match, expired, dropped>>
    BY <1>2 DEF SocketLost
  <2> QED BY <2>4, <2>6, <2>7, LostKept
<1>3. CASE RoomCloses
  <2>1. ASSUME NEW e \in Devices
        PROVE  /\ toward'[e] \in Seq(Events)
               /\ Coming(e)' \subseteq Coming(e) \cup {"peer-left"}
    <3>1. /\ Append(toward[e], "peer-left") \in Seq(Events)
          /\ Range(Append(toward[e], "peer-left")) = Range(toward[e]) \cup {"peer-left"}
      BY <1>0, RangeAppended
    <3>2. toward'[e] = Append(toward[e], "peer-left") \/ toward'[e] = toward[e]
      BY <1>3 DEF RoomCloses
    <3> QED BY <1>0, <3>1, <3>2 DEF Coming
  <2>2. toward' \in [Devices -> Seq(Events)]
    BY <1>3, <2>1 DEF RoomCloses
  <2> QED BY <1>0, <1>3, <2>1, <2>2, LostKept DEF RoomCloses
<1> QED BY <1>1, <1>2, <1>3 DEF Faults

LEMMA ClosesKept ==
    ASSUME SetupInv, NEW d \in Devices, ChannelCloses(d)
    PROVE  SetupInv'
BY ClosedKept DEF ChannelCloses, Quiet

----------------------------------------------------------------------------
(* The theorems *)

LEMMA SetupInit ==
    ASSUME Init
    PROVE  SetupInv
<1>0. /\ <<>> \in Seq(Events) /\ <<>> \in Seq(Frames) /\ Range(<<>>) = {}
      /\ MaxFaults \in Nat /\ "sender" \in Devices /\ "receiver" \in Devices
  BY EmptySeq, Messages, SessionAssumption DEF Devices
<1>1. \A d \in Devices : /\ dev[d] \in Device
                         /\ dev[d].phase \in {"derive", "join"} /\ dev[d].kex = "off"
                         /\ dev[d].attempt = "idle" /\ dev[d].link = "none"
                         /\ dev[d].pump = "none" /\ dev[d].inbox = <<>> /\ dev[d].heard = {}
                         /\ dev[d].phase # "join" => dev[d].online = TRUE
  <2>1. NewDevice \in Device
    BY <1>0 DEF NewDevice, Device
  <2>2. [NewDevice EXCEPT !.phase = "join", !.online = FALSE] \in Device
    BY <2>1, Updates
  <2>3. dev["sender"] = NewDevice
        /\ dev["receiver"] = [NewDevice EXCEPT !.phase = "join", !.online = FALSE]
    BY <1>0 DEF Init
  <2>4. \A d \in Devices : d = "sender" \/ d = "receiver"
    BY DEF Devices
  <2>5. ASSUME NEW v, v = NewDevice \/ v = [NewDevice EXCEPT !.phase = "join", !.online = FALSE]
        PROVE  /\ v.phase \in {"derive", "join"} /\ v.kex = "off"
               /\ v.attempt = "idle" /\ v.link = "none"
               /\ v.pump = "none" /\ v.inbox = <<>> /\ v.heard = {}
               /\ v.phase # "join" => v.online = TRUE
    <3>1. CASE v = NewDevice
      BY <3>1 DEF NewDevice
    <3>2. CASE v = [NewDevice EXCEPT !.phase = "join", !.online = FALSE]
      BY <3>2 DEF NewDevice
    <3> QED BY <2>5, <3>1, <3>2
  <2>6. dev["sender"] \in Device /\ dev["receiver"] \in Device
    BY <2>1, <2>2, <2>3
  <2> QED BY <2>3, <2>4, <2>5, <2>6
<1>2. /\ dev \in [Devices -> Device]
      /\ toward \in [Devices -> Seq(Events)] /\ pipe = <<>> /\ room = "open"
      /\ match \in BOOLEAN /\ faults = 0 /\ expired = FALSE /\ dropped = {}
      /\ \A d \in Devices : Coming(d) = {}
  <2>1. dev = [d \in Devices |-> dev[d]]
    BY DEF Init
  <2>2. \A d \in Devices : toward[d] = <<>>
    BY DEF Init
  <2> QED BY <1>0, <1>1, <2>1, <2>2 DEF Init, Coming
<1>3. TypeOK
  <2>1. faults \in 0..MaxFaults
    BY <1>0, <1>2
  <2>2. pipe \in Seq(Frames) /\ dropped \subseteq Frames /\ expired \in BOOLEAN
    BY <1>0, <1>2
  <2> QED BY <1>2, <2>1, <2>2 DEF TypeOK
<1>4. ASSUME NEW d \in Devices
      PROVE  OrderInv(dev[d]) /\ ToldInv(d) /\ DecidedInv(d)
  <2>1. OrderInv(dev[d])
    BY <1>1 DEF OrderInv
  <2>2. ToldInv(d) /\ DecidedInv(d)
    BY <1>1, <1>2 DEF ToldInv, DecidedInv, Told
  <2> QED BY <2>1, <2>2
<1>5. RoomInv
  BY <1>1, <1>2 DEF RoomInv
<1>6. FramesInv
  BY <1>0, <1>1, <1>2 DEF FramesInv, Taking
<1> QED BY <1>3, <1>4, <1>5, <1>6 DEF SetupInv

LEMMA SetupStep ==
    ASSUME SetupInv, [Next]_vars
    PROVE  SetupInv'
<1>1. CASE UNCHANGED vars
  <2>1. /\ dev' = dev /\ toward' = toward /\ pipe' = pipe /\ room' = room /\ match' = match
        /\ faults' = faults /\ expired' = expired /\ dropped' = dropped
    BY <1>1 DEF vars
  <2> QED BY <2>1 DEF SetupInv, TypeOK, ToldInv, Told, Coming, DecidedInv, Whole, RoomInv,
                      FramesInv, FrameOn
<1>2. CASE Opening
  BY <1>2, OpeningKept, JoinedKept, JoinRefusedKept DEF Opening
<1>3. CASE Handshake
  BY <1>3, HandshakeKept, TimeoutsKept DEF Handshake
<1>4. CASE Linking
  BY <1>4, AttemptKept, LinkKept DEF Linking
<1>5. CASE Starting
  BY <1>5, CreatedKept, SendsKept, TakenKept, TimeoutsKept DEF Starting
<1>6. CASE Hearing
  BY <1>6, DeliveredKept, SignalKept, ClosesKept DEF Hearing
<1>7. CASE Faults
  BY <1>7, FaultsKept
<1> QED BY <1>1, <1>2, <1>3, <1>4, <1>5, <1>6, <1>7 DEF Next

\* The strengthening that the theorems below rest on: what a device was told of
\* the other is so, and what it decided follows from what both came to.
THEOREM SetupHolds == Spec => []SetupInv
<1>1. Init => SetupInv
  BY SetupInit
<1>2. SetupInv /\ [Next]_vars => SetupInv'
  BY SetupStep
<1> QED BY <1>1, <1>2, PTL DEF Spec

\* Every variable of the setup keeps its type, for any number of losses.
THEOREM SessionTypesCorrect == Spec => []TypeOK
<1>1. SetupInv => TypeOK
  BY DEF SetupInv
<1> QED BY <1>1, SetupHolds, PTL

\* "make sure both devices reach the same answer" (link.ts:180): two devices that
\* are both still in the session never end on different links, while nothing was
\* lost and no report was late.
THEOREM LinksAgreed == Spec => []LinksAgree
<1>1. ASSUME SetupInv, Whole,
             \A d \in Devices : InSession(d) /\ dev[d].link \in {"p2p", "relay"}
      PROVE  dev["sender"].link = dev["receiver"].link
  <2>1. /\ OrderInv(dev["sender"]) /\ OrderInv(dev["receiver"])
        /\ DecidedInv("sender") /\ DecidedInv("receiver")
        /\ Other("sender") = "receiver" /\ Other("receiver") = "sender"
    BY <1>1, Others DEF SetupInv, Devices
  <2>2. \A d \in Devices : dev[d].phase # "failed"
    BY <1>1 DEF InSession
  <2>3. /\ dev["sender"].phase # "failed" /\ dev["receiver"].phase # "failed"
        /\ dev["sender"].link \in {"p2p", "relay"} /\ dev["receiver"].link \in {"p2p", "relay"}
    BY <1>1, <2>2 DEF Devices
  <2> QED BY <1>1, <2>1, <2>3 DEF DecidedInv
<1>2. SetupInv => LinksAgree
  BY <1>1 DEF LinksAgree
<1> QED BY <1>2, SetupHolds, PTL

\* The sender's first frame waits for "receiver-attached" (liveSend.ts:107), so no
\* frame arrives where nobody listens, while nothing was lost or late.
THEOREM NoFrameDropped == Spec => []NothingDropped
<1>1. SetupInv => NothingDropped
  BY DEF SetupInv, FramesInv, NothingDropped
<1> QED BY <1>1, SetupHolds, PTL

\* However much is lost or late, the receiver takes a payload only from a sender
\* that passed the handshake, on the link both use (kex.ts:326-329).
THEOREM PayloadFromPeer == Spec => []PayloadTrusted
<1>1. ASSUME SetupInv, dev["receiver"].phase \in {"meta", "transfer"}
      PROVE  /\ match
             /\ \A d \in Devices : dev[d].kex = "done"
             /\ dev["sender"].link = dev["receiver"].link
  <2>1. FramesInv /\ OrderInv(dev["receiver"])
    BY <1>1 DEF SetupInv, Devices
  <2>2. Taking(dev["receiver"])
    BY <1>1 DEF Taking
  <2> QED BY <2>1, <2>2 DEF FramesInv, OrderInv, Devices
<1>2. SetupInv => PayloadTrusted
  BY <1>1 DEF PayloadTrusted
<1> QED BY <1>2, SetupHolds, PTL

----------------------------------------------------------------------------
(* Who is told that the passphrases differ *)

\* The abort comes before the news of the end.
Tells(s) == \E i \in 1..Len(s) : s[i] = "kex-abort" /\ \A j \in 1..i : s[j] # "peer-left"

\* The receiver has heard of the abort, or will before it hears of the end.
Warned == "kex-abort" \in dev["receiver"].heard \/ Tells(toward["receiver"])

\* A device that reports a wrong passphrase is right, and what d was told of the
\* handshake is so.
SaidOf(d) ==
    /\ dev[d].reason = "auth" => ~match
    /\ dev[d].reason # "none" => dev[d].phase = "failed"
    /\ "kex-abort" \in Told(d) => dev[Other(d)].reason = "auth"
    /\ "confirm" \in Told(d) => match
    /\ "response" \in Told(d) /\ d = "sender" => dev["receiver"].kex \in {"confirm", "done"}

\* Where the two handshakes can be.
StepsInv ==
    LET r == dev["receiver"] IN
    /\ dev["sender"].kex \in {"off", "response", "done"}
    /\ r.kex # "response"
    /\ r.kex \in {"hello", "derive", "confirm"} => r.phase \in {"both", "failed"}
    /\ r.kex = "done" => match
    /\ r.phase = "both" => r.kex # "off"

\* The sender finds a wrong passphrase first, and the receiver, which waits for the
\* confirmation meanwhile, is told.
BlameInv ==
    LET s == dev["sender"]  r == dev["receiver"] IN
    /\ r.reason = "auth" => s.reason = "auth"
    /\ Whole /\ ~match /\ r.phase = "failed" => s.phase = "failed"
    /\ Whole /\ s.reason = "auth" =>
          \/ r.reason = "auth"
          \/ r.phase = "both" /\ r.kex = "confirm" /\ Warned

AuthInv == (\A d \in Devices : SaidOf(d)) /\ StepsInv /\ BlameInv

LEMMA TellsAppended ==
    ASSUME NEW s \in Seq(Events), NEW t \in Seq(Events), Tells(s)
    PROVE  Tells(s \o t)
<1>1. /\ Len(s \o t) = Len(s) + Len(t) /\ Len(s) \in Nat /\ Len(t) \in Nat
      /\ \A i \in 1..Len(s) : (s \o t)[i] = s[i]
  BY ConcatProperties, LenProperties
<1>2. PICK i \in 1..Len(s) : s[i] = "kex-abort" /\ \A j \in 1..i : s[j] # "peer-left"
  BY DEF Tells
<1>3. i \in 1..Len(s \o t) /\ \A j \in 1..i : j \in 1..Len(s)
  BY <1>1
<1>4. (s \o t)[i] = "kex-abort" /\ \A j \in 1..i : (s \o t)[j] # "peer-left"
  BY <1>1, <1>2, <1>3
<1> QED BY <1>3, <1>4 DEF Tells

LEMMA TellsTaken ==
    ASSUME NEW s \in Seq(Events), Tells(s)
    PROVE  /\ s # <<>> /\ Head(s) # "peer-left"
           /\ Head(s) = "kex-abort" \/ Tells(Tail(s))
<1>1. PICK i \in 1..Len(s) : s[i] = "kex-abort" /\ \A j \in 1..i : s[j] # "peer-left"
  BY DEF Tells
<1>2. Len(s) \in Nat /\ Len(s) # 0 /\ s # <<>>
  BY <1>1, LenProperties, EmptySeq
<1>3. /\ Head(s) = s[1] /\ Len(Tail(s)) = Len(s) - 1
      /\ \A k \in 1..Len(Tail(s)) : Tail(s)[k] = s[k + 1]
  BY <1>2, HeadTailProperties
<1>4. Head(s) # "peer-left"
  BY <1>1, <1>2, <1>3
<1>5. CASE i = 1
  BY <1>1, <1>2, <1>3, <1>4, <1>5
<1>6. CASE i # 1
  <2>1. i - 1 \in 1..Len(Tail(s)) /\ (i - 1) + 1 = i
    BY <1>1, <1>2, <1>3, <1>6
  <2>2. Tail(s)[i - 1] = "kex-abort"
    BY <1>1, <1>3, <2>1
  <2>3. ASSUME NEW j \in 1..i - 1
        PROVE  Tail(s)[j] # "peer-left"
    <3>1. j \in 1..Len(Tail(s)) /\ j + 1 \in 1..i
      BY <1>1, <1>2, <1>3, <2>1
    <3> QED BY <1>1, <1>3, <3>1
  <2> QED BY <1>2, <1>4, <2>1, <2>2, <2>3 DEF Tells
<1> QED BY <1>5, <1>6

LEMMA RangeHas ==
    ASSUME NEW S, NEW s \in Seq(S), NEW i \in 1..Len(s)
    PROVE  s[i] \in Range(s)
<1>1. Range(s) = {s[j] : j \in 1..Len(s)}
  BY RangeEquality
<1> QED BY <1>1

LEMMA TellsNew ==
    ASSUME NEW s \in Seq(Events), "peer-left" \notin Range(s)
    PROVE  Tells(s \o (<<"kex-abort">> \o <<"peer-left">>))
<1> DEFINE a == <<"kex-abort">>
           t == a \o <<"peer-left">>
<1>1. a \in Seq(Events) /\ Len(a) = 1 /\ a[1] = "kex-abort"
      /\ <<"peer-left">> \in Seq(Events) /\ Len(<<"peer-left">>) = 1
  BY DEF Events, Signals
<1> HIDE DEF a
<1>3. t \in Seq(Events) /\ Len(t) = 2 /\ t[1] = "kex-abort"
  <2>1. /\ t \in Seq(Events) /\ Len(t) = Len(a) + Len(<<"peer-left">>)
        /\ \A i \in 1..Len(a) + Len(<<"peer-left">>) :
             t[i] = IF i <= Len(a) THEN a[i] ELSE <<"peer-left">>[i - Len(a)]
    BY <1>1, ConcatProperties
  <2> HIDE DEF t
  <2>2. Len(t) = 2 /\ 1 \in 1..Len(a) + Len(<<"peer-left">>) /\ 1 <= Len(a)
    BY <1>1, <2>1
  <2> QED BY <1>1, <2>1, <2>2
<1> HIDE DEF t
<1>4. /\ Len(s \o t) = Len(s) + 2 /\ Len(s) \in Nat
      /\ \A i \in 1..Len(s) : (s \o t)[i] = s[i]
      /\ (s \o t)[Len(s) + 1] = "kex-abort"
  <2>1. /\ Len(s \o t) = Len(s) + Len(t) /\ Len(s) \in Nat
        /\ \A i \in 1..Len(s) + Len(t) :
             (s \o t)[i] = IF i <= Len(s) THEN s[i] ELSE t[i - Len(s)]
    BY <1>3, ConcatProperties, LenProperties
  <2>2. Len(s) + 1 \in 1..Len(s) + Len(t) /\ ~(Len(s) + 1 <= Len(s))
        /\ (Len(s) + 1) - Len(s) = 1 /\ \A i \in 1..Len(s) : i \in 1..Len(s) + Len(t) /\ i <= Len(s)
    BY <1>3, <2>1
  <2> QED BY <1>3, <2>1, <2>2
<1>5. \A j \in 1..Len(s) : s[j] # "peer-left"
  BY RangeHas
<1>6. Len(s) + 1 \in 1..Len(s \o t) /\ \A j \in 1..Len(s) + 1 : j \in 1..Len(s) \/ j = Len(s) + 1
  BY <1>4
<1>7. \A j \in 1..Len(s) + 1 : (s \o t)[j] # "peer-left"
  BY <1>4, <1>5, <1>6
<1>8. Tells(s \o t)
  BY <1>4, <1>6, <1>7 DEF Tells
<1> QED BY <1>8 DEF t, a

----------------------------------------------------------------------------
(* The shape of a step, as far as the passphrase goes *)

\* A step of d, and what it says.
AuthStep(d, ms) ==
    LET o == Other(d) IN
    /\ dev'[o] = dev[o] /\ match' = match /\ (Whole' => Whole)
    /\ Told(d)' \subseteq Told(d) \cup {"peer-left"}
    /\ Told(o)' \subseteq Told(o) \cup Range(ms) \cup {"peer-left"}
    /\ Whole' /\ dev["receiver"].phase = "both" /\ dev'["receiver"].phase = "both" /\ Warned
         => Warned'

\* What v says of the handshake is so.
Truly(v, ms) ==
    /\ "kex-abort" \in Range(ms) => v.reason = "auth"
    /\ "confirm" \in Range(ms) => match
    /\ "response" \in Range(ms) => v.kex \in {"confirm", "done"}

\* A device that goes on: the sender, the receiver in its tasks, or after them.
GoesOn(d, u, v) ==
    /\ v.reason = u.reason
    /\ v.phase = "failed" <=> u.phase = "failed"
    /\ d = "sender" => v.kex \in {"off", "response", "done"}
    /\ d = "receiver" =>
         \/ /\ v.kex = u.kex
            /\ v.phase = u.phase \/ (v.phase # "both" /\ (u.phase # "both" \/ u.kex = "done"))
         \/ /\ v.phase = "both" /\ v.kex \in {"hello", "derive", "confirm", "done"}
            /\ u.kex \in {"confirm", "done"} => v.kex \in {"confirm", "done"}
            /\ v.kex = "done" => match

\* A device that fails, and when it may.
GivesUp(d, u, v) ==
    /\ u.phase # "failed" /\ v.phase = "failed" /\ v.kex = u.kex
    /\ v.reason # "none" /\ (v.reason = "auth" => ~match)
    /\ d = "sender" /\ v.reason = "auth" =>
         (Whole' => dev["receiver"].phase = "both" /\ dev["receiver"].kex = "confirm" /\ Warned')
    /\ d = "receiver" /\ v.reason = "auth" => dev["sender"].reason = "auth"
    /\ d = "receiver" /\ v.reason # "auth" =>
         \/ match \/ ~Whole'
         \/ dev["sender"].reason # "auth" /\ dev["sender"].phase = "failed"

LEMMA SaidKept ==
    ASSUME AuthInv, NEW d \in Devices, NEW ms, AuthStep(d, ms), Truly(dev'[d], ms),
           dev'[d].reason = dev[d].reason \/ dev[d].reason = "none",
           dev'[d].reason = "auth" => ~match,
           dev'[d].reason # "none" => dev'[d].phase = "failed",
           d = "receiver" /\ dev[d].kex \in {"confirm", "done"} => dev'[d].kex \in {"confirm", "done"}
    PROVE  \A e \in Devices : SaidOf(e)'
<1>0. /\ Other(d) \in Devices /\ Other(Other(d)) = d /\ \A e \in Devices : e = d \/ e = Other(d)
      /\ SaidOf(d) /\ SaidOf(Other(d)) /\ match' = match /\ dev'[Other(d)] = dev[Other(d)]
      /\ d = "sender" \/ d = "receiver"
      /\ Other("sender") = "receiver" /\ Other("receiver") = "sender"
  BY Others DEF AuthInv, AuthStep, Devices
<1>1. SaidOf(d)'
  <2>1. /\ "kex-abort" \in Told(d)' => "kex-abort" \in Told(d)
        /\ "confirm" \in Told(d)' => "confirm" \in Told(d)
        /\ "response" \in Told(d)' => "response" \in Told(d)
    BY DEF AuthStep
  <2> QED BY <1>0, <2>1 DEF SaidOf
<1>2. SaidOf(Other(d))'
  <2>1. /\ "kex-abort" \in Told(Other(d))' => "kex-abort" \in Told(Other(d)) \/ "kex-abort" \in Range(ms)
        /\ "confirm" \in Told(Other(d))' => "confirm" \in Told(Other(d)) \/ "confirm" \in Range(ms)
        /\ "response" \in Told(Other(d))' => "response" \in Told(Other(d)) \/ "response" \in Range(ms)
    BY DEF AuthStep
  <2>2. dev[d].reason = "auth" => dev'[d].reason = "auth"
    OBVIOUS
  <2>3. "kex-abort" \in Told(Other(d))' => dev'[Other(Other(d))].reason = "auth"
    BY <1>0, <2>1, <2>2 DEF SaidOf, Truly
  <2>4. "confirm" \in Told(Other(d))' => match'
    BY <1>0, <2>1 DEF SaidOf, Truly
  <2>5. "response" \in Told(Other(d))' /\ Other(d) = "sender" => dev'["receiver"].kex \in {"confirm", "done"}
    <3>1. Other(d) = "sender" => d = "receiver"
      BY <1>0
    <3> QED BY <1>0, <2>1, <3>1 DEF SaidOf, Truly
  <2>6. /\ dev'[Other(d)].reason = "auth" => ~match'
        /\ dev'[Other(d)].reason # "none" => dev'[Other(d)].phase = "failed"
    BY <1>0 DEF SaidOf
  <2> QED BY <2>3, <2>4, <2>5, <2>6 DEF SaidOf
<1> QED BY <1>0, <1>1, <1>2

LEMMA GoingOn ==
    ASSUME AuthInv, NEW d \in Devices, NEW ms, AuthStep(d, ms), Truly(dev'[d], ms),
           GoesOn(d, dev[d], dev'[d])
    PROVE  AuthInv'
<1>0. /\ d = "sender" \/ d = "receiver"
      /\ Other("sender") = "receiver" /\ Other("receiver") = "sender"
      /\ SaidOf("sender") /\ SaidOf("receiver") /\ SaidOf(d) /\ StepsInv /\ BlameInv
      /\ match' = match /\ dev'[Other(d)] = dev[Other(d)] /\ (Whole' => Whole)
  BY Others DEF AuthInv, AuthStep, Devices
<1>1. \A e \in Devices : SaidOf(e)'
  <2>1. d = "receiver" /\ dev[d].kex \in {"confirm", "done"} => dev'[d].kex \in {"confirm", "done"}
    BY DEF GoesOn
  <2>2. /\ dev'[d].reason = dev[d].reason
        /\ dev'[d].reason = "auth" => ~match
        /\ dev'[d].reason # "none" => dev'[d].phase = "failed"
    BY <1>0 DEF GoesOn, SaidOf
  <2> QED BY <2>1, <2>2, SaidKept
<1>2. StepsInv'
  BY <1>0 DEF StepsInv, GoesOn
<1>3. BlameInv'
  <2>1. /\ dev'["receiver"].reason = dev["receiver"].reason
        /\ dev'["sender"].reason = dev["sender"].reason
        /\ dev'["receiver"].phase = "failed" <=> dev["receiver"].phase = "failed"
        /\ dev'["sender"].phase = "failed" <=> dev["sender"].phase = "failed"
    BY <1>0 DEF GoesOn
  <2>2. ASSUME Whole', dev["sender"].reason = "auth", dev["receiver"].reason # "auth"
        PROVE  dev'["receiver"].phase = "both" /\ dev'["receiver"].kex = "confirm" /\ Warned'
    <3>1. dev["receiver"].phase = "both" /\ dev["receiver"].kex = "confirm" /\ Warned /\ ~match
      BY <1>0, <2>2 DEF BlameInv, SaidOf
    <3>2. dev'["receiver"].phase = "both" /\ dev'["receiver"].kex = "confirm"
      BY <1>0, <3>1 DEF GoesOn
    <3> QED BY <2>2, <3>1, <3>2 DEF AuthStep
  <2> QED BY <1>0, <2>1, <2>2 DEF BlameInv
<1> QED BY <1>1, <1>2, <1>3 DEF AuthInv

LEMMA GivingUp ==
    ASSUME AuthInv, NEW d \in Devices, NEW ms, AuthStep(d, ms), Truly(dev'[d], ms),
           GivesUp(d, dev[d], dev'[d])
    PROVE  AuthInv'
<1>0. /\ d = "sender" \/ d = "receiver"
      /\ Other("sender") = "receiver" /\ Other("receiver") = "sender"
      /\ SaidOf("sender") /\ SaidOf("receiver") /\ SaidOf(d) /\ StepsInv /\ BlameInv
      /\ match' = match /\ dev'[Other(d)] = dev[Other(d)] /\ (Whole' => Whole)
  BY Others DEF AuthInv, AuthStep, Devices
<1>r. dev[d].reason = "none"
  BY <1>0 DEF SaidOf, GivesUp
<1>1. \A e \in Devices : SaidOf(e)'
  BY <1>r, SaidKept DEF GivesUp
<1>2. StepsInv'
  BY <1>0 DEF StepsInv, GivesUp
<1>3. BlameInv'
  <2>1. CASE d = "sender"
    <3>1. dev'["receiver"] = dev["receiver"] /\ dev'["sender"].phase = "failed"
      BY <1>0, <2>1 DEF GivesUp
    <3>2. dev["receiver"].reason # "auth"
      BY <1>0, <1>r, <2>1 DEF BlameInv
    <3>3. Whole' /\ dev'["sender"].reason = "auth" =>
            dev["receiver"].phase = "both" /\ dev["receiver"].kex = "confirm" /\ Warned'
      BY <2>1 DEF GivesUp
    <3> QED BY <3>1, <3>2, <3>3 DEF BlameInv
  <2>2. CASE d = "receiver"
    <3>1. /\ dev'["sender"] = dev["sender"] /\ dev'["receiver"].phase = "failed"
          /\ dev["receiver"].phase # "failed" /\ dev["receiver"].reason = "none"
      BY <1>0, <1>r, <2>2 DEF GivesUp
    <3>2. CASE dev'["receiver"].reason = "auth"
      <4>1. dev["sender"].reason = "auth" /\ dev["sender"].phase = "failed"
        BY <1>0, <2>2, <3>2 DEF GivesUp, SaidOf
      <4> QED BY <3>1, <3>2, <4>1 DEF BlameInv
    <3>3. CASE dev'["receiver"].reason # "auth"
      <4>1. \/ match \/ ~Whole'
            \/ dev["sender"].reason # "auth" /\ dev["sender"].phase = "failed"
        BY <2>2, <3>3 DEF GivesUp
      <4>2. match => dev["sender"].reason # "auth"
        BY <1>0 DEF SaidOf
      <4> QED BY <1>0, <3>1, <3>3, <4>1, <4>2 DEF BlameInv
    <3> QED BY <3>2, <3>3
  <2> QED BY <1>0, <2>1, <2>2
<1> QED BY <1>1, <1>2, <1>3 DEF AuthInv

----------------------------------------------------------------------------
(* Each step has this shape *)

LEMMA PostedTells ==
    ASSUME TypeOK, NEW d \in Devices, NEW ms \in Seq(Events), Tells(toward[Other(d)])
    PROVE  Tells(Posts(d, ms)[Other(d)])
<1>1. /\ toward \in [Devices -> Seq(Events)] /\ Other(d) \in Devices
      /\ toward[Other(d)] \in Seq(Events)
  BY Others DEF TypeOK
<1>2. Tells(toward[Other(d)] \o ms)
  BY <1>1, TellsAppended
<1>3. \/ Posts(d, ms)[Other(d)] = toward[Other(d)] \o ms
      \/ Posts(d, ms)[Other(d)] = toward[Other(d)]
  BY <1>1 DEF Posts
<1> QED BY <1>2, <1>3

LEMMA AuthBecomes ==
    ASSUME SetupInv, NEW d \in Devices, NEW v \in Device, NEW ms \in Seq(Events),
           Becomes(d, v, ms), v.heard = dev[d].heard,
           faults' = faults, match' = match, expired => expired'
    PROVE  AuthStep(d, ms) /\ Same(dev'[d], v)
<1> DEFINE o == Other(d)
<1>0. /\ TypeOK /\ o \in Devices /\ o # d /\ "receiver" \in Devices
      /\ dev \in [Devices -> Device] /\ toward \in [Devices -> Seq(Events)]
      /\ (Whole' => Whole)
      /\ d = "receiver" \/ o = "receiver"
  BY Others DEF SetupInv, TypeOK, Devices, Whole
<1>1. /\ dev'[o] = dev[o] /\ Same(dev'[d], v)
      /\ Coming(d)' \subseteq Coming(d)
      /\ Coming(o)' \subseteq Coming(o) \cup Range(ms) \cup {"peer-left"}
      /\ v.phase # "failed" => toward'[d] = toward[d]
      /\ Tells(toward[o]) => Tells(toward'[o])
  <2>1. CASE v.phase = "failed" /\ dev[d].phase # "failed"
    <3>1. Leaves(d, v, ms)
      BY <2>1 DEF Becomes
    <3>2. ms \o <<"peer-left">> \in Seq(Events)
      BY PeerLeft, RangeJoined
    <3>3. /\ toward' = [Posts(d, ms \o <<"peer-left">>) EXCEPT ![d] = <<>>]
          /\ Posts(d, ms \o <<"peer-left">>) \in [Devices -> Seq(Events)]
      BY <1>0, <3>1, <3>2, Posted DEF Leaves
    <3>4. toward'[o] = Posts(d, ms \o <<"peer-left">>)[o]
      BY <1>0, <3>3
    <3>5. Tells(toward[o]) => Tells(toward'[o])
      BY <1>0, <3>2, <3>4, PostedTells
    <3>6. /\ dev'[o] = dev[o] /\ Same(dev'[d], v) /\ Coming(d)' = {}
          /\ Coming(o)' \subseteq Coming(o) \cup Range(ms) \cup {"peer-left"}
      BY <1>0, <3>1, Leaving
    <3> QED BY <2>1, <3>5, <3>6
  <2>2. CASE ~(v.phase = "failed" /\ dev[d].phase # "failed")
    <3>1. dev' = [dev EXCEPT ![d] = v] /\ toward' = Posts(d, ms)
      BY <2>2 DEF Becomes
    <3>2. dev'[d] = v /\ dev'[o] = dev[o]
      BY <1>0, <3>1
    <3>3. /\ toward'[d] = toward[d]
          /\ Coming(o)' \subseteq Coming(o) \cup Range(ms)
      BY <1>0, <3>1, Posted DEF Coming
    <3>4. Coming(d)' = Coming(d)
      BY <3>3 DEF Coming
    <3>5. Tells(toward[o]) => Tells(toward'[o])
      BY <1>0, <3>1, PostedTells
    <3> QED BY <3>2, <3>3, <3>4, <3>5 DEF Same
  <2> QED BY <2>1, <2>2
<1>2. dev'[d].heard = dev[d].heard /\ dev'[d].phase = v.phase
  BY <1>1 DEF Same
<1>3. /\ Told(d)' \subseteq Told(d) \cup {"peer-left"}
      /\ Told(o)' \subseteq Told(o) \cup Range(ms) \cup {"peer-left"}
  BY <1>1, <1>2 DEF Told
<1>4. dev'["receiver"].phase = "both" /\ Warned => Warned'
  <2>1. ASSUME dev'["receiver"].phase = "both", Warned
        PROVE  "kex-abort" \in dev'["receiver"].heard \/ Tells(toward'["receiver"])
    <3>1. dev'["receiver"].heard = dev["receiver"].heard
      BY <1>0, <1>1, <1>2
    <3>2. Tells(toward["receiver"]) => Tells(toward'["receiver"])
      <4>1. CASE d = "receiver"
        BY <1>1, <1>2, <2>1, <4>1
      <4>2. CASE o = "receiver"
        BY <1>1, <4>2
      <4> QED BY <1>0, <4>1, <4>2
    <3> QED BY <2>1, <3>1, <3>2 DEF Warned
  <2> QED BY <2>1 DEF Warned
<1> QED BY <1>0, <1>1, <1>3, <1>4 DEF AuthStep

\* What nobody can be misled by.
Silent(ms) == Range(ms) \cap {"kex-abort", "confirm", "response"} = {}

LEMMA AuthGoes ==
    ASSUME SetupInv, AuthInv, NEW d \in Devices, NEW v \in Device, NEW ms \in Seq(Events),
           Becomes(d, v, ms), v.heard = dev[d].heard,
           faults' = faults, match' = match, expired => expired',
           Truly(v, ms), GoesOn(d, dev[d], v)
    PROVE  AuthInv'
<1>1. AuthStep(d, ms) /\ Same(dev'[d], v)
  BY AuthBecomes
<1>2. Truly(dev'[d], ms) /\ GoesOn(d, dev[d], dev'[d])
  BY <1>1 DEF Same, Truly, GoesOn
<1> QED BY <1>1, <1>2, GoingOn

LEMMA AuthFails ==
    ASSUME SetupInv, AuthInv, NEW d \in Devices, NEW v \in Device, NEW ms \in Seq(Events),
           Becomes(d, v, ms), v.heard = dev[d].heard,
           faults' = faults, match' = match, expired => expired',
           Truly(v, ms), GivesUp(d, dev[d], v)
    PROVE  AuthInv'
<1>1. AuthStep(d, ms) /\ Same(dev'[d], v)
  BY AuthBecomes
<1>2. Truly(dev'[d], ms) /\ GivesUp(d, dev[d], dev'[d])
  BY <1>1 DEF Same, Truly, GivesUp
<1> QED BY <1>1, <1>2, GivingUp

\* A step that has nothing to do with the passphrase.
LEMMA AuthAside ==
    ASSUME SetupInv, AuthInv, NEW d \in Devices, NEW v \in Device, NEW ms \in Seq(Events),
           Becomes(d, v, ms), Silent(ms), v.heard = dev[d].heard,
           faults' = faults, match' = match, expired => expired',
           v.kex = dev[d].kex, v.reason = dev[d].reason,
           \/ v.phase = dev[d].phase
           \/ /\ v.phase \notin {"both", "failed"} /\ dev[d].phase # "failed"
              /\ dev[d].phase # "both" \/ dev[d].kex = "done"
    PROVE  AuthInv'
<1>1. Truly(v, ms)
  BY DEF Silent, Truly
<1>2. d = "sender" => v.kex \in {"off", "response", "done"}
  BY DEF AuthInv, StepsInv
<1>3. GoesOn(d, dev[d], v)
  BY <1>2 DEF GoesOn
<1> QED BY <1>1, <1>3, AuthGoes

\* The sender fails for another reason than the passphrase.
LEMMA AuthSenderFails ==
    ASSUME SetupInv, AuthInv, dev["sender"].phase # "failed",
           NEW why \in {"gone", "late", "broken", "cancelled", "refused"},
           Becomes("sender", Fail(dev["sender"], why), <<>>),
           faults' = faults, match' = match, expired => expired'
    PROVE  AuthInv'
<1> DEFINE u == dev["sender"]
           v == Fail(u, why)
<1>1. u \in Device /\ "sender" \in Devices
  BY DEF SetupInv, TypeOK, Devices
<1>2. v \in Device
  BY <1>1, Updates DEF Fail
<1>3. v.phase = "failed" /\ v.reason = why /\ v.kex = u.kex /\ v.heard = u.heard
  BY <1>1 DEF Fail, Device
<1>4. Becomes("sender", v, <<>>)
  OBVIOUS
<1> HIDE DEF v
<1>5. Truly(v, <<>>)
  BY Messages DEF Truly
<1>6. GivesUp("sender", u, v)
  BY <1>3 DEF GivesUp
<1> QED BY <1>1, <1>2, <1>3, <1>4, <1>5, <1>6, Messages, AuthFails

\* The receiver does: when the passphrase is right, something was lost, or the
\* sender has failed for another reason.
LEMMA AuthReceiverFails ==
    ASSUME SetupInv, AuthInv, dev["receiver"].phase # "failed",
           NEW why \in {"gone", "late", "broken", "cancelled", "refused"},
           Becomes("receiver", Fail(dev["receiver"], why), <<>>),
           faults' = faults, match' = match, expired => expired',
           \/ match \/ ~Whole'
           \/ dev["sender"].reason # "auth" /\ dev["sender"].phase = "failed"
    PROVE  AuthInv'
<1> DEFINE u == dev["receiver"]
           v == Fail(u, why)
<1>1. u \in Device /\ "receiver" \in Devices
  BY DEF SetupInv, TypeOK, Devices
<1>2. v \in Device
  BY <1>1, Updates DEF Fail
<1>3. v.phase = "failed" /\ v.reason = why /\ v.kex = u.kex /\ v.heard = u.heard
  BY <1>1 DEF Fail, Device
<1>4. Becomes("receiver", v, <<>>)
  OBVIOUS
<1> HIDE DEF v
<1>5. Truly(v, <<>>)
  BY Messages DEF Truly
<1>6. GivesUp("receiver", u, v)
  BY <1>3 DEF GivesUp
<1> QED BY <1>1, <1>2, <1>3, <1>4, <1>5, <1>6, Messages, AuthFails

LEMMA AuthOpening ==
    ASSUME SetupInv, AuthInv, Derived \/ PeerHere \/ Cancelled
    PROVE  AuthInv'
<1> DEFINE u == dev["sender"]
<1>0. /\ "sender" \in Devices /\ u \in Device
      /\ faults' = faults /\ match' = match /\ expired' = expired
  BY DEF SetupInv, TypeOK, Devices, Derived, PeerHere, Cancelled, Quiet
<1>1. CASE Derived
  <2> DEFINE v == [u EXCEPT !.phase = "peer"]
  <2>1. u.phase = "derive" /\ Becomes("sender", v, <<>>)
    BY <1>1 DEF Derived
  <2>2. /\ v \in Device /\ v.phase = "peer" /\ v.kex = u.kex
        /\ v.heard = u.heard /\ v.reason = u.reason
    BY <1>0 DEF Device
  <2>3. Silent(<<>>)
    BY Messages DEF Silent
  <2> HIDE DEF v
  <2> QED BY <1>0, <2>1, <2>2, <2>3, Messages, AuthAside
<1>2. CASE PeerHere
  <2> DEFINE v == [u EXCEPT !.phase = "both", !.kex = "response", !.attempt = "trying"]
  <2>1. u.phase = "peer" /\ Becomes("sender", v, <<"hello">>)
    BY <1>2 DEF PeerHere
  <2>v. v \in Device
    BY <1>0, Updates
  <2>2. v.phase = "both" /\ v.kex = "response" /\ v.heard = u.heard /\ v.reason = u.reason
    BY <1>0 DEF Device
  <2>3. <<"hello">> \in Seq(Events) /\ Range(<<"hello">>) = {"hello"}
    BY Messages DEF Plain
  <2> HIDE DEF v
  <2>4. Truly(v, <<"hello">>)
    BY <2>3 DEF Truly
  <2>5. GoesOn("sender", u, v)
    BY <2>1, <2>2 DEF GoesOn
  <2> QED BY <1>0, <2>v, <2>1, <2>2, <2>3, <2>4, <2>5, AuthGoes
<1>3. CASE Cancelled
  <2>1. u.phase = "peer" /\ Becomes("sender", Fail(u, "cancelled"), <<>>)
    BY <1>3 DEF Cancelled
  <2> QED BY <1>0, <2>1, AuthSenderFails
<1> QED BY <1>1, <1>2, <1>3

LEMMA AuthJoined ==
    ASSUME SetupInv, AuthInv, Joined
    PROVE  AuthInv'
<1> DEFINE u == dev["receiver"]
           v == [u EXCEPT !.phase = "both", !.kex = "hello", !.attempt = "trying",
                          !.online = TRUE]
           ms == <<"peer-joined">>
<1>0. /\ "receiver" \in Devices /\ "sender" \in Devices /\ Other("receiver") = "sender"
      /\ u \in Device /\ OrderInv(u)
      /\ dev \in [Devices -> Device] /\ toward \in [Devices -> Seq(Events)]
  BY Others DEF SetupInv, TypeOK, Devices
<1>1. /\ u.phase = "join" /\ dev' = [dev EXCEPT !["receiver"] = v]
      /\ toward' = [toward EXCEPT !["sender"] = Append(@, "peer-joined")]
      /\ UNCHANGED <<match, faults, expired>>
  BY DEF Joined, Quiet
<1>3. v.phase = "both" /\ v.kex = "hello" /\ v.heard = u.heard /\ v.reason = u.reason
  BY <1>0 DEF Device
<1> HIDE DEF v
<1>4. dev'["receiver"] = v /\ dev'["sender"] = dev["sender"]
  BY <1>0, <1>1
<1>5. "peer-joined" \in Events /\ Range(ms) = {"peer-joined"}
  BY Messages DEF Events
<1>6. /\ toward'["receiver"] = toward["receiver"]
      /\ Range(toward'["sender"]) = Range(toward["sender"]) \cup {"peer-joined"}
  <2>1. toward["sender"] \in Seq(Events)
    BY <1>0
  <2>2. Range(Append(toward["sender"], "peer-joined"))
          = Range(toward["sender"]) \cup {"peer-joined"}
    BY <1>5, <2>1, RangeAppended
  <2>3. /\ toward'["sender"] = Append(toward["sender"], "peer-joined")
        /\ toward'["receiver"] = toward["receiver"]
    BY <1>0, <1>1
  <2> QED BY <2>2, <2>3
<1> HIDE DEF ms
<1>7. AuthStep("receiver", ms)
  <2>1. /\ Coming("receiver")' = Coming("receiver")
        /\ Coming("sender")' = Coming("sender") \cup Range(ms)
    BY <1>5, <1>6 DEF Coming
  <2>2. Told("receiver")' = Told("receiver") /\ Told("sender")' = Told("sender") \cup Range(ms)
    BY <1>3, <1>4, <2>1 DEF Told
  <2>3. Whole' = Whole /\ match' = match
    BY <1>1 DEF Whole
  <2> QED BY <1>0, <1>1, <1>4, <2>2, <2>3 DEF AuthStep
<1>8. Truly(dev'["receiver"], ms)
  BY <1>5 DEF Truly
<1>9. GoesOn("receiver", u, dev'["receiver"])
  BY <1>0, <1>1, <1>3, <1>4 DEF GoesOn, OrderInv
<1> QED BY <1>0, <1>7, <1>8, <1>9, GoingOn

LEMMA AuthJoinRefused ==
    ASSUME SetupInv, AuthInv, JoinRefused
    PROVE  AuthInv'
<1> DEFINE u == dev["receiver"]
           v == Fail(u, "refused")
<1>0. /\ "receiver" \in Devices /\ "sender" \in Devices /\ Other("receiver") = "sender"
      /\ u \in Device /\ dev \in [Devices -> Device] /\ RoomInv /\ BlameInv
      /\ SaidOf("receiver")
  BY Others DEF SetupInv, TypeOK, Devices, AuthInv
<1>1. /\ u.phase = "join" /\ dev' = [dev EXCEPT !["receiver"] = v]
      /\ UNCHANGED <<toward, room, match, faults, expired>>
      /\ room = "closed"
  BY DEF JoinRefused, Quiet
<1>3. v.phase = "failed" /\ v.kex = u.kex /\ v.heard = u.heard /\ v.reason = "refused"
  BY <1>0 DEF Device, Fail
<1> HIDE DEF v
<1>4. dev'["receiver"] = v /\ dev'["sender"] = dev["sender"]
  BY <1>0, <1>1
<1>5. AuthStep("receiver", <<>>)
  <2>1. Coming("receiver")' = Coming("receiver") /\ Coming("sender")' = Coming("sender")
    BY <1>1 DEF Coming
  <2>2. Told("receiver")' = Told("receiver") /\ Told("sender")' = Told("sender")
    BY <1>3, <1>4, <2>1 DEF Told
  <2>3. Whole' = Whole /\ match' = match
    BY <1>1 DEF Whole
  <2> QED BY <1>0, <1>1, <1>4, <2>2, <2>3 DEF AuthStep
<1>6. Truly(dev'["receiver"], <<>>)
  BY Messages DEF Truly
<1>7. Whole' => dev["sender"].reason # "auth" /\ dev["sender"].phase = "failed"
  <2>1. ASSUME Whole'
        PROVE  dev["sender"].reason # "auth" /\ dev["sender"].phase = "failed"
    <3>1. Whole /\ faults = 0
      BY <1>1, <2>1 DEF Whole
    <3>2. \E e \in Devices : dev[e].phase = "failed"
      BY <1>1, <3>1, <1>0 DEF RoomInv
    <3>3. dev["sender"].phase = "failed"
      BY <1>1, <3>2 DEF Devices
    <3>4. u.reason # "auth"
      BY <1>0, <1>1 DEF SaidOf
    <3> QED BY <1>0, <1>1, <3>1, <3>3, <3>4 DEF BlameInv
  <2> QED BY <2>1
<1>8. GivesUp("receiver", u, dev'["receiver"])
  BY <1>1, <1>3, <1>4, <1>7 DEF GivesUp
<1> QED BY <1>0, <1>5, <1>6, <1>8, GivingUp

\* A step of the handshake, up to its end.
LEMMA AuthAdvances ==
    ASSUME SetupInv, AuthInv, NEW d \in Devices, NEW k \in {"derive", "confirm", "done"},
           NEW ms \in Seq(Events), dev[d].phase = "both",
           Becomes(d, [dev[d] EXCEPT !.kex = k], ms),
           faults' = faults, match' = match, expired => expired',
           d = "sender" => k = "done",
           d = "receiver" => /\ k = "derive" => dev[d].kex = "hello"
                             /\ k = "done" => match,
           "kex-abort" \notin Range(ms),
           "confirm" \in Range(ms) => match,
           "response" \in Range(ms) => k = "confirm"
    PROVE  AuthInv'
<1> DEFINE u == dev[d]
           v == [u EXCEPT !.kex = k]
<1>1. u \in Device
  BY DEF SetupInv, TypeOK
<1>2. v \in Device
  BY <1>1, Updates
<1>3. v.phase = u.phase /\ v.kex = k /\ v.heard = u.heard /\ v.reason = u.reason
  BY <1>1 DEF Device
<1>4. Becomes(d, v, ms)
  OBVIOUS
<1> HIDE DEF v
<1>5. Truly(v, ms)
  BY <1>3 DEF Truly
<1>6. GoesOn(d, u, v)
  BY <1>3 DEF GoesOn
<1> QED BY <1>2, <1>3, <1>4, <1>5, <1>6, AuthGoes

\* A device that heard the abort, or found the wrong passphrase itself, fails.
LEMMA AuthBlames ==
    ASSUME SetupInv, AuthInv, NEW d \in Devices, NEW ms \in Seq(Events), ~match,
           dev[d].phase # "failed", Becomes(d, Fail(dev[d], "auth"), ms),
           Range(ms) \subseteq {"kex-abort"},
           faults' = faults, match' = match, expired => expired',
           d = "sender" =>
             (Whole' => dev["receiver"].phase = "both" /\ dev["receiver"].kex = "confirm" /\ Warned'),
           d = "receiver" => dev["sender"].reason = "auth"
    PROVE  AuthInv'
<1> DEFINE u == dev[d]
           v == Fail(u, "auth")
<1>1. u \in Device
  BY DEF SetupInv, TypeOK
<1>2. v \in Device
  BY <1>1, Updates DEF Fail
<1>3. v.phase = "failed" /\ v.kex = u.kex /\ v.heard = u.heard /\ v.reason = "auth"
  BY <1>1 DEF Fail, Device
<1>4. Becomes(d, v, ms)
  OBVIOUS
<1> HIDE DEF v
<1>5. Truly(v, ms)
  BY <1>3 DEF Truly
<1>6. GivesUp(d, u, v)
  BY <1>3 DEF GivesUp
<1> QED BY <1>2, <1>3, <1>4, <1>5, <1>6, AuthFails

\* The receiver learns of it: the abort is behind everything the sender said before
\* it left, and nothing the receiver has yet to hear tells it of the end before that.
LEMMA Warning ==
    ASSUME SetupInv, AuthInv, Whole', faults' = faults, expired => expired',
           dev["sender"].phase = "both", dev["receiver"].phase = "both",
           Becomes("sender", Fail(dev["sender"], "auth"), <<"kex-abort">>)
    PROVE  Warned'
<1>0. /\ TypeOK /\ RoomInv /\ ToldInv("receiver")
      /\ "sender" \in Devices /\ "receiver" \in Devices
      /\ Other("sender") = "receiver" /\ Other("receiver") = "sender"
      /\ dev \in [Devices -> Device] /\ dev["sender"] \in Device
      /\ dev["sender"].online \in BOOLEAN /\ dev["receiver"].online \in BOOLEAN
      /\ toward \in [Devices -> Seq(Events)] /\ toward["receiver"] \in Seq(Events)
      /\ room \in {"open", "closed"}
  BY Others DEF SetupInv, TypeOK, Devices, Device
<1>1. faults = 0
  BY DEF Whole
<1>2. room = "open" /\ dev["sender"].online /\ dev["receiver"].online
  <2>1. \A e \in Devices : dev[e].phase = "both"
    BY DEF Devices
  <2>2. \A e \in Devices : dev[e].online
    BY <1>1, <2>1, <1>0 DEF RoomInv
  <2>3. room # "closed"
    BY <1>0, <1>1, <2>1 DEF RoomInv
  <2> QED BY <1>0, <2>2, <2>3
<1>3. "peer-left" \notin Range(toward["receiver"])
  BY <1>0, <1>1 DEF ToldInv, Coming
<1> DEFINE ns == <<"kex-abort">> \o <<"peer-left">>
<1>4. Leaves("sender", Fail(dev["sender"], "auth"), <<"kex-abort">>)
  <2>1. Fail(dev["sender"], "auth").phase = "failed"
    BY <1>0 DEF Fail, Device
  <2> QED BY <2>1 DEF Becomes
<1>5. toward' = [Posts("sender", ns) EXCEPT !["sender"] = <<>>]
  BY <1>4 DEF Leaves
<1>6. Tells(toward["receiver"] \o ns)
  BY <1>0, <1>3, TellsNew
<1> HIDE DEF ns
<1>7. Posts("sender", ns) = [toward EXCEPT !["receiver"] = @ \o ns]
  BY <1>0, <1>2 DEF Posts
<1>8. toward'["receiver"] = toward["receiver"] \o ns
  BY <1>0, <1>5, <1>7
<1>9. Tells(toward'["receiver"])
  BY <1>6, <1>8
<1> QED BY <1>9 DEF Warned

LEMMA AuthHandshake ==
    ASSUME SetupInv, AuthInv, AcceptsResponse \/ HearsHello \/ Responds \/ VerifiesConfirm
    PROVE  AuthInv'
<1> DEFINE s == dev["sender"]
           r == dev["receiver"]
<1>0. /\ "sender" \in Devices /\ "receiver" \in Devices
      /\ Other("sender") = "receiver" /\ Other("receiver") = "sender"
      /\ SaidOf("sender") /\ SaidOf("receiver") /\ StepsInv /\ BlameInv
      /\ match \in BOOLEAN
      /\ faults' = faults /\ match' = match /\ expired' = expired
  BY Others DEF SetupInv, TypeOK, Devices, AuthInv, AcceptsResponse, HearsHello, Responds,
                VerifiesConfirm, Quiet
<1>m. /\ \A m \in Plain : <<m>> \in Seq(Events) /\ Range(<<m>>) = {m}
      /\ <<>> \in Seq(Events) /\ Range(<<>>) = {}
      /\ {"confirm", "response", "kex-abort"} \subseteq Plain
  BY Messages DEF Plain
<1>w. Whole' => Whole
  BY <1>0 DEF Whole
\* The receiver has heard the abort.
<1>r. ASSUME r.phase = "both", "kex-abort" \in r.heard,
             Becomes("receiver", Fail(r, "auth"), <<>>)
      PROVE  AuthInv'
  <2>1. s.reason = "auth"
    BY <1>0, <1>r DEF SaidOf, Told
  <2>2. ~match
    BY <1>0, <2>1 DEF SaidOf
  <2> QED BY <1>0, <1>m, <1>r, <2>1, <2>2, AuthBlames
<1>1. CASE AcceptsResponse
  <2>1. /\ s.phase = "both" /\ s.kex \in Steps
        /\ s.heard \cap {s.kex, "kex-abort"} # {}
        /\ IF Rejected(s) THEN Becomes("sender", Fail(s, "auth"), <<>>)
           ELSE IF Verified(s) THEN Becomes("sender", [s EXCEPT !.kex = "done"], <<"confirm">>)
           ELSE Becomes("sender", Fail(s, "auth"), Abort(s))
    BY <1>1 DEF AcceptsResponse, InHandshake, StepHeard
  <2>2. s.kex = "response" /\ s.reason # "auth"
    BY <1>0, <2>1 DEF StepsInv, SaidOf, Steps
  <2>3. "kex-abort" \notin s.heard
    BY <1>0, <2>2 DEF SaidOf, BlameInv, Told
  <2>4. "response" \in s.heard /\ ~Rejected(s)
    BY <2>1, <2>2, <2>3 DEF Rejected
  <2>5. CASE match
    <3>1. Becomes("sender", [s EXCEPT !.kex = "done"], <<"confirm">>)
      BY <2>1, <2>4, <2>5 DEF Verified
    <3> QED BY <1>0, <1>m, <2>1, <2>5, <3>1, AuthAdvances
  <2>6. CASE ~match
    <3>1. Becomes("sender", Fail(s, "auth"), <<"kex-abort">>)
      BY <2>1, <2>4, <2>6 DEF Verified, Abort
    <3>2. r.kex = "confirm"
      BY <1>0, <2>4, <2>6 DEF SaidOf, StepsInv, Told
    <3>3. Whole' => r.phase = "both"
      BY <1>0, <1>w, <2>1, <2>6, <3>2 DEF StepsInv, BlameInv
    <3>4. Whole' => Warned'
      BY <1>0, <2>1, <3>1, <3>3, Warning
    <3> QED BY <1>0, <1>m, <2>1, <2>6, <3>1, <3>2, <3>3, <3>4, AuthBlames
  <2> QED BY <2>5, <2>6
<1>2. CASE HearsHello
  <2>1. /\ r.phase = "both" /\ r.kex = "hello"
        /\ r.heard \cap {r.kex, "kex-abort"} # {}
        /\ IF Rejected(r) THEN Becomes("receiver", Fail(r, "auth"), <<>>)
           ELSE Becomes("receiver", [r EXCEPT !.kex = "derive"], <<>>)
    BY <1>2 DEF HearsHello, InHandshake, StepHeard
  <2>2. CASE Rejected(r)
    BY <1>r, <2>1, <2>2 DEF Rejected
  <2>3. CASE ~Rejected(r)
    BY <1>0, <1>m, <2>1, <2>3, AuthAdvances
  <2> QED BY <2>2, <2>3
<1>3. CASE Responds
  <2>1. /\ r.phase = "both" /\ r.kex = "derive"
        /\ Becomes("receiver", [r EXCEPT !.kex = "confirm"], <<"response">>)
    BY <1>3 DEF Responds
  <2> QED BY <1>0, <1>m, <2>1, AuthAdvances
<1>4. CASE VerifiesConfirm
  <2>1. /\ r.phase = "both" /\ r.kex = "confirm"
        /\ r.heard \cap {r.kex, "kex-abort"} # {}
        /\ IF Rejected(r) THEN Becomes("receiver", Fail(r, "auth"), <<>>)
           ELSE IF Verified(r) THEN Becomes("receiver", [r EXCEPT !.kex = "done"], <<>>)
           ELSE Becomes("receiver", Fail(r, "auth"), Abort(r))
    BY <1>4 DEF VerifiesConfirm, InHandshake, StepHeard
  <2>2. CASE Rejected(r)
    BY <1>r, <2>1, <2>2 DEF Rejected
  <2>3. CASE ~Rejected(r)
    <3>1. match
      BY <1>0, <2>1, <2>3 DEF Rejected, SaidOf, Told
    <3>2. Becomes("receiver", [r EXCEPT !.kex = "done"], <<>>)
      BY <2>1, <2>3, <3>1 DEF Verified
    <3> QED BY <1>0, <1>m, <2>1, <3>1, <3>2, AuthAdvances
  <2> QED BY <2>2, <2>3
<1> QED BY <1>1, <1>2, <1>3, <1>4

\* A wait runs out: either what it waited for could still come, or the other device
\* had failed, and not for the passphrase, of which there would be news.
LEMMA AuthTimeouts ==
    ASSUME SetupInv, AuthInv,
           AttachTimeout \/ HeaderTimeout \/ \E d \in Devices : StepTimeout(d)
    PROVE  AuthInv'
<1> DEFINE s == dev["sender"]
           r == dev["receiver"]
<1>0. /\ "sender" \in Devices /\ "receiver" \in Devices
      /\ \A d \in Devices : d = "sender" \/ d = "receiver"
      /\ RoomInv /\ OrderInv(r) /\ StepsInv /\ BlameInv /\ SaidOf("receiver")
      /\ room \in {"open", "closed"} /\ expired \in BOOLEAN
  BY DEF SetupInv, TypeOK, Devices, AuthInv
<1>1. ASSUME NEW d \in Devices, TimesOut(d, Fail(dev[d], "late"))
      PROVE  /\ Becomes(d, Fail(dev[d], "late"), <<>>)
             /\ faults' = faults /\ match' = match /\ (expired => expired')
             /\ Whole' => Whole /\ faults = 0 /\ room = "closed" /\ toward[d] = <<>>
  <2>1. /\ Becomes(d, Fail(dev[d], "late"), <<>>)
        /\ expired' = (expired \/ room = "open" \/ toward[d] # <<>>)
        /\ faults' = faults /\ match' = match
    BY <1>1 DEF TimesOut
  <2>2. ASSUME Whole'
        PROVE  Whole /\ faults = 0 /\ room = "closed" /\ toward[d] = <<>>
    <3>1. faults' = 0 /\ ~expired'
      BY <2>2 DEF Whole
    <3> QED BY <1>0, <2>1, <3>1 DEF Whole
  <2> QED BY <2>1, <2>2
<1>2. ASSUME TimesOut("sender", Fail(s, "late")), s.phase # "failed"
      PROVE  AuthInv'
  BY <1>0, <1>1, <1>2, AuthSenderFails
<1>3. CASE AttachTimeout
  BY <1>2, <1>3 DEF AttachTimeout
<1>4. CASE StepTimeout("sender")
  BY <1>2, <1>4 DEF StepTimeout, InHandshake
<1>5. CASE HeaderTimeout
  <2>1. r.phase = "header" /\ TimesOut("receiver", Fail(r, "late"))
    BY <1>5 DEF HeaderTimeout
  <2>2. match
    BY <1>0, <2>1 DEF OrderInv, StepsInv
  <2> QED BY <1>0, <1>1, <2>1, <2>2, AuthReceiverFails
<1>6. CASE StepTimeout("receiver")
  <2>1. /\ r.phase = "both" /\ TimesOut("receiver", Fail(r, "late"))
        /\ "kex-abort" \notin r.heard
    BY <1>6 DEF StepTimeout, InHandshake, Idle, Busy, StepHeard
  <2>2. ASSUME Whole'
        PROVE  s.reason # "auth" /\ s.phase = "failed"
    <3>1. Whole /\ faults = 0 /\ room = "closed" /\ toward["receiver"] = <<>>
      BY <1>0, <1>1, <2>1, <2>2
    <3>2. \E e \in Devices : dev[e].phase = "failed"
      BY <1>0, <3>1 DEF RoomInv
    <3>3. s.phase = "failed"
      BY <1>0, <2>1, <3>2
    <3>4. ~Tells(toward["receiver"])
      BY <3>1, Messages, TellsTaken
    <3>5. ~Warned
      BY <2>1, <3>4 DEF Warned
    <3>6. r.reason # "auth"
      BY <1>0, <2>1 DEF SaidOf
    <3> QED BY <1>0, <3>1, <3>3, <3>5, <3>6 DEF BlameInv
  <2> QED BY <1>0, <1>1, <2>1, <2>2, AuthReceiverFails
<1> QED BY <1>0, <1>3, <1>4, <1>5, <1>6

LEMMA AuthLinking ==
    ASSUME SetupInv, AuthInv, Linking
    PROVE  AuthInv'
<1>d. PICK d \in Devices :
        \/ Describes(d) \/ RemoteSet(d) \/ Opens(d) \/ AttemptSucceeds(d)
        \/ AttemptFails(d) \/ LinkAgreed(d) \/ LinkTimeout(d)
  BY DEF Linking
<1> DEFINE u == dev[d]
<1>0. u \in Device /\ u.dc \in {"none", "open", "closed"}
      /\ u.candidate \in {"none", "pending", "added"} /\ expired \in BOOLEAN
  BY DEF SetupInv, TypeOK, Device
<1>m. /\ \A m, n \in Signals : /\ <<m>> \in Seq(Events) /\ Range(<<m>>) = {m}
                               /\ <<m, n>> \in Seq(Events) /\ Range(<<m, n>>) = {m, n}
      /\ <<>> \in Seq(Events) /\ Silent(<<>>)
  BY Messages DEF Silent
<1>1. ASSUME NEW v \in Device, NEW ms \in Seq(Events), Becomes(d, v, ms), Silent(ms),
             v.phase = u.phase, v.kex = u.kex, v.heard = u.heard, v.reason = u.reason,
             faults' = faults, match' = match, expired => expired'
      PROVE  AuthInv'
  BY <1>1, AuthAside
<1>q. CASE \/ Describes(d) \/ RemoteSet(d) \/ Opens(d) \/ AttemptSucceeds(d)
           \/ AttemptFails(d) \/ LinkAgreed(d)
  <2>0. faults' = faults /\ match' = match /\ expired' = expired
    BY <1>q DEF Describes, RemoteSet, Opens, AttemptSucceeds, AttemptFails, LinkAgreed, Quiet
  <2>1. CASE Describes(d)
    <3> DEFINE v == [u EXCEPT !.local = TRUE]
    <3>1. PICK ms \in {<<"sdp", "ice">>, <<"ice", "sdp">>} : Becomes(d, v, ms)
      BY <2>1 DEF Describes
    <3>2. ms \in Seq(Events) /\ Silent(ms)
      <4>1. "sdp" \in Signals /\ "ice" \in Signals
        BY DEF Signals
      <4>2. /\ <<"sdp", "ice">> \in Seq(Events) /\ Range(<<"sdp", "ice">>) = {"sdp", "ice"}
            /\ <<"ice", "sdp">> \in Seq(Events) /\ Range(<<"ice", "sdp">>) = {"ice", "sdp"}
        BY <1>m, <4>1
      <4>3. ms \in Seq(Events) /\ Range(ms) = {"sdp", "ice"}
        <5>1. CASE ms = <<"sdp", "ice">>
          BY <4>2, <5>1
        <5>2. CASE ms = <<"ice", "sdp">>
          BY <4>2, <5>2
        <5> QED BY <3>1, <5>1, <5>2
      <4> QED BY <4>3 DEF Silent
    <3>3. /\ v \in Device /\ v.phase = u.phase /\ v.kex = u.kex /\ v.heard = u.heard
          /\ v.reason = u.reason
      BY <1>0 DEF Device
    <3> HIDE DEF v
    <3> QED BY <1>1, <2>0, <3>1, <3>2, <3>3
  <2>2. CASE RemoteSet(d)
    <3>1. PICK c \in {"none", "pending", "added"} :
             Becomes(d, [u EXCEPT !.remote = "set", !.candidate = c], <<>>)
      BY <1>0, <2>2 DEF RemoteSet
    <3> DEFINE v == [u EXCEPT !.remote = "set", !.candidate = c]
    <3>2. v \in Device
      BY <1>0, Updates
    <3>3. v.phase = u.phase /\ v.kex = u.kex /\ v.heard = u.heard /\ v.reason = u.reason
      BY <1>0 DEF Device
    <3>4. Becomes(d, v, <<>>)
      BY <3>1
    <3> HIDE DEF v
    <3> QED BY <1>1, <1>m, <2>0, <3>2, <3>3, <3>4
  <2>3. CASE Opens(d)
    <3> DEFINE v == [u EXCEPT !.dc = "open", !.attempt = "stats"]
    <3>1. Becomes(d, v, <<>>)
      BY <2>3 DEF Opens
    <3>2. v \in Device
      BY <1>0, Updates
    <3>3. v.phase = u.phase /\ v.kex = u.kex /\ v.heard = u.heard /\ v.reason = u.reason
      BY <1>0 DEF Device
    <3> HIDE DEF v
    <3> QED BY <1>1, <1>m, <2>0, <3>1, <3>2, <3>3
  <2>4. ASSUME NEW got \in {"up", "off"}, NEW m \in {"link-direct", "link-none"},
               Becomes(d, Report(u, got), <<m>>)
        PROVE  AuthInv'
    <3> DEFINE v == Report(u, got)
    <3>1. <<m>> \in Seq(Events) /\ Silent(<<m>>)
      <4>1. m \in Signals
        BY <2>4 DEF Signals
      <4>2. <<m>> \in Seq(Events) /\ Range(<<m>>) = {m}
        BY <1>m, <4>1
      <4> QED BY <2>4, <4>2 DEF Silent
    <3>2. v \in Device
      <4>1. PICK c \in {"none", "open", "closed"} :
               v = [u EXCEPT !.attempt = got, !.link = "waiting", !.dc = c]
        BY <1>0 DEF Report
      <4> HIDE DEF v
      <4> QED BY <1>0, <2>4, <4>1, Updates
    <3>3. v.phase = u.phase /\ v.kex = u.kex /\ v.heard = u.heard /\ v.reason = u.reason
      BY <1>0 DEF Device, Report
    <3>4. Becomes(d, v, <<m>>)
      BY <2>4
    <3> HIDE DEF v
    <3> QED BY <1>1, <2>0, <3>1, <3>2, <3>3, <3>4
  <2>5. CASE AttemptSucceeds(d)
    BY <2>4, <2>5 DEF AttemptSucceeds
  <2>6. CASE AttemptFails(d)
    BY <2>4, <2>6 DEF AttemptFails
  <2>7. CASE LinkAgreed(d)
    <3> DEFINE v == Decide(u, "link-direct" \in u.heard)
    <3>1. Becomes(d, v, <<>>)
      BY <2>7 DEF LinkAgreed
    <3>2. v \in Device
      BY <1>0, Updates DEF Decide
    <3>3. v.phase = u.phase /\ v.kex = u.kex /\ v.heard = u.heard /\ v.reason = u.reason
      BY <1>0 DEF Device, Decide
    <3> HIDE DEF v
    <3> QED BY <1>1, <1>m, <2>0, <3>1, <3>2, <3>3
  <2> QED BY <1>q, <2>1, <2>2, <2>3, <2>5, <2>6, <2>7
<1>2. CASE LinkTimeout(d)
  <2> DEFINE v == Decide(u, FALSE)
  <2>1. /\ Becomes(d, v, <<>>) /\ faults' = faults /\ match' = match
        /\ expired' = (expired \/ room = "open" \/ toward[d] # <<>>)
    BY <1>2 DEF LinkTimeout, TimesOut
  <2>2. v \in Device
    BY <1>0, Updates DEF Decide
  <2>3. v.phase = u.phase /\ v.kex = u.kex /\ v.heard = u.heard /\ v.reason = u.reason
    BY <1>0 DEF Device, Decide
  <2> HIDE DEF v
  <2>4. expired => expired'
    BY <1>0, <2>1
  <2> QED BY <1>1, <1>m, <2>1, <2>2, <2>3, <2>4
<1> QED BY <1>d, <1>q, <1>2

LEMMA AuthStarting ==
    ASSUME SetupInv, AuthInv,
           \/ SenderCreated \/ Sealed \/ SendsHeader \/ SendsMeta \/ ReceiverCreated
           \/ Takes("header", "meta") \/ Takes("meta", "transfer") \/ PumpRejects
    PROVE  AuthInv'
<1> DEFINE s == dev["sender"]
           r == dev["receiver"]
<1>0. /\ "sender" \in Devices /\ "receiver" \in Devices /\ s \in Device /\ r \in Device
      /\ OrderInv(r) /\ StepsInv /\ r.inbox \in Seq(Frames)
      /\ faults' = faults /\ match' = match /\ expired' = expired
  BY DEF SetupInv, TypeOK, Device, Devices, AuthInv, SenderCreated, Sealed, SendsHeader,
         SendsMeta, ReceiverCreated, Takes, PumpRejects, Quiet
<1>m. <<>> \in Seq(Events) /\ Silent(<<>>)
  BY Messages DEF Silent
\* Nothing of the handshake changes.
<1>1. ASSUME NEW d \in Devices, NEW v \in Device, NEW ms \in Seq(Events),
             Becomes(d, v, ms), Silent(ms), v.phase \notin {"both", "failed"},
             dev[d].phase # "failed", dev[d].phase # "both" \/ dev[d].kex = "done",
             v.kex = dev[d].kex, v.heard = dev[d].heard, v.reason = dev[d].reason
      PROVE  AuthInv'
  BY <1>0, <1>1, AuthAside
<1>2. CASE SenderCreated
  <2> DEFINE v == [s EXCEPT !.phase = "sealing", !.pump = "on"]
  <2>1. Becomes("sender", v, <<>>) /\ s.phase = "both" /\ s.kex = "done"
    BY <1>2 DEF SenderCreated, BothDone
  <2>2. v \in Device
    BY <1>0, Updates
  <2>3. v.phase = "sealing" /\ v.kex = s.kex /\ v.heard = s.heard /\ v.reason = s.reason
    BY <1>0 DEF Device
  <2> HIDE DEF v
  <2> QED BY <1>0, <1>1, <1>m, <2>1, <2>2, <2>3
<1>3. CASE ReceiverCreated
  <2> DEFINE v == [r EXCEPT !.phase = "header", !.pump = "on"]
  <2>1. Becomes("receiver", v, <<"receiver-attached">>) /\ r.phase = "both" /\ r.kex = "done"
    BY <1>3 DEF ReceiverCreated, BothDone
  <2>2. v \in Device
    BY <1>0, Updates
  <2>3. v.phase = "header" /\ v.kex = r.kex /\ v.heard = r.heard /\ v.reason = r.reason
    BY <1>0 DEF Device
  <2>4. <<"receiver-attached">> \in Seq(Events) /\ Silent(<<"receiver-attached">>)
    <3>1. "receiver-attached" \in Events
      BY Messages DEF Signals
    <3>2. /\ <<"receiver-attached">> \in Seq(Events)
          /\ Range(<<"receiver-attached">>) = {"receiver-attached"}
      BY <3>1, Messages
    <3> QED BY <3>2 DEF Silent
  <2> HIDE DEF v
  <2> QED BY <1>0, <1>1, <2>1, <2>2, <2>3, <2>4
<1>4. CASE Sealed
  <2> DEFINE v == [s EXCEPT !.phase = "attach"]
  <2>1. Becomes("sender", v, <<>>) /\ s.phase = "sealing"
    BY <1>4 DEF Sealed
  <2>2. v \in Device
    BY <1>0, Updates
  <2>3. v.phase = "attach" /\ v.kex = s.kex /\ v.heard = s.heard /\ v.reason = s.reason
    BY <1>0 DEF Device
  <2> HIDE DEF v
  <2> QED BY <1>0, <1>1, <1>m, <2>1, <2>2, <2>3
<1>5. CASE SendsHeader \/ SendsMeta
  <2>1. PICK next \in {"meta", "transfer"}, frame \in Frames :
           /\ Sends([s EXCEPT !.phase = next], frame)
           /\ s.phase \in {"attach", "meta"}
    BY <1>5 DEF SendsHeader, SendsMeta, Attached, Frames
  <2> DEFINE v == [s EXCEPT !.phase = next]
             ms == IF v.link = "relay" THEN <<frame>> ELSE <<>>
  <2>2. v \in Device
    BY <1>0, Updates
  <2>3. v.phase = next /\ v.kex = s.kex /\ v.heard = s.heard /\ v.reason = s.reason
    BY <1>0 DEF Device
  <2>4. Fail(v, "broken") = Fail(s, "broken")
    BY <1>0 DEF Fail, Device
  <2>5. ms \in Seq(Events) /\ Silent(ms)
    <3>1. frame \in Events
      BY Messages
    <3>2. <<frame>> \in Seq(Events) /\ Range(<<frame>>) = {frame}
      BY <3>1, Messages
    <3>3. Silent(<<frame>>)
      BY <3>2 DEF Silent, Frames
    <3> QED BY <1>m, <3>2, <3>3
  <2>6. Becomes("sender", Fail(v, "broken"), <<>>) \/ Becomes("sender", v, ms)
    BY <2>1 DEF Sends
  <2> HIDE DEF v, ms
  <2>7. CASE Becomes("sender", Fail(v, "broken"), <<>>)
    <3>1. Becomes("sender", Fail(s, "broken"), <<>>) /\ s.phase # "failed"
      BY <2>1, <2>4, <2>7
    <3> QED BY <1>0, <3>1, AuthSenderFails
  <2>8. CASE Becomes("sender", v, ms)
    BY <1>0, <1>1, <2>1, <2>2, <2>3, <2>5, <2>8
  <2> QED BY <2>6, <2>7, <2>8
<1>6. ASSUME NEW next \in {"meta", "transfer"}, r.phase \in {"header", "meta"}, r.inbox # <<>>,
             Becomes("receiver", [r EXCEPT !.phase = next, !.inbox = Tail(@)], <<>>)
      PROVE  AuthInv'
  <2> DEFINE v == [r EXCEPT !.phase = next, !.inbox = Tail(r.inbox)]
  <2>1. Tail(r.inbox) \in Seq(Frames)
    BY <1>0, <1>6, RangeTaken
  <2>2. v \in Device
    BY <1>0, <2>1, Updates
  <2>3. v.phase = next /\ v.kex = r.kex /\ v.heard = r.heard /\ v.reason = r.reason
    BY <1>0 DEF Device
  <2>4. Becomes("receiver", v, <<>>)
    BY <1>6
  <2> HIDE DEF v
  <2> QED BY <1>0, <1>1, <1>6, <1>m, <2>2, <2>3, <2>4
<1>7. CASE Takes("header", "meta")
  BY <1>6, <1>7 DEF Takes
<1>8. CASE Takes("meta", "transfer")
  BY <1>6, <1>8 DEF Takes
<1>9. CASE PumpRejects
  <2>1. r.phase \in {"header", "meta"} /\ Becomes("receiver", Fail(r, "broken"), <<>>)
    BY <1>9 DEF PumpRejects, Frames
  <2>2. match
    BY <1>0, <2>1 DEF OrderInv, StepsInv
  <2> QED BY <1>0, <2>1, <2>2, AuthReceiverFails
<1> QED BY <1>2, <1>3, <1>4, <1>5, <1>7, <1>8, <1>9

\* What an event does to the handshake: it is remembered, or ends a wait.
LEMMA SignalHeard ==
    ASSUME NEW u \in Device, NEW m \in Events \ Frames
    PROVE  LET v == Hears(u, m) IN
           /\ v \in Device /\ v.kex = u.kex
           /\ u.heard \subseteq v.heard /\ v.heard \subseteq u.heard \cup {m}
           /\ m = "kex-abort" => m \in v.heard
           /\ \/ v.phase = u.phase /\ v.reason = u.reason
              \/ /\ m = "peer-left" /\ v.phase = "failed" /\ v.reason = "gone"
                 /\ u.phase \in {"peer", "attach"} \/ InHandshake(u)
<1> DEFINE v == Hears(u, m)
           Right(w) ==
             /\ w \in Device /\ w.kex = u.kex
             /\ u.heard \subseteq w.heard /\ w.heard \subseteq u.heard \cup {m}
             /\ m = "kex-abort" => m \in w.heard
             /\ \/ w.phase = u.phase /\ w.reason = u.reason
                \/ /\ m = "peer-left" /\ w.phase = "failed" /\ w.reason = "gone"
                   /\ u.phase \in {"peer", "attach"} \/ InHandshake(u)
<1>1. ASSUME NEW w \in Device, w.phase = u.phase, w.kex = u.kex, w.heard = u.heard,
             w.reason = u.reason, m # "kex-abort"
      PROVE  Right(w)
  BY <1>1
<1>2. CASE m = "peer-joined"
  <2> DEFINE w == [u EXCEPT !.joined = TRUE]
  <2>1. v = w
    BY <1>2 DEF Hears
  <2>2. w \in Device
    BY Updates
  <2>3. w.phase = u.phase /\ w.kex = u.kex /\ w.heard = u.heard /\ w.reason = u.reason
    BY DEF Device
  <2> HIDE DEF w, v, Right
  <2>4. Right(w)
    BY <1>1, <1>2, <2>2, <2>3
  <2> QED BY <2>1, <2>4 DEF v, Right
<1>3. CASE m = "sdp"
  <2> DEFINE w == Sdp(u)
  <2>1. v = w
    BY <1>3 DEF Hears
  <2>2. w \in Device
    BY Updates DEF Sdp
  <2>3. w.phase = u.phase /\ w.kex = u.kex /\ w.heard = u.heard /\ w.reason = u.reason
    BY DEF Device, Sdp
  <2> HIDE DEF w, v, Right
  <2>4. Right(w)
    BY <1>1, <1>3, <2>2, <2>3
  <2> QED BY <2>1, <2>4 DEF v, Right
<1>4. CASE m = "ice"
  <2> DEFINE w == Ice(u)
  <2>1. v = w
    BY <1>4 DEF Hears
  <2>2. w \in Device
    <3>1. PICK c \in {"none", "pending", "added"} : w = u \/ w = [u EXCEPT !.candidate = c]
      BY DEF Ice
    <3> HIDE DEF w
    <3> QED BY <3>1, Updates
  <2>3. w.phase = u.phase /\ w.kex = u.kex /\ w.heard = u.heard /\ w.reason = u.reason
    BY DEF Device, Ice
  <2> HIDE DEF w, v, Right
  <2>4. Right(w)
    BY <1>1, <1>4, <2>2, <2>3
  <2> QED BY <2>1, <2>4 DEF v, Right
<1>5. CASE m \in Signals \ {"sdp", "ice"}
  <2> DEFINE w == [u EXCEPT !.heard = u.heard \cup {m}]
  <2>1. v = w
    BY <1>5 DEF Hears, Remember, Signals
  <2>2. w \in Device
    <3>1. u.heard \cup {m} \in SUBSET Signals
      BY <1>5 DEF Device
    <3> QED BY <3>1, Updates
  <2>3. w.phase = u.phase /\ w.kex = u.kex /\ w.heard = u.heard \cup {m} /\ w.reason = u.reason
    BY DEF Device
  <2> HIDE DEF w, v
  <2>4. Right(w)
    BY <2>2, <2>3
  <2> QED BY <2>1, <2>4 DEF v
<1>6. CASE m = "peer-left"
  <2> DEFINE gone == u.phase \in {"peer", "attach"} \/ InHandshake(u)
             After(l) == IF gone THEN Fail(l, "gone") ELSE l
  <2>1. ASSUME NEW l \in Device, l.phase = u.phase, l.kex = u.kex, l.heard = u.heard,
               l.reason = u.reason
        PROVE  Right(After(l))
    <3> DEFINE w == After(l)
    <3>1. w \in Device
      <4>1. Fail(l, "gone") \in Device
        BY <2>1, Updates DEF Fail
      <4> QED BY <2>1, <4>1
    <3>2. /\ w.kex = u.kex /\ w.heard = u.heard
          /\ \/ w.phase = u.phase /\ w.reason = u.reason
             \/ gone /\ w.phase = "failed" /\ w.reason = "gone"
      BY <2>1 DEF Fail, Device
    <3> HIDE DEF w
    <3>3. Right(w)
      BY <1>6, <3>1, <3>2
    <3> QED BY <3>3 DEF w
  <2> HIDE DEF gone, Right
  <2>2. \E l \in Device : /\ l.phase = u.phase /\ l.kex = u.kex /\ l.heard = u.heard
                          /\ l.reason = u.reason /\ v = After(l)
    <3>1. CASE u.link = "waiting"
      <4> DEFINE l == Decide(u, FALSE)
      <4>1. v = After(l)
        BY <1>6, <3>1 DEF Hears, HearsLeft, gone
      <4>2. l \in Device
        BY Updates DEF Decide
      <4>3. l.phase = u.phase /\ l.kex = u.kex /\ l.heard = u.heard /\ l.reason = u.reason
        BY DEF Decide, Device
      <4> HIDE DEF l, v, After
      <4> QED BY <4>1, <4>2, <4>3
    <3>2. CASE u.link = "relay"
      <4> DEFINE l == [u EXCEPT !.shut = TRUE, !.pump = IF @ = "on" THEN "failed" ELSE @]
      <4>1. v = After(l)
        BY <1>6, <3>2 DEF Hears, HearsLeft, gone
      <4>2. l \in Device
        <5>1. u.pump \in {"none", "on", "failed"}
          BY DEF Device
        <5> QED BY <5>1, Updates
      <4>3. l.phase = u.phase /\ l.kex = u.kex /\ l.heard = u.heard /\ l.reason = u.reason
        BY DEF Device
      <4> HIDE DEF l, v, After
      <4> QED BY <4>1, <4>2, <4>3
    <3>3. CASE u.link \notin {"waiting", "relay"}
      <4>1. v = After(u)
        BY <1>6, <3>3 DEF Hears, HearsLeft, gone
      <4> HIDE DEF v, After
      <4> QED BY <4>1
    <3> QED BY <3>1, <3>2, <3>3
  <2> HIDE DEF v, After
  <2>3. Right(v)
    BY <2>1, <2>2
  <2> QED BY <2>3 DEF v, Right
<1> QED BY <1>2, <1>3, <1>4, <1>5, <1>6 DEF Events

LEMMA AuthSignal ==
    ASSUME SetupInv, AuthInv, NEW d \in Devices, DeliverSignal(d)
    PROVE  AuthInv'
<1> DEFINE u == dev[d]
           o == Other(d)
           m == Head(toward[d])
           v == Hears(u, m)
<1>0. /\ TypeOK /\ u \in Device /\ o \in Devices /\ o # d
      /\ d = "sender" \/ d = "receiver"
      /\ Other("sender") = "receiver" /\ Other("receiver") = "sender"
      /\ "sender" \in Devices /\ "receiver" \in Devices
      /\ dev \in [Devices -> Device] /\ toward \in [Devices -> Seq(Events)]
      /\ toward[d] \in Seq(Events) /\ toward[d] # <<>> /\ m \notin Frames
      /\ ToldInv(d) /\ StepsInv /\ BlameInv /\ SaidOf(d)
      /\ faults' = faults /\ match' = match /\ expired' = expired
      /\ ~Busy(u)
  BY Others DEF SetupInv, TypeOK, Devices, AuthInv, DeliverSignal, Quiet, Idle
<1>1. m \in Events /\ m \in Coming(d) /\ Tail(toward[d]) \in Seq(Events)
      /\ Range(Tail(toward[d])) \subseteq Coming(d)
  BY <1>0, RangeTaken DEF Coming
<1>2. /\ v \in Device /\ v.kex = u.kex
      /\ u.heard \subseteq v.heard /\ v.heard \subseteq u.heard \cup {m}
      /\ m = "kex-abort" => m \in v.heard
      /\ \/ v.phase = u.phase /\ v.reason = u.reason
         \/ /\ m = "peer-left" /\ v.phase = "failed" /\ v.reason = "gone"
            /\ u.phase \in {"peer", "attach"} \/ InHandshake(u)
  BY <1>0, <1>1, SignalHeard
<1>3. IF v.phase = "failed" THEN Leaves(d, v, <<>>)
      ELSE /\ dev' = [dev EXCEPT ![d] = v]
           /\ toward' = [toward EXCEPT ![d] = Tail(@)]
           /\ UNCHANGED room
  BY DEF DeliverSignal
<1> HIDE DEF v, m
<1>4. /\ dev'[o] = dev[o] /\ Same(dev'[d], v)
      /\ Coming(d)' \subseteq Coming(d)
      /\ Coming(o)' \subseteq Coming(o) \cup {"peer-left"}
      /\ v.phase # "failed" => toward'[d] = Tail(toward[d])
      /\ Tells(toward[o]) => Tells(toward'[o])
  <2>1. CASE v.phase = "failed"
    <3>1. Leaves(d, v, <<>>)
      BY <1>3, <2>1
    <3>2. <<>> \o <<"peer-left">> \in Seq(Events)
      BY PeerLeft, Messages, RangeJoined
    <3>3. /\ toward' = [Posts(d, <<>> \o <<"peer-left">>) EXCEPT ![d] = <<>>]
          /\ Posts(d, <<>> \o <<"peer-left">>) \in [Devices -> Seq(Events)]
      BY <1>0, <3>1, <3>2, Posted DEF Leaves
    <3>4. toward'[o] = Posts(d, <<>> \o <<"peer-left">>)[o]
      BY <1>0, <3>3
    <3>5. Tells(toward[o]) => Tells(toward'[o])
      BY <1>0, <3>2, <3>4, PostedTells
    <3>6. /\ dev'[o] = dev[o] /\ Same(dev'[d], v) /\ Coming(d)' = {}
          /\ Coming(o)' \subseteq Coming(o) \cup Range(<<>>) \cup {"peer-left"}
      BY <1>0, <1>2, <3>1, Messages, Leaving
    <3> QED BY <2>1, <3>5, <3>6, Messages
  <2>2. CASE v.phase # "failed"
    <3>1. dev' = [dev EXCEPT ![d] = v] /\ toward' = [toward EXCEPT ![d] = Tail(@)]
      BY <1>3, <2>2
    <3>2. /\ dev'[d] = v /\ dev'[o] = dev[o]
          /\ toward'[d] = Tail(toward[d]) /\ toward'[o] = toward[o]
      BY <1>0, <3>1
    <3>3. Coming(d)' \subseteq Coming(d) /\ Coming(o)' = Coming(o)
      BY <1>1, <3>2 DEF Coming
    <3> QED BY <3>2, <3>3 DEF Same
  <2> QED BY <2>1, <2>2
<1>5. /\ dev'[d].heard = v.heard /\ dev'[d].phase = v.phase /\ dev'[d].kex = v.kex
      /\ dev'[d].reason = v.reason
  BY <1>4 DEF Same
<1>6. /\ Told(d)' \subseteq Told(d) \cup {"peer-left"}
      /\ Told(o)' \subseteq Told(o) \cup Range(<<>>) \cup {"peer-left"}
  BY <1>1, <1>2, <1>4, <1>5 DEF Told
<1>7. Whole' = Whole
  BY <1>0 DEF Whole
<1>8. ASSUME dev'["receiver"].phase = "both", Warned
      PROVE  "kex-abort" \in dev'["receiver"].heard \/ Tells(toward'["receiver"])
  <2>1. CASE d = "receiver"
    <3>1. toward'[d] = Tail(toward[d])
      BY <1>4, <1>5, <1>8, <2>1
    <3>2. CASE "kex-abort" \in u.heard
      BY <1>2, <1>5, <2>1, <3>2
    <3>3. CASE Tells(toward[d])
      <4>1. m = "kex-abort" \/ Tells(Tail(toward[d]))
        BY <1>0, <3>3, TellsTaken DEF m
      <4> QED BY <1>2, <1>5, <2>1, <3>1, <4>1
    <3> QED BY <1>8, <2>1, <3>2, <3>3 DEF Warned
  <2>2. CASE o = "receiver"
    BY <1>4, <1>8, <2>2 DEF Warned
  <2> QED BY <1>0, <2>1, <2>2
<1>9. AuthStep(d, <<>>)
  <2>1. dev'["receiver"].phase = "both" /\ Warned => Warned'
    BY <1>8 DEF Warned
  <2> QED BY <1>0, <1>4, <1>6, <1>7, <2>1 DEF AuthStep
<1>10. Truly(dev'[d], <<>>)
  BY Messages DEF Truly
<1>11. CASE v.phase = u.phase /\ v.reason = u.reason
  <2>1. d = "sender" => v.kex \in {"off", "response", "done"}
    BY <1>0, <1>2 DEF StepsInv
  <2>2. GoesOn(d, u, dev'[d])
    BY <1>2, <1>5, <1>11, <2>1 DEF GoesOn
  <2> QED BY <1>9, <1>10, <2>2, GoingOn
<1>12. CASE /\ m = "peer-left" /\ v.phase = "failed" /\ v.reason = "gone"
            /\ u.phase \in {"peer", "attach"} \/ InHandshake(u)
  <2>1. u.phase # "failed"
    BY <1>12 DEF InHandshake
  <2>2. ASSUME d = "receiver", Whole'
        PROVE  dev["sender"].reason # "auth" /\ dev["sender"].phase = "failed"
    <3>1. Whole /\ faults = 0
      BY <1>7, <2>2 DEF Whole
    <3>2. dev["sender"].phase = "failed"
      BY <1>0, <1>1, <1>12, <2>2, <3>1 DEF ToldInv
    <3>3. u.reason # "auth"
      BY <1>0, <2>1 DEF SaidOf
    <3>4. ~Tells(toward[d])
      BY <1>0, <1>12, TellsTaken DEF m
    <3>5. InHandshake(u) => "kex-abort" \notin u.heard
      BY <1>0 DEF Busy, StepHeard
    <3>6. ~(u.phase = "both" /\ u.kex = "confirm" /\ Warned)
      BY <1>12, <2>2, <3>4, <3>5 DEF Warned
    <3> QED BY <1>0, <2>2, <3>1, <3>2, <3>3, <3>6 DEF BlameInv
  <2>3. GivesUp(d, u, dev'[d])
    BY <1>2, <1>5, <1>12, <2>1, <2>2 DEF GivesUp
  <2> QED BY <1>9, <1>10, <2>3, GivingUp
<1> QED BY <1>2, <1>11, <1>12

\* A step that changes nothing of the handshake in d, and takes no message but a
\* frame.
LEMMA AuthElsewhere ==
    ASSUME SetupInv, AuthInv, NEW d \in Devices, dev'[Other(d)] = dev[Other(d)],
           dev'[d].phase = dev[d].phase, dev'[d].kex = dev[d].kex,
           dev'[d].heard = dev[d].heard, dev'[d].reason = dev[d].reason,
           \A e \in Devices : Coming(e)' \subseteq Coming(e) \cup {"peer-left"},
           match' = match, Whole' => Whole,
           Whole' /\ Tells(toward["receiver"]) => Tells(toward'["receiver"])
    PROVE  AuthInv'
<1>0. /\ Other(d) \in Devices /\ "receiver" \in Devices
      /\ d = "receiver" \/ Other(d) = "receiver"
  BY Others DEF Devices
<1>1. dev'["receiver"].heard = dev["receiver"].heard
  BY <1>0
<1>2. /\ Told(d)' \subseteq Told(d) \cup {"peer-left"}
      /\ Told(Other(d))' \subseteq Told(Other(d)) \cup Range(<<>>) \cup {"peer-left"}
  BY <1>0 DEF Told
<1>3. Whole' /\ Warned => Warned'
  BY <1>1 DEF Warned
<1>4. AuthStep(d, <<>>)
  BY <1>2, <1>3 DEF AuthStep
<1>5. Truly(dev'[d], <<>>)
  BY Messages DEF Truly
<1>6. GoesOn(d, dev[d], dev'[d])
  BY DEF GoesOn, AuthInv, StepsInv
<1> QED BY <1>4, <1>5, <1>6, GoingOn

LEMMA AuthArrives ==
    ASSUME SetupInv, AuthInv, DeliverRelayed \/ DeliverDirect
    PROVE  AuthInv'
<1> DEFINE u == dev["receiver"]
<1>0. /\ "receiver" \in Devices /\ "sender" \in Devices /\ Other("receiver") = "sender"
      /\ \A e \in Devices : e = "sender" \/ e = "receiver"
      /\ dev \in [Devices -> Device] /\ toward \in [Devices -> Seq(Events)]
      /\ u \in Device /\ toward["receiver"] \in Seq(Events)
      /\ faults' = faults /\ match' = match /\ expired' = expired
  BY Others DEF SetupInv, TypeOK, Devices, DeliverRelayed, DeliverDirect
<1>1. PICK frame, kind : Arrives(frame, kind)
  BY DEF DeliverRelayed, DeliverDirect
<1>2. dev' = dev \/ dev' = [dev EXCEPT !["receiver"] = Opened(u, frame)]
  BY <1>1 DEF Arrives
<1>3. /\ Opened(u, frame).phase = u.phase /\ Opened(u, frame).kex = u.kex
      /\ Opened(u, frame).heard = u.heard /\ Opened(u, frame).reason = u.reason
  BY <1>0 DEF Opened, Device
<1>4. /\ dev'["sender"] = dev["sender"]
      /\ dev'["receiver"].phase = u.phase /\ dev'["receiver"].kex = u.kex
      /\ dev'["receiver"].heard = u.heard /\ dev'["receiver"].reason = u.reason
  BY <1>0, <1>2, <1>3
<1>5. /\ toward'["sender"] = toward["sender"]
      /\ Range(toward'["receiver"]) \subseteq Range(toward["receiver"])
      /\ Tells(toward["receiver"]) => Tells(toward'["receiver"])
  <2>1. CASE DeliverRelayed
    <3>1. /\ toward["receiver"] # <<>> /\ Head(toward["receiver"]) # "kex-abort"
          /\ toward' = [toward EXCEPT !["receiver"] = Tail(@)]
      BY <2>1 DEF DeliverRelayed, Frames
    <3>2. Range(Tail(toward["receiver"])) \subseteq Range(toward["receiver"])
      BY <1>0, <3>1, RangeTaken
    <3>3. Tells(toward["receiver"]) => Tells(Tail(toward["receiver"]))
      BY <1>0, <3>1, TellsTaken
    <3>4. /\ toward'["receiver"] = Tail(toward["receiver"])
          /\ toward'["sender"] = toward["sender"]
      BY <1>0, <3>1
    <3> QED BY <3>2, <3>3, <3>4
  <2>2. CASE DeliverDirect
    BY <2>2 DEF DeliverDirect
  <2> QED BY <2>1, <2>2
<1>6. \A e \in Devices : Coming(e)' \subseteq Coming(e) \cup {"peer-left"}
  <2>1. Coming("sender")' = Coming("sender") /\ Coming("receiver")' \subseteq Coming("receiver")
    BY <1>5 DEF Coming
  <2> QED BY <1>0, <2>1
<1>7. Whole' => Whole
  BY <1>0 DEF Whole
<1> QED BY <1>0, <1>4, <1>5, <1>6, <1>7, AuthElsewhere

LEMMA AuthClosed ==
    ASSUME SetupInv, AuthInv, NEW d \in Devices, ChannelCloses(d) \/ ChannelLost(d)
    PROVE  AuthInv'
<1> DEFINE u == dev[d]
<1>0. /\ Other(d) \in Devices /\ Other(d) # d /\ u \in Device /\ dev \in [Devices -> Device]
      /\ faults \in Nat
  BY Others, SessionAssumption DEF SetupInv, TypeOK
<1>1. /\ dev' = [dev EXCEPT ![d] = HearsClosed(u)] /\ toward' = toward
      /\ match' = match /\ expired' = expired
      /\ faults' = faults \/ faults' = faults + 1
  BY DEF ChannelCloses, ChannelLost, Quiet
<1>2. /\ HearsClosed(u).phase = u.phase /\ HearsClosed(u).kex = u.kex
      /\ HearsClosed(u).heard = u.heard /\ HearsClosed(u).reason = u.reason
  BY <1>0 DEF HearsClosed, Device
<1>3. dev'[Other(d)] = dev[Other(d)] /\ dev'[d] = HearsClosed(u)
  BY <1>0, <1>1
<1>4. faults' = 0 => faults = 0
  BY <1>0, <1>1
<1>5. Whole' => Whole
  BY <1>1, <1>4 DEF Whole
<1>6. \A e \in Devices : Coming(e)' \subseteq Coming(e) \cup {"peer-left"}
  BY <1>1 DEF Coming
<1> QED BY <1>1, <1>2, <1>3, <1>5, <1>6, AuthElsewhere

LEMMA AuthFaults ==
    ASSUME SetupInv, AuthInv, RoomCloses \/ \E d \in Devices : SocketLost(d)
    PROVE  AuthInv'
<1>0. /\ dev \in [Devices -> Device] /\ toward \in [Devices -> Seq(Events)]
      /\ "sender" \in Devices /\ "peer-left" \in Events /\ <<>> \in Seq(Events)
      /\ faults \in Nat /\ Range(<<>>) = {}
  BY Messages, PeerLeft, SessionAssumption DEF SetupInv, TypeOK, Devices
<1>1. match' = match /\ faults' = faults + 1
  BY DEF RoomCloses, SocketLost
<1>2. ~Whole'
  <2>1. faults' # 0
    BY <1>0, <1>1
  <2> QED BY <2>1 DEF Whole
<1>3. CASE RoomCloses
  <2>1. ASSUME NEW e \in Devices
        PROVE  Coming(e)' \subseteq Coming(e) \cup {"peer-left"}
    <3>1. Range(Append(toward[e], "peer-left")) = Range(toward[e]) \cup {"peer-left"}
      BY <1>0, RangeAppended
    <3>2. toward'[e] = Append(toward[e], "peer-left") \/ toward'[e] = toward[e]
      BY <1>3 DEF RoomCloses
    <3> QED BY <3>1, <3>2 DEF Coming
  <2>2. dev' = dev
    BY <1>3 DEF RoomCloses
  <2> QED BY <1>0, <1>1, <1>2, <2>1, <2>2, AuthElsewhere
<1>4. ASSUME NEW d \in Devices, SocketLost(d)
      PROVE  AuthInv'
  <2> DEFINE o == Other(d)
  <2>0. o \in Devices /\ o # d /\ dev[d] \in Device /\ \A e \in Devices : e = d \/ e = o
    BY <1>0, Others
  <2>1. PICK n \in 0..Len(toward[o]) :
          toward' = [toward EXCEPT ![d] = <<>>,
                       ![o] = IF room = "open" /\ dev[o].online
                              THEN Append(SubSeq(@, 1, n), "peer-left") ELSE @]
    BY <1>4 DEF SocketLost
  <2> DEFINE kept == SubSeq(toward[o], 1, n)
  <2>2. kept \in Seq(Events) /\ Range(kept) \subseteq Range(toward[o])
    BY <1>0, <2>0, <2>1, RangeCut
  <2>3. toward' = [toward EXCEPT ![d] = <<>>,
                     ![o] = IF room = "open" /\ dev[o].online
                            THEN Append(kept, "peer-left") ELSE toward[o]]
    BY <1>0, <2>0, <2>1
  <2> HIDE DEF kept
  <2>4. Range(Append(kept, "peer-left")) = Range(kept) \cup {"peer-left"}
    BY <1>0, <2>2, RangeAppended
  <2>5. /\ toward'[d] = <<>>
        /\ toward'[o] = Append(kept, "peer-left") \/ toward'[o] = toward[o]
    BY <1>0, <2>0, <2>3
  <2>6. /\ Coming(d)' \subseteq Coming(d) \cup {"peer-left"}
        /\ Coming(o)' \subseteq Coming(o) \cup {"peer-left"}
    BY <1>0, <2>2, <2>4, <2>5 DEF Coming
  <2>7. \A e \in Devices : Coming(e)' \subseteq Coming(e) \cup {"peer-left"}
    BY <2>0, <2>6
  <2>8. dev' = [dev EXCEPT ![d] = [dev[d] EXCEPT !.online = FALSE]]
    BY <1>4 DEF SocketLost
  <2>9. dev'[o] = dev[o] /\ dev'[d] = [dev[d] EXCEPT !.online = FALSE]
    BY <1>0, <2>0, <2>8
  <2>10. /\ dev'[d].phase = dev[d].phase /\ dev'[d].kex = dev[d].kex
         /\ dev'[d].heard = dev[d].heard /\ dev'[d].reason = dev[d].reason
    BY <2>0, <2>9 DEF Device
  <2> QED BY <1>1, <1>2, <2>7, <2>9, <2>10, AuthElsewhere
<1> QED BY <1>3, <1>4

LEMMA AuthInit ==
    ASSUME Init
    PROVE  AuthInv
<1>0. Range(<<>>) = {} /\ <<>> \in Seq(Events) /\ "sender" \in Devices /\ "receiver" \in Devices
  BY Messages DEF Devices
<1>1. \A d \in Devices : /\ dev[d].reason = "none" /\ dev[d].kex = "off" /\ dev[d].heard = {}
                         /\ dev[d].phase \in {"derive", "join"} /\ Coming(d) = {}
  <2>1. NewDevice.reason = "none" /\ NewDevice.kex = "off" /\ NewDevice.heard = {}
        /\ NewDevice.phase = "derive"
    BY DEF NewDevice
  <2> DEFINE late == [NewDevice EXCEPT !.phase = "join", !.online = FALSE]
  <2>2. late.reason = "none" /\ late.kex = "off" /\ late.heard = {} /\ late.phase = "join"
    BY DEF NewDevice
  <2>3. \A d \in Devices : dev[d] = NewDevice \/ dev[d] = late
    BY DEF Init
  <2>4. \A d \in Devices : Coming(d) = {}
    BY <1>0 DEF Init, Coming
  <2> HIDE DEF late
  <2> QED BY <2>1, <2>2, <2>3, <2>4
<1>2. \A d \in Devices : SaidOf(d)
  BY <1>1 DEF SaidOf, Told
<1>3. StepsInv /\ BlameInv
  BY <1>0, <1>1 DEF StepsInv, BlameInv
<1> QED BY <1>2, <1>3 DEF AuthInv

LEMMA AuthKept ==
    ASSUME SetupInv, AuthInv, [Next]_vars
    PROVE  AuthInv'
<1>1. CASE UNCHANGED vars
  <2>1. /\ dev' = dev /\ toward' = toward /\ match' = match
        /\ faults' = faults /\ expired' = expired
    BY <1>1 DEF vars
  <2> QED BY <2>1 DEF AuthInv, SaidOf, Told, Coming, StepsInv, BlameInv, Whole, Warned
<1>2. CASE Opening
  BY <1>2, AuthOpening, AuthJoined, AuthJoinRefused DEF Opening
<1>3. CASE Handshake
  BY <1>3, AuthHandshake, AuthTimeouts DEF Handshake
<1>4. CASE Linking
  BY <1>4, AuthLinking
<1>5. CASE Starting
  BY <1>5, AuthStarting, AuthTimeouts DEF Starting
<1>6. CASE Hearing
  BY <1>6, AuthArrives, AuthSignal, AuthClosed DEF Hearing
<1>7. CASE Faults
  BY <1>7, AuthClosed, AuthFaults DEF Faults
<1> QED BY <1>1, <1>2, <1>3, <1>4, <1>5, <1>6, <1>7 DEF Next

\* The strengthening that WrongPassphraseTold rests on: the receiver is never the
\* first to name a wrong passphrase, and hears of it before it hears of the end.
THEOREM BlameHolds == Spec => []AuthInv
<1>1. Init => AuthInv
  BY AuthInit
<1>2. SetupInv /\ AuthInv /\ [Next]_vars => AuthInv'
  BY AuthKept
<1> QED BY <1>1, <1>2, SetupHolds, PTL DEF Spec

\* A wrong passphrase is named on both devices, and nothing else is called one
\* (handshake.ts:96-101): once one device reports it, the other does not end with
\* another reason, while nothing was lost or late.
THEOREM WrongPassphraseTold == Spec => []AuthTold
<1>1. ASSUME AuthInv, NEW d \in Devices, dev[d].reason = "auth"
      PROVE  ~match /\ (Whole => dev[Other(d)].reason \in {"none", "auth"})
  <2>1. /\ SaidOf(d) /\ SaidOf("receiver") /\ BlameInv
        /\ d = "sender" \/ d = "receiver"
        /\ Other("sender") = "receiver" /\ Other("receiver") = "sender"
    BY <1>1, Others DEF AuthInv, Devices
  <2>2. CASE d = "receiver"
    BY <1>1, <2>1, <2>2 DEF BlameInv, SaidOf
  <2>3. CASE d = "sender"
    <3>1. ASSUME Whole
          PROVE  dev["receiver"].reason \in {"none", "auth"}
      BY <1>1, <2>1, <2>3, <3>1 DEF BlameInv, SaidOf
    <3> QED BY <1>1, <2>1, <2>3, <3>1 DEF SaidOf
  <2> QED BY <2>1, <2>2, <2>3
<1>2. AuthInv => AuthTold
  BY <1>1 DEF AuthTold
<1> QED BY <1>2, BlameHolds, PTL
=============================================================================
