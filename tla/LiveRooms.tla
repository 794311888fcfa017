----------------------------- MODULE LiveRooms -----------------------------
(***************************************************************************)
(* Live sessions: server/live.js, with the throttle of module Guard on its *)
(* live:join event and the code registry they share.                       *)
(*                                                                         *)
(* Every handler runs to its end without an await and is one action.  The  *)
(* transport is the sequence of events emitted to a socket and not yet     *)
(* written to its connection.  Acknowledgements and live:error go back to  *)
(* the caller and are left out, as is a handler that only sends those.     *)
(* forward's branch for a peer whose socket is missing is left out too:    *)
(* RoomsConsistent shows that no room has such a peer.                     *)
(*                                                                         *)
(* A definition directly above one with the same parameters, and named for *)
(* what it gets wrong, is a defect the properties are tried against.       *)
(***************************************************************************)
EXTENDS Guard, Sequences, SequencesExt

CONSTANTS
    Sockets,      \* socket ids; Socket.IO never returns one twice
    None,         \* no socket, no address, no room
    RoomsPerIp,   \* config.liveRoomsPerIp
    SocketsPerIp, \* config.maxSocketsPerIp
    MaxBuffer,    \* the length of a peer's writeBuffer that is still tolerated
    MaxBacklog    \* bound: events unwritten anywhere when a session starts

Room == [host : Sockets, guest : Sockets \cup {None}, owner : Ips, idle : BOOLEAN]

ASSUME LiveAssumption ==
    /\ None \notin Sockets \cup Ips \cup Codes \cup Room
    /\ IsFiniteSet(Sockets)
    /\ IsFiniteSet(Codes)
    /\ RoomsPerIp \in Nat
    /\ SocketsPerIp \in Nat
    /\ MaxBuffer \in Nat
    /\ MaxBacklog \in Nat

VARIABLES
    conn,          \* each connection: to come, admitted, or gone
    addr,          \* socketIp of each socket
    rooms,         \* map code -> room
    socketRoom,    \* map socket id -> room code
    roomsByIp,     \* rooms hosted per address
    socketsByIp,   \* sockets open per address
    buffer         \* events emitted to each socket and not yet written

people   == <<conn, addr, socketsByIp>>
guarding == <<hits, failures, clock, kept, failed>>
liveVars == <<people, rooms, socketRoom, roomsByIp, buffer>>
vars     == <<guardVars, liveVars>>

Event == [kind : {"joined", "left", "frame"}, from : Sockets \cup {None}]

TypeOK ==
    /\ GuardTypeOK
    /\ conn \in [Sockets -> {"new", "open", "gone"}]
    /\ addr \in [Sockets -> Ips \cup {None}]
    /\ rooms \in [Codes -> Room \cup {None}]
    /\ socketRoom \in [Sockets -> Codes \cup {None}]
    /\ roomsByIp \in [Ips -> Nat]
    /\ socketsByIp \in [Ips -> Nat]
    /\ buffer \in [Sockets -> Seq(Event)]

Init ==
    /\ GuardInit
    /\ conn = [s \in Sockets |-> "new"]
    /\ addr = [s \in Sockets |-> None]
    /\ rooms = [c \in Codes |-> None]
    /\ socketRoom = [s \in Sockets |-> None]
    /\ roomsByIp = [ip \in Ips |-> 0]
    /\ socketsByIp = [ip \in Ips |-> 0]
    /\ buffer = [s \in Sockets |-> <<>>]

----------------------------------------------------------------------------
(* Helpers *)

Joined  == [kind |-> "joined", from |-> None]
Left    == [kind |-> "left", from |-> None]
Frame(s) == [kind |-> "frame", from |-> s]

Members(room) == {room.host, room.guest} \ {None}

\* The room a socket is in: rooms.get(socketRoom.get(socket.id)).
RoomOf(s) == IF socketRoom[s] = None THEN None ELSE rooms[socketRoom[s]]

PeerIsHost(room, s) == room.host
peerIdOf(room, s) ==
    CASE room.host = s  -> room.guest
      [] room.guest = s -> room.host
      [] OTHER          -> None

\* An event emitted to a socket that is gone is dropped.
Told(S) == [s \in Sockets |-> IF s \in S /\ conn[s] = "open" THEN Append(buffer[s], Left)
                              ELSE buffer[s]]

KeepRoomSlot(ip) == roomsByIp
releaseRoomSlot(ip) == [roomsByIp EXCEPT ![ip] = IF @ <= 1 THEN 0 ELSE @ - 1]

\* Everything closeRoom does but the peer-left events.
ForgetRoom(code) ==
    /\ rooms' = [rooms EXCEPT ![code] = None]
    /\ registry' = [registry EXCEPT ![code] = "none"]
    /\ roomsByIp' = releaseRoomSlot(rooms[code].owner)

GuestLeaves(code) ==
    socketRoom' = [s \in Sockets |-> IF s = rooms[code].guest THEN None ELSE socketRoom[s]]
LeaveRoom(code) ==
    socketRoom' = [s \in Sockets |-> IF s \in Members(rooms[code]) THEN None ELSE socketRoom[s]]

TellGuest(code, except) == buffer' = Told({rooms[code].guest} \ {except, None})
TellMembers(code, except) == buffer' = Told(Members(rooms[code]) \ {except})

closeRoom(code, except) == ForgetRoom(code) /\ LeaveRoom(code) /\ TellMembers(code, except)

----------------------------------------------------------------------------
(* Connections *)

\* A connection over the cap is disconnected before it gets any handler.
Connect(s, ip) ==
    /\ conn[s] = "new"
    /\ socketsByIp[ip] + 1 <= SocketsPerIp
    /\ conn' = [conn EXCEPT ![s] = "open"]
    /\ addr' = [addr EXCEPT ![s] = ip]
    /\ socketsByIp' = [socketsByIp EXCEPT ![ip] = @ + 1]
    /\ UNCHANGED <<guardVars, rooms, socketRoom, roomsByIp, buffer>>

\* Both disconnect handlers, and the end of the transport.
Disconnect(s) ==
    /\ conn[s] = "open"
    /\ conn' = [conn EXCEPT ![s] = "gone"]
    /\ socketsByIp' = [socketsByIp EXCEPT ![addr[s]] = IF @ <= 1 THEN 0 ELSE @ - 1]
    /\ IF RoomOf(s) # None
       THEN /\ ForgetRoom(socketRoom[s])
            /\ LeaveRoom(socketRoom[s])
            /\ buffer' = [Told(Members(RoomOf(s)) \ {s}) EXCEPT ![s] = <<>>]
       ELSE /\ socketRoom' = [socketRoom EXCEPT ![s] = None]
            /\ buffer' = [buffer EXCEPT ![s] = <<>>]
            /\ UNCHANGED <<registry, rooms, roomsByIp>>
    /\ UNCHANGED <<guarding, addr>>

\* The oldest event of a socket is written to its connection.
Write(s) ==
    /\ buffer[s] # <<>>
    /\ buffer' = [buffer EXCEPT ![s] = Tail(@)]
    /\ UNCHANGED <<guardVars, people, rooms, socketRoom, roomsByIp>>

----------------------------------------------------------------------------
(* live:host and live:join *)

InSession(s) == socketRoom[s] # None

\* A socket may start a session with news of its last one still unwritten.
Ready(s) == conn[s] = "open" /\ ~InSession(s)
KeepsUp == FoldFunction(+, 0, [s \in Sockets |-> Len(buffer[s])]) <= MaxBacklog

Host(s, code) ==
    /\ Ready(s)
    /\ KeepsUp
    /\ roomsByIp[addr[s]] < RoomsPerIp
    /\ registry[code] = "none"
    /\ registry' = [registry EXCEPT ![code] = "live"]
    /\ roomsByIp' = [roomsByIp EXCEPT ![addr[s]] = @ + 1]
    /\ rooms' = [rooms EXCEPT ![code] = [host |-> s, guest |-> None, owner |-> addr[s],
                                         idle |-> FALSE]]
    /\ socketRoom' = [socketRoom EXCEPT ![s] = code]
    /\ UNCHANGED <<guarding, people, buffer>>

\* The room has its receiver; the code was no guess and is refunded.
FullUnrefunded(ip, code) ==
    /\ Allowed(ip) /\ ~Locked(code)
    /\ hits' = [hits EXCEPT ![ip] = Checked(ip)]
    /\ UNCHANGED <<failures, kept, failed>>
Full(ip, code) == Found(ip, code)

\* A lookup that leads to no room, or to one that has its receiver.
JoinRefused(s, code) ==
    /\ Ready(s)
    /\ \/ Throttled(addr[s])
       \/ LockedOut(addr[s], code)
       \/ rooms[code] = None /\ Missed(addr[s], code)
       \/ rooms[code] # None /\ rooms[code].guest # None /\ Full(addr[s], code)
    /\ UNCHANGED <<registry, clock, liveVars>>

Free(room) == room.guest = None

Join(s, code) ==
    /\ Ready(s)
    /\ KeepsUp
    /\ rooms[code] # None
    /\ Free(rooms[code])
    /\ Found(addr[s], code)
    /\ rooms' = [rooms EXCEPT ![code].guest = s, ![code].idle = FALSE]
    /\ socketRoom' = [socketRoom EXCEPT ![s] = code]
    /\ buffer' = [buffer EXCEPT ![rooms[code].host] = Append(@, Joined)]
    /\ UNCHANGED <<registry, clock, people, roomsByIp>>

----------------------------------------------------------------------------
(* forward: live:signal and live:data *)

\* The room shows a sign of life even when nobody is there to receive.
Alone(s) ==
    /\ RoomOf(s) # None
    /\ peerIdOf(RoomOf(s), s) = None
    /\ rooms' = [rooms EXCEPT ![socketRoom[s]].idle = FALSE]
    /\ UNCHANGED <<guardVars, people, socketRoom, roomsByIp, buffer>>

Relay(s) ==
    /\ RoomOf(s) # None
    /\ LET peer == peerIdOf(RoomOf(s), s)
       IN  /\ peer # None
           /\ conn[peer] = "open"
           /\ Len(buffer[peer]) <= MaxBuffer
           /\ buffer' = [buffer EXCEPT ![peer] = Append(@, Frame(s))]
    /\ rooms' = [rooms EXCEPT ![socketRoom[s]].idle = FALSE]
    /\ UNCHANGED <<guardVars, people, socketRoom, roomsByIp>>

\* The safety valve: a peer that has fallen too far behind ends the session.
Congested(s) ==
    /\ RoomOf(s) # None
    /\ LET peer == peerIdOf(RoomOf(s), s)
       IN  /\ peer # None
           /\ conn[peer] = "open"
           /\ Len(buffer[peer]) > MaxBuffer
    /\ closeRoom(socketRoom[s], None)
    /\ UNCHANGED <<guarding, people>>

----------------------------------------------------------------------------

\* live:bye
Bye(s) ==
    /\ conn[s] = "open"
    /\ RoomOf(s) # None
    /\ closeRoom(socketRoom[s], s)
    /\ UNCHANGED <<guarding, people>>

\* liveRoomIdleMs pass without a sign of life.
GrowIdle(code) ==
    /\ rooms[code] # None
    /\ ~rooms[code].idle
    /\ rooms' = [rooms EXCEPT ![code].idle = TRUE]
    /\ UNCHANGED <<guardVars, people, socketRoom, roomsByIp, buffer>>

\* The timer, for one room of its pass.
CloseIdle(code) ==
    /\ rooms[code] # None
    /\ rooms[code].idle
    /\ closeRoom(code, None)
    /\ UNCHANGED <<guarding, people>>

SocketStep(s) ==
    \/ Disconnect(s) \/ Write(s) \/ Bye(s)
    \/ Alone(s) \/ Relay(s) \/ Congested(s)
    \/ \E ip \in Ips : Connect(s, ip)
    \/ \E code \in Codes : Host(s, code) \/ JoinRefused(s, code) \/ Join(s, code)

Next ==
    \/ \E s \in Sockets : SocketStep(s)
    \/ \E code \in Codes : GrowIdle(code) \/ CloseIdle(code)
    \/ GuardStep /\ UNCHANGED liveVars

Spec == Init /\ [][Next]_vars

----------------------------------------------------------------------------
(* Properties *)

\* The maps of live.js and codes.js agree: a socket is in the room that names
\* it and in no other, the code of a room is its own in the registry, and both
\* devices of a room are connected - so forward's branch for a peer socket that
\* is missing is never taken.
RoomsConsistent ==
    /\ \A c \in Codes : rooms[c] # None =>
           /\ registry[c] = "live"
           /\ rooms[c].host # rooms[c].guest
           /\ \A s \in Members(rooms[c]) : socketRoom[s] = c /\ conn[s] = "open"
           /\ rooms[c].owner = addr[rooms[c].host]
    /\ \A s \in Sockets : socketRoom[s] # None =>
           RoomOf(s) # None /\ s \in Members(RoomOf(s))
    /\ \A c \in Codes : registry[c] = "live" => rooms[c] # None

\* An address is charged for exactly the rooms it hosts and the sockets it has
\* open, whichever of the five ways a room ends by (takeRoomSlot,
\* releaseRoomSlot and the two disconnect handlers).
Hosted(ip) == {c \in Codes : rooms[c] # None /\ rooms[c].owner = ip}
Opened(ip) == {s \in Sockets : conn[s] = "open" /\ addr[s] = ip}

ChargedExactly ==
    \A ip \in Ips :
        /\ roomsByIp[ip] = Cardinality(Hosted(ip))
        /\ socketsByIp[ip] = Cardinality(Opened(ip))

\* What is relayed to a socket comes from the one other device of its session
\* (forward, peerIdOf).
RelayedWithinPair ==
    [][\A s, t \in Sockets :
           Len(buffer'[t]) > Len(buffer[t]) /\ Last(buffer'[t]) = Frame(s) =>
               \E c \in Codes : rooms[c] # None /\ Members(rooms[c]) = {s, t}]_vars

\* A device that loses its session without asking to is told so (closeRoom).
NobodyLeftWaiting ==
    [][\A s \in Sockets :
           socketRoom[s] # None /\ socketRoom'[s] = None /\ ~Bye(s) /\ ~Disconnect(s) =>
               buffer'[s] # <<>> /\ Last(buffer'[s]) = Left]_vars

\* A receiver that is in stays in: no second one takes its place (live:join).
ReceiverKept ==
    [][\A c \in Codes : rooms[c] # None /\ rooms'[c] # None /\ rooms[c].guest # None =>
           rooms'[c].guest = rooms[c].guest /\ rooms'[c].host = rooms[c].host]_vars

\* Whatever the rooms do, the lookups and the registry of this module are those
\* of module Guard: its budget holds for both surfaces together.
ImplementsGuard == GuardSpec
=============================================================================
