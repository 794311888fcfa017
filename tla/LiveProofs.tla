----------------------------- MODULE LiveProofs -----------------------------
(***************************************************************************)
(* Theorems about modules Guard and LiveRooms, for every number of          *)
(* sockets, codes, addresses and attempts.                                 *)
(*                                                                         *)
(* First the throttle alone, under the requests of GuardSpec.  Then the    *)
(* rooms, whose lookups go through it: their maps agree, they implement    *)
(* Guard, charge every address exactly, never replace a receiver, and      *)
(* relay no frame outside of the pair.                                     *)
(***************************************************************************)
EXTENDS LiveRooms, FiniteSetTheorems, TLAPS

(***************************************************************************)
(* Guard                                                                   *)
(***************************************************************************)

\* What makes the properties inductive: attempts carry distinct places, older
\* than the next one, and an address holds finitely many.
Ordered(S) == IsFiniteSet(S) /\ \A h \in S : h.n < kept

GuardInv ==
    /\ GuardTypeOK
    /\ \A ip \in Ips : Ordered(hits[ip]) /\ Ordered(failed[ip])
    /\ OnlyFailuresCount
    /\ OneBudget

----------------------------------------------------------------------------
(* The rate limiter *)

\* Only attempts inside the window survive, and doing it again changes nothing.
LEMMA RecentIsSubset ==
    ASSUME NEW S
    PROVE  Recent(S) \subseteq S /\ Recent(Recent(S)) = Recent(S)
BY DEF Recent

\* A refund gives back exactly the attempt it belongs to (pardon after check).
LEMMA PardonUndoesCheck ==
    ASSUME NEW ip \in Ips, GuardTypeOK, Ordered(hits[ip])
    PROVE  Pardon(Checked(ip)) = Recent(hits[ip])
<1> DEFINE R == Recent(hits[ip])
<1>1. \A h \in R : h.n < kept
  BY DEF Ordered, Recent
<1>2. kept \in Nat /\ \A h \in R : h.n \in Nat
  BY DEF GuardTypeOK, Attempt, Recent
<1>3. \A h \in R : h \in Pardon(Checked(ip))
  <2> SUFFICES ASSUME NEW h \in R PROVE h \in Pardon(Checked(ip))
    OBVIOUS
  <2>1. h \in Checked(ip) /\ ThisAttempt \in Checked(ip)
    BY DEF Checked
  <2>2. ThisAttempt.n > h.n
    BY <1>1, <1>2 DEF ThisAttempt
  <2> QED
    BY <2>1, <2>2 DEF Pardon
<1>4. \A h \in Pardon(Checked(ip)) : h \in R
  <2> SUFFICES ASSUME NEW h \in Checked(ip), NEW g \in Checked(ip), g.n > h.n
               PROVE  h \in R
    BY DEF Pardon
  <2>1. g.n <= kept
    BY <1>1, <1>2 DEF Checked, ThisAttempt
  <2>2. h # ThisAttempt
    BY <1>1, <1>2, <2>1 DEF Checked, ThisAttempt
  <2> QED
    BY <2>2 DEF Checked
<1> QED
  BY <1>3, <1>4

----------------------------------------------------------------------------
(* The invariant *)

LEMMA GuardInitInv == GuardInit => GuardInv
<1> SUFFICES ASSUME GuardInit PROVE GuardInv
  OBVIOUS
<1>1. GuardTypeOK
  BY DEF GuardInit, GuardTypeOK, Entry, Attempt
<1>2. \A ip \in Ips : hits[ip] = {} /\ failed[ip] = {}
  BY DEF GuardInit
<1>3. IsFiniteSet({}) /\ Cardinality({}) = 0
  BY FS_EmptySet
<1>4. Recent({}) = {}
  BY DEF Recent
<1>5. \A ip \in Ips : Ordered(hits[ip]) /\ Ordered(failed[ip])
  BY <1>2, <1>3 DEF Ordered
<1>6. OnlyFailuresCount
  BY <1>2 DEF OnlyFailuresCount
<1>7. OneBudget
  BY <1>2, <1>3, <1>4, GuardAssumption DEF OneBudget
<1> QED
  BY <1>1, <1>5, <1>6, <1>7 DEF GuardInv

\* One lookup, whatever it finds.
LEMMA LookupInv ==
    ASSUME GuardInv, NEW ip \in Ips, NEW code \in Codes, NEW real, Lookup(ip, code, real)
    PROVE  GuardInv'
<1>1. GuardTypeOK /\ Ordered(hits[ip]) /\ Ordered(failed[ip]) /\ kept \in Nat
      /\ registry' = registry /\ clock' = clock /\ clock \in Nat
  BY DEF GuardInv, GuardTypeOK, Lookup
<1>2. Recent(hits[ip]) = Recent(failed[ip])
  BY DEF GuardInv, OnlyFailuresCount
<1>3. /\ Recent(hits[ip]) \subseteq hits[ip]
      /\ IsFiniteSet(Recent(hits[ip]))
      /\ Ordered(Recent(hits[ip]))
      /\ Recent(Recent(hits[ip])) = Recent(hits[ip])
  <2>1. Recent(hits[ip]) \subseteq hits[ip] /\ Recent(Recent(hits[ip])) = Recent(hits[ip])
    BY RecentIsSubset
  <2>2. IsFiniteSet(Recent(hits[ip]))
    BY <1>1, <2>1, FS_Subset DEF Ordered
  <2> QED
    BY <1>1, <2>1, <2>2 DEF Ordered
<1>5. CASE hits' = [hits EXCEPT ![ip] = Recent(@)] /\ UNCHANGED <<kept, failed>>
           /\ failures' \in [Codes -> [count : Nat, last : Nat]]
  <2>1. GuardTypeOK'
    BY <1>1, <1>3, <1>5 DEF GuardTypeOK
  <2>2. \A i \in Ips : hits'[i] = IF i = ip THEN Recent(hits[ip]) ELSE hits[i]
    BY <1>1, <1>5 DEF GuardTypeOK
  <2>3. \A i \in Ips : Ordered(hits[i])' /\ Ordered(failed[i])'
    BY <1>3, <1>5, <2>2 DEF GuardInv, Ordered
  <2>4. OnlyFailuresCount'
    BY <1>1, <1>2, <1>3, <1>5, <2>2 DEF GuardInv, OnlyFailuresCount, Recent
  <2>5. OneBudget'
    BY <1>1, <1>5 DEF GuardInv, OneBudget, Recent
  <2> QED
    BY <2>1, <2>3, <2>4, <2>5 DEF GuardInv
<1>6. CASE Allowed(ip) /\ Keep(ip) /\ failures' \in [Codes -> [count : Nat, last : Nat]]
  <2> DEFINE t == ThisAttempt
  <2>0. t \in Attempt /\ t.n = kept /\ clock - t.at < Window
    BY <1>1, GuardAssumption DEF ThisAttempt, Attempt
  <2>1. /\ \A i \in Ips : hits'[i] = IF i = ip THEN Recent(hits[ip]) \cup {t} ELSE hits[i]
        /\ \A i \in Ips : failed'[i] = IF i = ip THEN failed[ip] \cup {t} ELSE failed[i]
        /\ kept' = kept + 1
    BY <1>1, <1>6 DEF Keep, Checked, GuardTypeOK
  <2>2. GuardTypeOK'
    BY <1>1, <1>3, <1>6, <2>0 DEF GuardTypeOK, Keep, Checked
  <2>3. /\ IsFiniteSet(Recent(hits[ip]) \cup {t})
        /\ IsFiniteSet(failed[ip] \cup {t})
    BY <1>1, <1>3, FS_AddElement DEF Ordered
  <2>4. \A i \in Ips : (\A h \in hits[i] \cup failed[i] : h.n < kept + 1 /\ h.n \in Nat)
                       /\ IsFiniteSet(hits[i]) /\ IsFiniteSet(failed[i])
    BY <1>1 DEF GuardInv, Ordered, GuardTypeOK, Attempt
  <2>5. \A i \in Ips : Ordered(hits[i])' /\ Ordered(failed[i])'
    BY <1>1, <1>3, <2>0, <2>1, <2>3, <2>4 DEF Ordered
  <2>6. \A i \in Ips : Recent(failed[i])' = IF i = ip THEN Recent(failed[ip]) \cup {t}
                                           ELSE Recent(failed[i])
    BY <1>1, <2>0, <2>1 DEF Recent
  <2>7. \A i \in Ips : Recent(hits[i])' = IF i = ip THEN Recent(hits[ip]) \cup {t}
                                         ELSE Recent(hits[i])
    BY <1>1, <1>3, <2>0, <2>1 DEF Recent
  <2>8. OnlyFailuresCount'
    BY <2>6, <2>7 DEF GuardInv, OnlyFailuresCount
  <2>9. Cardinality(Recent(failed[ip]) \cup {t}) <= AttemptsPerIp
    <3>1. t \notin Recent(failed[ip])
      BY <1>1, <2>0 DEF Ordered, Recent
    <3>2. Cardinality(Recent(failed[ip]) \cup {t}) = Cardinality(Recent(failed[ip])) + 1
      BY <1>2, <1>3, <3>1, FS_AddElement
    <3>3. Cardinality(Recent(failed[ip])) < AttemptsPerIp
      BY <1>2, <1>6 DEF Allowed
    <3>4. Cardinality(Recent(failed[ip])) \in Nat
      BY <1>2, <1>3, FS_CardinalityType
    <3> QED
      BY <3>2, <3>3, <3>4, GuardAssumption
  <2>10. OneBudget'
    BY <2>6, <2>9 DEF GuardInv, OneBudget
  <2> QED
    BY <2>2, <2>5, <2>8, <2>10 DEF GuardInv
<1>7. failures \in [Codes -> [count : Nat, last : Nat]]
  BY <1>1 DEF GuardTypeOK
<1>8. CASE Throttled(ip)
  BY <1>5, <1>7, <1>8 DEF Throttled
<1>9. CASE LockedOut(ip, code)
  BY <1>6, <1>7, <1>9 DEF LockedOut
<1>10. CASE Found(ip, code)
  <2>1. Pardon(Checked(ip)) = Recent(hits[ip])
    BY <1>1, PardonUndoesCheck
  <2>2. hits' = [hits EXCEPT ![ip] = Recent(@)]
    BY <1>10, <2>1 DEF Found
  <2>3. failures' \in [Codes -> [count : Nat, last : Nat]]
    BY <1>7, <1>10 DEF Found, Forgiven
  <2> QED
    BY <1>5, <1>10, <2>2, <2>3 DEF Found
<1>11. CASE Missed(ip, code)
  <2>1. failures' \in [Codes -> [count : Nat, last : Nat]]
    <3>1. [count |-> failures[code].count + 1, last |-> clock] \in [count : Nat, last : Nat]
      BY <1>1, <1>7
    <3> QED
      BY <1>7, <1>11, <3>1 DEF Missed
  <2> QED
    BY <1>6, <1>11, <2>1 DEF Missed
<1> QED
  BY <1>8, <1>9, <1>10, <1>11 DEF Lookup

\* The timer only drops what no longer counts.
LEMMA SweepInv ==
    ASSUME GuardInv, Sweep
    PROVE  GuardInv'
<1>1. GuardTypeOK /\ clock' = clock /\ kept' = kept /\ failed' = failed
  BY DEF GuardInv, Sweep
<1>2. \A i \in Ips : hits'[i] = Recent(hits[i])
  BY DEF Sweep
<1>3. \A i \in Ips : Recent(hits[i]) \subseteq hits[i]
  BY RecentIsSubset
<1>4. GuardTypeOK'
  <2>1. hits' \in [Ips -> SUBSET Attempt]
    BY <1>1, <1>3 DEF Sweep, GuardTypeOK
  <2>2. failures' \in [Codes -> [count : Nat, last : Nat]]
    BY <1>1 DEF Sweep, GuardTypeOK, Forgiven
  <2> QED
    BY <1>1, <2>1, <2>2 DEF Sweep, GuardTypeOK
<1>5. \A i \in Ips : Ordered(hits[i])' /\ Ordered(failed[i])'
  <2> SUFFICES ASSUME NEW i \in Ips PROVE Ordered(hits[i])' /\ Ordered(failed[i])'
    OBVIOUS
  <2>1. Ordered(hits[i]) /\ Ordered(failed[i])
    BY DEF GuardInv
  <2>2. IsFiniteSet(Recent(hits[i]))
    BY <1>3, <2>1, FS_Subset DEF Ordered
  <2> QED
    BY <1>1, <1>2, <1>3, <2>1, <2>2 DEF Ordered
<1>6. OnlyFailuresCount'
  BY <1>1, <1>2 DEF GuardInv, OnlyFailuresCount, Recent
<1>7. OneBudget'
  BY <1>1 DEF GuardInv, OneBudget, Recent
<1> QED
  BY <1>4, <1>5, <1>6, <1>7 DEF GuardInv

\* As time passes, attempts leave both windows together.
LEMMA TickInv ==
    ASSUME GuardInv, Tick
    PROVE  GuardInv'
<1>1. /\ GuardTypeOK /\ clock \in Nat /\ clock' = clock + 1
      /\ hits' = hits /\ failed' = failed /\ kept' = kept
  BY DEF GuardInv, Tick, GuardTypeOK
<1>2. GuardTypeOK'
  BY <1>1 DEF GuardTypeOK, Tick
<1>3. \A i \in Ips : Ordered(hits[i])' /\ Ordered(failed[i])'
  BY <1>1 DEF GuardInv, Ordered
<1>4. ASSUME NEW S, S \subseteq Attempt
      PROVE  {h \in S : clock' - h.at < Window}
                = {h \in Recent(S) : clock' - h.at < Window}
  <2>1. \A h \in S : h.at \in Nat
    BY <1>4 DEF Attempt
  <2>2. \A h \in S : clock' - h.at < Window => clock - h.at < Window
    BY <1>1, <2>1, GuardAssumption
  <2> QED
    BY <2>2 DEF Recent
<1>5. \A i \in Ips : hits[i] \subseteq Attempt /\ failed[i] \subseteq Attempt
  BY <1>1 DEF GuardTypeOK
<1>6. OnlyFailuresCount'
  <2> SUFFICES ASSUME NEW i \in Ips PROVE Recent(hits[i])' = Recent(failed[i])'
    BY DEF OnlyFailuresCount
  <2>1. Recent(hits[i]) = Recent(failed[i])
    BY DEF GuardInv, OnlyFailuresCount
  <2>2. Recent(hits[i])' = {h \in Recent(hits[i]) : clock' - h.at < Window}
    <3>1. Recent(hits[i])' = {h \in hits[i] : clock' - h.at < Window}
      BY <1>1 DEF Recent
    <3> QED
      BY <1>4, <1>5, <3>1
  <2>3. Recent(failed[i])' = {h \in Recent(failed[i]) : clock' - h.at < Window}
    <3>1. Recent(failed[i])' = {h \in failed[i] : clock' - h.at < Window}
      BY <1>1 DEF Recent
    <3> QED
      BY <1>4, <1>5, <3>1
  <2> QED
    BY <2>1, <2>2, <2>3
<1>7. OneBudget'
  <2> SUFFICES ASSUME NEW i \in Ips PROVE Cardinality(Recent(failed[i]))' <= AttemptsPerIp
    BY DEF OneBudget
  <2>1. Recent(failed[i])' \subseteq Recent(failed[i])
    <3>1. Recent(failed[i])' = {h \in failed[i] : clock' - h.at < Window}
      BY <1>1 DEF Recent
    <3>2. Recent(failed[i])' = {h \in Recent(failed[i]) : clock' - h.at < Window}
      BY <1>4, <1>5, <3>1
    <3> QED BY <3>2
  <2>2. IsFiniteSet(Recent(failed[i]))
    <3>1. IsFiniteSet(failed[i])
      BY DEF GuardInv, Ordered
    <3> QED BY <3>1, RecentIsSubset, FS_Subset
  <2>3. /\ Cardinality(Recent(failed[i])') <= Cardinality(Recent(failed[i]))
        /\ Cardinality(Recent(failed[i])') \in Nat
        /\ Cardinality(Recent(failed[i])) \in Nat
    BY <2>1, <2>2, FS_Subset, FS_CardinalityType
  <2>4. Cardinality(Recent(failed[i])) <= AttemptsPerIp
    BY DEF GuardInv, OneBudget
  <2> QED
    BY <2>3, <2>4, GuardAssumption
<1> QED
  BY <1>2, <1>3, <1>6, <1>7 DEF GuardInv

\* Codes coming and going leave the throttle alone.
LEMMA BecomesInv ==
    ASSUME GuardInv, NEW code \in Codes, NEW old, NEW new \in Entry, Becomes(code, old, new)
    PROVE  GuardInv'
<1>1. UNCHANGED <<hits, failures, clock, kept, failed>>
  BY DEF Becomes
<1>2. GuardTypeOK'
  BY <1>1 DEF GuardInv, GuardTypeOK, Becomes
<1> QED
  BY <1>1, <1>2 DEF GuardInv, Ordered, OnlyFailuresCount, OneBudget, Recent

LEMMA GuardNextInv == GuardInv /\ [GuardNext]_guardVars => GuardInv'
<1> SUFFICES ASSUME GuardInv, [GuardNext]_guardVars PROVE GuardInv'
  OBVIOUS
<1>1. CASE UNCHANGED guardVars
  BY <1>1 DEF GuardInv, GuardTypeOK, Ordered, OnlyFailuresCount, OneBudget, Recent, guardVars
<1>2. ASSUME NEW ip \in Ips, NEW code \in Codes, Resolve(ip, code) \/ Collect(ip, code) \/ JoinLookup(ip, code)
      PROVE  GuardInv'
  BY <1>2, LookupInv DEF Resolve, Collect, JoinLookup
<1>3. ASSUME NEW code \in Codes, StoredCode(code) \/ LiveCode(code)
      PROVE  GuardInv'
  <2>1. {"none", "live", "pending", "stored"} \subseteq Entry
    BY DEF Entry
  <2> QED
    BY <1>3, <2>1, BecomesInv DEF StoredCode, LiveCode
<1> QED
  BY <1>1, <1>2, <1>3, SweepInv, TickInv DEF GuardNext, GuardStep

----------------------------------------------------------------------------
(* The theorems *)

THEOREM GuardInvariant == GuardSpec => []GuardInv
BY GuardInitInv, GuardNextInv, PTL DEF GuardSpec

\* The limiter holds exactly the lookups that failed: refunds match.
THEOREM FailuresCount == GuardSpec => []OnlyFailuresCount
<1>1. GuardInv => OnlyFailuresCount
  BY DEF GuardInv
<1> QED BY <1>1, GuardInvariant, PTL

\* Both surfaces together stay within one budget per address and window.
THEOREM BudgetIsOne == GuardSpec => []OneBudget
<1>1. GuardInv => OneBudget
  BY DEF GuardInv
<1> QED BY <1>1, GuardInvariant, PTL

(***************************************************************************)
(* LiveRooms                                                               *)
(***************************************************************************)

LiveTypeOK ==
    /\ conn \in [Sockets -> {"new", "open", "gone"}]
    /\ addr \in [Sockets -> Ips \cup {None}]
    /\ rooms \in [Codes -> Room \cup {None}]
    /\ socketRoom \in [Sockets -> Codes \cup {None}]
    /\ roomsByIp \in [Ips -> Nat]
    /\ socketsByIp \in [Ips -> Nat]
    /\ buffer \in [Sockets -> Seq(Event)]

\* A socket has an address from the moment it is admitted.
Addressed == \A s \in Sockets : conn[s] # "new" => addr[s] \in Ips

LiveInv == GuardInv /\ LiveTypeOK /\ Addressed /\ RoomsConsistent

----------------------------------------------------------------------------
(* What the helpers do *)


\* Nothing is its own absence.
LEMMA NoneIsNeither ==
    None \notin Sockets /\ None \notin Ips /\ None \notin Codes /\ None \notin Room
BY LiveAssumption

LEMMA RoomFields ==
    ASSUME LiveTypeOK, NEW c \in Codes, rooms[c] # None
    PROVE  /\ rooms[c] \in Room
           /\ rooms[c].host \in Sockets
           /\ rooms[c].guest \in Sockets \cup {None}
           /\ rooms[c].owner \in Ips
           /\ rooms[c].idle \in BOOLEAN
           /\ rooms[c].host \in Members(rooms[c])
           /\ Members(rooms[c]) \subseteq Sockets
<1>1. rooms[c] \in Room
  BY DEF LiveTypeOK
<1> QED
  BY <1>1, NoneIsNeither DEF Room, Members

\* The room of a socket, when it has one, is the one its code leads to.
LEMMA RoomOfSocket ==
    ASSUME LiveTypeOK, RoomsConsistent, NEW s \in Sockets, RoomOf(s) # None
    PROVE  /\ socketRoom[s] \in Codes
           /\ RoomOf(s) = rooms[socketRoom[s]]
           /\ rooms[socketRoom[s]] # None
           /\ s \in Members(rooms[socketRoom[s]])
<1>1. socketRoom[s] # None
  BY DEF RoomOf
<1>2. socketRoom[s] \in Codes
  BY <1>1 DEF LiveTypeOK
<1> QED
  BY <1>1, <1>2 DEF RoomOf, RoomsConsistent

\* A room's members are in no other room.
LEMMA RoomsAreDisjoint ==
    ASSUME RoomsConsistent, NEW c \in Codes, NEW d \in Codes,
           rooms[c] # None, rooms[d] # None, c # d
    PROVE  Members(rooms[c]) \cap Members(rooms[d]) = {}
BY DEF RoomsConsistent

\* Only the rooms' own fields move, and the room keeps who is in it: what
\* forward and the idle timer do.
LEMMA IdleInv ==
    ASSUME LiveTypeOK, RoomsConsistent, NEW c \in Codes, rooms[c] # None, NEW b \in BOOLEAN,
           rooms' = [rooms EXCEPT ![c].idle = b],
           UNCHANGED <<registry, conn, addr, socketRoom>>
    PROVE  rooms' \in [Codes -> Room \cup {None}] /\ RoomsConsistent'
<1>1. [rooms[c] EXCEPT !.idle = b] \in Room
  BY RoomFields DEF Room
<1>2. rooms' \in [Codes -> Room \cup {None}]
  BY <1>1 DEF LiveTypeOK
<1>3. \A d \in Codes : rooms'[d] = IF d = c THEN [rooms[c] EXCEPT !.idle = b] ELSE rooms[d]
  BY DEF LiveTypeOK
<1>4. /\ rooms'[c] # None
      /\ rooms'[c].host = rooms[c].host
      /\ rooms'[c].guest = rooms[c].guest
      /\ rooms'[c].owner = rooms[c].owner
  BY <1>1, <1>3, NoneIsNeither, RoomFields DEF Room
<1>5. \A d \in Codes : /\ rooms'[d] = None <=> rooms[d] = None
                       /\ rooms[d] # None => /\ rooms'[d].host = rooms[d].host
                                             /\ rooms'[d].guest = rooms[d].guest
                                             /\ rooms'[d].owner = rooms[d].owner
                                             /\ Members(rooms'[d]) = Members(rooms[d])
  BY <1>3, <1>4 DEF Members
<1>6. \A s \in Sockets : socketRoom[s] # None =>
         /\ socketRoom[s] \in Codes
         /\ rooms[socketRoom[s]] # None /\ s \in Members(rooms[socketRoom[s]])
  BY DEF RoomsConsistent, RoomOf, LiveTypeOK
<1>7. \A s \in Sockets : socketRoom'[s] # None =>
         RoomOf(s)' # None /\ s \in Members(RoomOf(s))'
  BY <1>5, <1>6 DEF RoomOf, Members
<1>8. \A d \in Codes : rooms'[d] # None =>
         /\ registry'[d] = "live"
         /\ rooms'[d].host # rooms'[d].guest
         /\ \A s \in Members(rooms'[d]) : socketRoom'[s] = d /\ conn'[s] = "open"
         /\ rooms'[d].owner = addr'[rooms'[d].host]
  BY <1>5 DEF RoomsConsistent
<1>9. \A d \in Codes : registry'[d] = "live" => rooms'[d] # None
  BY <1>5 DEF RoomsConsistent
<1> QED
  BY <1>2, <1>7, <1>8, <1>9 DEF RoomsConsistent, Members

\* closeRoom, and what the disconnect handler makes of it: the room, its code
\* and its members' entries go, everything else stays.
LEMMA ForgetInv ==
    ASSUME LiveTypeOK, RoomsConsistent, NEW c \in Codes, rooms[c] # None,
           ForgetRoom(c), LeaveRoom(c), registry \in [Codes -> Entry],
           conn' \in [Sockets -> {"new", "open", "gone"}],
           \A s \in Sockets \ Members(rooms[c]) : conn'[s] = conn[s] \/ socketRoom[s] = None,
           UNCHANGED addr
    PROVE  /\ rooms' \in [Codes -> Room \cup {None}]
           /\ socketRoom' \in [Sockets -> Codes \cup {None}]
           /\ roomsByIp' \in [Ips -> Nat]
           /\ RoomsConsistent'
<1>1. rooms' \in [Codes -> Room \cup {None}]
  BY DEF LiveTypeOK, ForgetRoom
<1>2. socketRoom' \in [Sockets -> Codes \cup {None}]
  BY DEF LiveTypeOK, LeaveRoom
<1>3. roomsByIp' \in [Ips -> Nat]
  <2>1. \A n \in Nat : (IF n <= 1 THEN 0 ELSE n - 1) \in Nat
    OBVIOUS
  <2>2. rooms[c].owner \in Ips /\ roomsByIp \in [Ips -> Nat]
    BY RoomFields DEF LiveTypeOK
  <2> QED
    BY <2>1, <2>2 DEF ForgetRoom, releaseRoomSlot
<1>4. /\ \A d \in Codes : rooms'[d] = IF d = c THEN None ELSE rooms[d]
      /\ \A d \in Codes : registry'[d] = IF d = c THEN "none" ELSE registry[d]
      /\ \A s \in Sockets : socketRoom'[s] = IF s \in Members(rooms[c]) THEN None
                                             ELSE socketRoom[s]
  BY DEF LiveTypeOK, ForgetRoom, LeaveRoom
<1>5. \A d \in Codes : rooms'[d] # None =>
         /\ registry'[d] = "live"
         /\ rooms'[d].host # rooms'[d].guest
         /\ \A s \in Members(rooms'[d]) : socketRoom'[s] = d /\ conn'[s] = "open"
         /\ rooms'[d].owner = addr'[rooms'[d].host]
  <2> SUFFICES ASSUME NEW d \in Codes, rooms'[d] # None
               PROVE  /\ registry'[d] = "live"
                      /\ rooms'[d].host # rooms'[d].guest
                      /\ \A s \in Members(rooms'[d]) : socketRoom'[s] = d /\ conn'[s] = "open"
                      /\ rooms'[d].owner = addr'[rooms'[d].host]
    OBVIOUS
  <2>1. d # c /\ rooms'[d] = rooms[d] /\ rooms[d] # None /\ registry'[d] = registry[d]
    BY <1>4
  <2>2. /\ registry[d] = "live" /\ rooms[d].host # rooms[d].guest
        /\ rooms[d].owner = addr[rooms[d].host]
    BY <2>1 DEF RoomsConsistent
  <2>3. ASSUME NEW s \in Members(rooms[d])
        PROVE  socketRoom'[s] = d /\ conn'[s] = "open"
    <3>1. s \in Sockets
      BY <2>1, RoomFields
    <3>2. s \notin Members(rooms[c])
      BY <2>1, RoomsAreDisjoint
    <3>3. socketRoom[s] = d /\ conn[s] = "open"
      BY <2>1 DEF RoomsConsistent
    <3> QED
      BY <1>4, <3>1, <3>2, <3>3, NoneIsNeither
  <2> QED
    BY <2>1, <2>2, <2>3
<1>6. \A s \in Sockets : socketRoom'[s] # None =>
         RoomOf(s)' # None /\ s \in Members(RoomOf(s))'
  <2> SUFFICES ASSUME NEW s \in Sockets, socketRoom'[s] # None
               PROVE  RoomOf(s)' # None /\ s \in Members(RoomOf(s))'
    OBVIOUS
  <2>1. s \notin Members(rooms[c]) /\ socketRoom'[s] = socketRoom[s] /\ socketRoom[s] \in Codes
    BY <1>4 DEF LiveTypeOK
  <2>2. rooms[socketRoom[s]] # None /\ s \in Members(rooms[socketRoom[s]])
    BY <2>1, NoneIsNeither DEF RoomsConsistent, RoomOf
  <2>3. socketRoom[s] # c
    BY <2>1, <2>2
  <2>4. rooms'[socketRoom'[s]] = rooms[socketRoom[s]]
    BY <1>4, <2>1, <2>3
  <2> QED
    BY <2>1, <2>2, <2>4 DEF RoomOf, Members
<1>7. \A d \in Codes : registry'[d] = "live" => rooms'[d] # None
  BY <1>4 DEF RoomsConsistent
<1> QED
  BY <1>1, <1>2, <1>3, <1>5, <1>6, <1>7 DEF RoomsConsistent, Members

LEMMA ToldTypes ==
    ASSUME buffer \in [Sockets -> Seq(Event)], NEW S
    PROVE  Told(S) \in [Sockets -> Seq(Event)]
<1>1. Left \in Event
  BY DEF Left, Event
<1>2. \A q \in Seq(Event) : Append(q, Left) \in Seq(Event)
  BY <1>1
<1> QED
  BY <1>2 DEF Told

----------------------------------------------------------------------------
(* Each step keeps the rooms consistent *)

\* The conclusion every action lemma draws.
Kept == LiveTypeOK' /\ Addressed' /\ RoomsConsistent'

LEMMA CloseKept ==
    ASSUME LiveInv, NEW c \in Codes, NEW except, rooms[c] # None, closeRoom(c, except),
           UNCHANGED <<guarding, people>>
    PROVE  Kept
<1>1. LiveTypeOK /\ RoomsConsistent /\ Addressed /\ registry \in [Codes -> Entry]
  BY DEF LiveInv, GuardInv, GuardTypeOK
<1>2. UNCHANGED <<conn, addr, socketsByIp>>
  BY DEF people
<1>3. conn' \in [Sockets -> {"new", "open", "gone"}]
  BY <1>1, <1>2 DEF LiveTypeOK
<1>4. /\ rooms' \in [Codes -> Room \cup {None}]
      /\ socketRoom' \in [Sockets -> Codes \cup {None}]
      /\ roomsByIp' \in [Ips -> Nat]
      /\ RoomsConsistent'
  BY <1>1, <1>2, <1>3, ForgetInv DEF closeRoom
<1>5. buffer' \in [Sockets -> Seq(Event)]
  BY <1>1, ToldTypes DEF closeRoom, TellMembers, LiveTypeOK
<1>6. LiveTypeOK'
  BY <1>1, <1>2, <1>4, <1>5 DEF LiveTypeOK
<1> QED
  BY <1>1, <1>2, <1>4, <1>6 DEF Kept, Addressed

LEMMA ConnectKept ==
    ASSUME LiveInv, NEW s \in Sockets, NEW ip \in Ips, Connect(s, ip)
    PROVE  Kept
<1>1. LiveTypeOK /\ RoomsConsistent /\ Addressed
  BY DEF LiveInv
<1>2. UNCHANGED <<registry, rooms, socketRoom, roomsByIp, buffer>>
  BY DEF Connect, guardVars
<1>3. LiveTypeOK'
  <2>1. socketsByIp' \in [Ips -> Nat]
    <3>1. socketsByIp[ip] + 1 \in Nat
      BY <1>1 DEF LiveTypeOK
    <3> QED
      BY <1>1, <3>1 DEF Connect, LiveTypeOK
  <2>2. conn' \in [Sockets -> {"new", "open", "gone"}] /\ addr' \in [Sockets -> Ips \cup {None}]
    BY <1>1 DEF Connect, LiveTypeOK
  <2> QED
    BY <1>1, <1>2, <2>1, <2>2 DEF LiveTypeOK
<1>4. \A t \in Sockets : /\ conn'[t] = IF t = s THEN "open" ELSE conn[t]
                         /\ addr'[t] = IF t = s THEN ip ELSE addr[t]
  BY <1>1 DEF Connect, LiveTypeOK
<1>5. Addressed'
  BY <1>1, <1>4 DEF Addressed
<1>6. \A c \in Codes : rooms[c] # None => s \notin Members(rooms[c])
  BY DEF Connect, LiveInv, RoomsConsistent
<1>7. \A c \in Codes : rooms[c] # None =>
         rooms[c].host \in Sockets \ {s} /\ Members(rooms[c]) \subseteq Sockets \ {s}
  BY <1>1, <1>6, RoomFields
<1>8. RoomsConsistent'
  BY <1>1, <1>2, <1>4, <1>7 DEF RoomsConsistent, RoomOf, Members
<1> QED
  BY <1>3, <1>5, <1>8 DEF Kept

LEMMA DisconnectKept ==
    ASSUME LiveInv, NEW s \in Sockets, Disconnect(s)
    PROVE  Kept
<1>1. LiveTypeOK /\ RoomsConsistent /\ Addressed /\ registry \in [Codes -> Entry]
  BY DEF LiveInv, GuardInv, GuardTypeOK
<1>2. conn[s] = "open" /\ addr[s] \in Ips /\ addr' = addr
  BY <1>1 DEF Disconnect, Addressed
<1>3. \A t \in Sockets : conn'[t] = IF t = s THEN "gone" ELSE conn[t]
  BY <1>1 DEF Disconnect, LiveTypeOK
<1>4. conn' \in [Sockets -> {"new", "open", "gone"}]
  BY <1>1 DEF Disconnect, LiveTypeOK
<1>5. socketsByIp' \in [Ips -> Nat]
  <2>1. \A n \in Nat : (IF n <= 1 THEN 0 ELSE n - 1) \in Nat
    OBVIOUS
  <2> QED
    BY <1>1, <1>2, <2>1 DEF Disconnect, LiveTypeOK
<1>6. Addressed'
  BY <1>1, <1>2, <1>3 DEF Addressed
<1>7. CASE RoomOf(s) # None
  <2>1. /\ socketRoom[s] \in Codes /\ rooms[socketRoom[s]] # None
        /\ s \in Members(rooms[socketRoom[s]])
    BY <1>1, <1>7, RoomOfSocket
  <2>2. ForgetRoom(socketRoom[s]) /\ LeaveRoom(socketRoom[s])
    BY <1>7 DEF Disconnect
  <2>3. \A t \in Sockets \ Members(rooms[socketRoom[s]]) : conn'[t] = conn[t]
    BY <1>3, <2>1
  <2>4. /\ rooms' \in [Codes -> Room \cup {None}]
        /\ socketRoom' \in [Sockets -> Codes \cup {None}]
        /\ roomsByIp' \in [Ips -> Nat]
        /\ RoomsConsistent'
    BY <1>1, <1>2, <1>4, <2>1, <2>2, <2>3, ForgetInv
  <2>5. buffer' \in [Sockets -> Seq(Event)]
    <3> DEFINE told == Told(Members(RoomOf(s)) \ {s})
    <3>1. told \in [Sockets -> Seq(Event)]
      BY <1>1, ToldTypes DEF LiveTypeOK
    <3>2. buffer' = [told EXCEPT ![s] = <<>>]
      BY <1>7 DEF Disconnect
    <3>3. <<>> \in Seq(Event)
      OBVIOUS
    <3> HIDE DEF told
    <3> QED
      BY <3>1, <3>2, <3>3
  <2> QED
    BY <1>1, <1>2, <1>4, <1>5, <1>6, <2>4, <2>5 DEF Kept, LiveTypeOK
<1>8. CASE RoomOf(s) = None
  <2>1. socketRoom[s] = None
    BY <1>1, <1>8 DEF RoomsConsistent
  <2>2. /\ socketRoom' = [socketRoom EXCEPT ![s] = None]
        /\ buffer' = [buffer EXCEPT ![s] = <<>>]
        /\ UNCHANGED <<registry, rooms, roomsByIp>>
    BY <1>8 DEF Disconnect
  <2>3. socketRoom' = socketRoom
    BY <1>1, <2>1, <2>2 DEF LiveTypeOK
  <2>4. buffer' \in [Sockets -> Seq(Event)]
    <3>1. <<>> \in Seq(Event)
      OBVIOUS
    <3> QED
      BY <1>1, <2>2, <3>1 DEF LiveTypeOK
  <2>5. \A c \in Codes : rooms[c] # None => s \notin Members(rooms[c])
    BY <1>1, <2>1, NoneIsNeither DEF RoomsConsistent
  <2>6. \A c \in Codes : rooms[c] # None => Members(rooms[c]) \subseteq Sockets \ {s}
    BY <1>1, <2>5, RoomFields
  <2>7. RoomsConsistent'
    BY <1>1, <1>2, <1>3, <2>2, <2>3, <2>6 DEF RoomsConsistent, RoomOf, Members
  <2> QED
    BY <1>1, <1>2, <1>4, <1>5, <1>6, <2>2, <2>3, <2>4, <2>7 DEF Kept, LiveTypeOK
<1> QED
  BY <1>7, <1>8

LEMMA WriteKept ==
    ASSUME LiveInv, NEW s \in Sockets, Write(s)
    PROVE  Kept
<1>1. LiveTypeOK /\ RoomsConsistent /\ Addressed
  BY DEF LiveInv
<1>2. UNCHANGED <<registry, conn, addr, socketsByIp, rooms, socketRoom, roomsByIp>>
  BY DEF Write, guardVars, people
<1>3. buffer' \in [Sockets -> Seq(Event)]
  <2>1. Tail(buffer[s]) \in Seq(Event)
    BY <1>1 DEF Write, LiveTypeOK
  <2> QED
    BY <1>1, <2>1 DEF Write, LiveTypeOK
<1> QED
  BY <1>1, <1>2, <1>3 DEF Kept, LiveTypeOK, Addressed, RoomsConsistent, RoomOf, Members

\* A socket that enters a room, which then lists it: host and join.
LEMMA EnterKept ==
    ASSUME LiveInv, NEW s \in Sockets, NEW c \in Codes, NEW room \in Room,
           Ready(s), UNCHANGED <<conn, addr, socketsByIp>>,
           rooms' = [rooms EXCEPT ![c] = room],
           socketRoom' = [socketRoom EXCEPT ![s] = c],
           roomsByIp' \in [Ips -> Nat], buffer' \in [Sockets -> Seq(Event)],
           \A d \in Codes : registry'[d] = IF d = c THEN "live" ELSE registry[d],
           s \in Members(room), room.host # room.guest, room.owner = addr[room.host],
           Members(room) \ {s} = IF rooms[c] = None THEN {} ELSE Members(rooms[c])
    PROVE  Kept
<1>1. LiveTypeOK /\ RoomsConsistent /\ Addressed
  BY DEF LiveInv
<1>2. conn[s] = "open" /\ socketRoom[s] = None
  BY DEF Ready, InSession
<1>3. /\ \A d \in Codes : rooms'[d] = IF d = c THEN room ELSE rooms[d]
      /\ \A t \in Sockets : socketRoom'[t] = IF t = s THEN c ELSE socketRoom[t]
      /\ room # None /\ c # None
  BY <1>1, NoneIsNeither DEF LiveTypeOK
<1>4. \A d \in Codes : rooms[d] # None => Members(rooms[d]) \subseteq Sockets \ {s}
  <2>1. \A d \in Codes : rooms[d] # None => s \notin Members(rooms[d])
    BY <1>1, <1>2, NoneIsNeither DEF RoomsConsistent
  <2> QED
    BY <1>1, <2>1, RoomFields
<1>5. LiveTypeOK'
  BY <1>1 DEF LiveTypeOK
<1>6. ASSUME NEW d \in Codes, rooms'[d] # None
      PROVE  /\ registry'[d] = "live"
             /\ rooms'[d].host # rooms'[d].guest
             /\ \A t \in Members(rooms'[d]) : socketRoom'[t] = d /\ conn'[t] = "open"
             /\ rooms'[d].owner = addr'[rooms'[d].host]
  <2>1. CASE d = c
    <3>1. \A t \in Members(room) \ {s} : t \in Sockets \ {s} /\ socketRoom[t] = c /\ conn[t] = "open"
      BY <1>1, <1>4 DEF RoomsConsistent
    <3>2. \A t \in Members(room) : socketRoom'[t] = c /\ conn'[t] = "open"
      BY <1>2, <1>3, <3>1
    <3> QED
      BY <1>3, <2>1, <3>2
  <2>2. CASE d # c
    <3>1. \A t \in Members(rooms[d]) : t \in Sockets \ {s} /\ socketRoom[t] = d /\ conn[t] = "open"
      BY <1>1, <1>3, <1>4, <1>6, <2>2 DEF RoomsConsistent
    <3> QED
      BY <1>1, <1>3, <1>6, <2>2, <3>1 DEF RoomsConsistent
  <2> QED
    BY <2>1, <2>2
<1>7. ASSUME NEW t \in Sockets, socketRoom'[t] # None
      PROVE  RoomOf(t)' # None /\ t \in Members(RoomOf(t))'
  <2>1. CASE t = s
    BY <1>3, <2>1 DEF RoomOf, Members
  <2>2. CASE t # s
    <3>1. socketRoom[t] \in Codes /\ socketRoom'[t] = socketRoom[t]
      BY <1>1, <1>3, <1>7, <2>2 DEF LiveTypeOK
    <3>2. rooms[socketRoom[t]] # None /\ t \in Members(rooms[socketRoom[t]])
      BY <1>1, <3>1, NoneIsNeither DEF RoomsConsistent, RoomOf
    <3>3. rooms'[socketRoom[t]] # None /\ t \in Members(rooms'[socketRoom[t]])
      BY <1>3, <3>1, <3>2
    <3> QED
      BY <3>1, <3>3, NoneIsNeither DEF RoomOf, Members
  <2> QED
    BY <2>1, <2>2
<1>8. \A d \in Codes : registry'[d] = "live" => rooms'[d] # None
  BY <1>1, <1>3 DEF RoomsConsistent
<1>9. RoomsConsistent'
  BY <1>6, <1>7, <1>8 DEF RoomsConsistent, Members
<1> QED
  BY <1>1, <1>5, <1>9 DEF Kept, Addressed

LEMMA HostKept ==
    ASSUME LiveInv, NEW s \in Sockets, NEW c \in Codes, Host(s, c)
    PROVE  Kept
<1> DEFINE room == [host |-> s, guest |-> None, owner |-> addr[s], idle |-> FALSE]
<1>1. LiveTypeOK /\ RoomsConsistent /\ Addressed /\ registry \in [Codes -> Entry]
  BY DEF LiveInv, GuardInv, GuardTypeOK
<1>2. addr[s] \in Ips
  BY <1>1 DEF Host, Ready, Addressed
<1>3. room \in Room /\ room.host # room.guest /\ room.owner = addr[room.host]
      /\ Members(room) = {s}
  BY <1>2, NoneIsNeither DEF Room, Members
<1>4. rooms[c] = None
  BY <1>1 DEF Host, RoomsConsistent
<1>5. roomsByIp' \in [Ips -> Nat]
  <2>1. roomsByIp[addr[s]] + 1 \in Nat
    BY <1>1, <1>2 DEF LiveTypeOK
  <2> QED
    BY <1>1, <2>1 DEF Host, LiveTypeOK
<1>6. buffer' \in [Sockets -> Seq(Event)]
  BY <1>1 DEF Host, LiveTypeOK
<1>7. \A d \in Codes : registry'[d] = IF d = c THEN "live" ELSE registry[d]
  BY <1>1 DEF Host
<1>8. /\ Ready(s) /\ UNCHANGED <<conn, addr, socketsByIp>>
      /\ rooms' = [rooms EXCEPT ![c] = room]
      /\ socketRoom' = [socketRoom EXCEPT ![s] = c]
  BY DEF Host, people
<1>9. Members(room) \ {s} = IF rooms[c] = None THEN {} ELSE Members(rooms[c])
  BY <1>3, <1>4
<1>10. s \in Members(room)
  BY <1>3
<1> HIDE DEF room
<1> QED
  BY <1>3, <1>5, <1>6, <1>7, <1>8, <1>9, <1>10, EnterKept

LEMMA JoinKept ==
    ASSUME LiveInv, NEW s \in Sockets, NEW c \in Codes, Join(s, c)
    PROVE  Kept
<1> DEFINE room == [rooms[c] EXCEPT !.guest = s, !.idle = FALSE]
<1>1. LiveTypeOK /\ RoomsConsistent /\ Addressed /\ registry \in [Codes -> Entry]
  BY DEF LiveInv, GuardInv, GuardTypeOK
<1>2. /\ rooms[c] # None /\ rooms[c].guest = None
      /\ socketRoom[s] = None /\ conn[s] = "open"
  BY DEF Join, Free, Ready, InSession
<1>3. /\ rooms[c] \in Room /\ rooms[c].host \in Sockets
      /\ Members(rooms[c]) = {rooms[c].host}
      /\ rooms[c].host # s
  <2>1. rooms[c] \in Room /\ rooms[c].host \in Sockets /\ rooms[c].host \in Members(rooms[c])
    BY <1>1, <1>2, RoomFields
  <2>2. Members(rooms[c]) = {rooms[c].host}
    BY <1>2, <2>1, NoneIsNeither DEF Members
  <2>3. rooms[c].host # s
    BY <1>1, <1>2, <2>1, NoneIsNeither DEF RoomsConsistent
  <2> QED
    BY <2>1, <2>2, <2>3
<1>4. /\ room \in Room /\ room.host = rooms[c].host /\ room.guest = s
      /\ room.owner = rooms[c].owner
  BY <1>3 DEF Room
<1>5. Members(room) = {rooms[c].host, s}
  BY <1>3, <1>4, NoneIsNeither DEF Members
<1>6. room.owner = addr[room.host]
  BY <1>1, <1>2, <1>4 DEF RoomsConsistent
<1>7. roomsByIp' \in [Ips -> Nat]
  BY <1>1 DEF Join, LiveTypeOK
<1>8. buffer' \in [Sockets -> Seq(Event)]
  <2>1. Joined \in Event
    BY DEF Joined, Event
  <2>2. Append(buffer[rooms[c].host], Joined) \in Seq(Event)
    BY <1>1, <1>3, <2>1 DEF LiveTypeOK
  <2> QED
    BY <1>1, <2>2 DEF Join, LiveTypeOK
<1>9. \A d \in Codes : registry'[d] = IF d = c THEN "live" ELSE registry[d]
  BY <1>1, <1>2 DEF Join, RoomsConsistent
<1>10. /\ Ready(s) /\ UNCHANGED <<conn, addr, socketsByIp>>
       /\ socketRoom' = [socketRoom EXCEPT ![s] = c]
  BY DEF Join, people
<1>11. rooms' = [rooms EXCEPT ![c] = room]
  <2>1. rooms' = [rooms EXCEPT ![c].guest = s, ![c].idle = FALSE]
    BY DEF Join
  <2> QED
    BY <1>1, <1>3, <2>1 DEF LiveTypeOK, Room
<1>12. Members(room) \ {s} = IF rooms[c] = None THEN {} ELSE Members(rooms[c])
  BY <1>2, <1>3, <1>5
<1>13. s \in Members(room) /\ room.host # room.guest
  BY <1>3, <1>4, <1>5
<1> HIDE DEF room
<1> QED
  BY <1>4, <1>6, <1>7, <1>8, <1>9, <1>10, <1>11, <1>12, <1>13, EnterKept

\* forward marks the sender's room as alive and may write to the peer.
LEMMA ForwardKept ==
    ASSUME LiveInv, NEW s \in Sockets, Alone(s) \/ Relay(s)
    PROVE  Kept
<1>1. LiveTypeOK /\ RoomsConsistent /\ Addressed
  BY DEF LiveInv
<1>2. socketRoom[s] \in Codes /\ rooms[socketRoom[s]] # None
  BY <1>1, RoomOfSocket DEF Alone, Relay
<1>3. /\ rooms' = [rooms EXCEPT ![socketRoom[s]].idle = FALSE]
      /\ UNCHANGED <<registry, conn, addr, socketsByIp, socketRoom, roomsByIp>>
  BY DEF Alone, Relay, guardVars, people
<1>4. rooms' \in [Codes -> Room \cup {None}] /\ RoomsConsistent'
  BY <1>1, <1>2, <1>3, IdleInv
<1>5. buffer' \in [Sockets -> Seq(Event)]
  <2>1. CASE Alone(s)
    BY <1>1, <2>1 DEF Alone, LiveTypeOK
  <2>2. CASE Relay(s)
    <3>1. Frame(s) \in Event
      BY DEF Frame, Event
    <3>2. \A t \in Sockets : Append(buffer[t], Frame(s)) \in Seq(Event)
      BY <1>1, <3>1 DEF LiveTypeOK
    <3>3. PICK t : buffer' = [buffer EXCEPT ![t] = Append(@, Frame(s))]
      BY <2>2 DEF Relay
    <3> QED
      BY <1>1, <3>2, <3>3 DEF LiveTypeOK
  <2> QED
    BY <2>1, <2>2
<1> QED
  BY <1>1, <1>3, <1>4, <1>5 DEF Kept, LiveTypeOK, Addressed

LEMMA GrowIdleKept ==
    ASSUME LiveInv, NEW c \in Codes, GrowIdle(c)
    PROVE  Kept
<1>1. LiveTypeOK /\ RoomsConsistent /\ Addressed
  BY DEF LiveInv
<1>2. /\ rooms[c] # None /\ rooms' = [rooms EXCEPT ![c].idle = TRUE]
      /\ UNCHANGED <<registry, conn, addr, socketsByIp, socketRoom, roomsByIp, buffer>>
  BY DEF GrowIdle, guardVars, people
<1>3. rooms' \in [Codes -> Room \cup {None}] /\ RoomsConsistent'
  BY <1>1, <1>2, IdleInv
<1> QED
  BY <1>1, <1>2, <1>3 DEF Kept, LiveTypeOK, Addressed

\* The guard's own steps, and a refused join, leave the rooms and every live
\* code alone.
LEMMA ElsewhereKept ==
    ASSUME LiveInv, UNCHANGED liveVars,
           \A c \in Codes : registry'[c] = "live" <=> registry[c] = "live"
    PROVE  Kept
<1>1. LiveTypeOK /\ RoomsConsistent /\ Addressed
  BY DEF LiveInv
<1>2. UNCHANGED <<conn, addr, socketsByIp, rooms, socketRoom, roomsByIp, buffer>>
  BY DEF liveVars, people
<1> QED
  BY <1>1, <1>2 DEF Kept, LiveTypeOK, Addressed, RoomsConsistent, RoomOf, Members

LEMMA GuardStepKept ==
    ASSUME LiveInv, GuardStep, UNCHANGED liveVars
    PROVE  Kept
<1>1. registry \in [Codes -> Entry]
  BY DEF LiveInv, GuardInv, GuardTypeOK
<1>2. ASSUME NEW code \in Codes, StoredCode(code)
      PROVE  \A c \in Codes : registry'[c] = "live" <=> registry[c] = "live"
  BY <1>1, <1>2 DEF StoredCode, Becomes
<1>3. ASSUME UNCHANGED registry
      PROVE  \A c \in Codes : registry'[c] = "live" <=> registry[c] = "live"
  BY <1>3
<1>4. \A c \in Codes : registry'[c] = "live" <=> registry[c] = "live"
  BY <1>2, <1>3 DEF GuardStep, Resolve, Collect, Lookup, Sweep, Tick
<1> QED
  BY <1>4, ElsewhereKept

LEMMA NextKept ==
    ASSUME LiveInv, [Next]_vars
    PROVE  Kept
<1>1. LiveTypeOK /\ RoomsConsistent
  BY DEF LiveInv
<1>2. CASE UNCHANGED vars
  <2>1. UNCHANGED liveVars /\ UNCHANGED registry
    BY <1>2 DEF vars, guardVars
  <2> QED
    BY <2>1, ElsewhereKept
<1>3. ASSUME NEW s \in Sockets, SocketStep(s)
      PROVE  Kept
  <2>1. CASE Bye(s) \/ Congested(s)
    <3>1. socketRoom[s] \in Codes /\ rooms[socketRoom[s]] # None
      BY <1>1, <2>1, RoomOfSocket DEF Bye, Congested
    <3> QED
      BY <2>1, <3>1, CloseKept DEF Bye, Congested
  <2>2. ASSUME NEW code \in Codes, JoinRefused(s, code)
        PROVE  Kept
    BY <2>2, ElsewhereKept DEF JoinRefused
  <2> QED
    BY <1>3, <2>1, <2>2, ConnectKept, DisconnectKept, WriteKept, ForwardKept, HostKept,
       JoinKept DEF SocketStep
<1>4. ASSUME NEW c \in Codes, CloseIdle(c)
      PROVE  Kept
  BY <1>4, CloseKept DEF CloseIdle
<1> QED
  BY <1>2, <1>3, <1>4, GrowIdleKept, GuardStepKept DEF Next

----------------------------------------------------------------------------
(* Each step is one of the guard's, or none *)

LEMMA HostGuards ==
    ASSUME NEW s \in Sockets, NEW c \in Codes, Host(s, c)
    PROVE  LiveCode(c)
BY DEF Host, LiveCode, Becomes, guarding

\* A room that ends gives its own code back.
LEMMA CloseGuards ==
    ASSUME LiveInv, NEW c \in Codes, rooms[c] # None, ForgetRoom(c), UNCHANGED guarding
    PROVE  LiveCode(c)
BY DEF LiveInv, RoomsConsistent, ForgetRoom, LiveCode, Becomes, guarding

LEMMA JoinGuards ==
    ASSUME LiveInv, NEW s \in Sockets, NEW c \in Codes, Join(s, c) \/ JoinRefused(s, c)
    PROVE  addr[s] \in Ips /\ JoinLookup(addr[s], c)
<1>1. addr[s] \in Ips
  BY DEF LiveInv, Addressed, Join, JoinRefused, Ready
<1>2. rooms[c] # None <=> registry[c] = "live"
  BY DEF LiveInv, RoomsConsistent
<1> QED
  BY <1>1, <1>2 DEF Join, JoinRefused, Full, JoinLookup, Lookup

LEMMA NextGuards ==
    ASSUME LiveInv, [Next]_vars
    PROVE  [GuardNext]_guardVars
<1>1. LiveTypeOK /\ RoomsConsistent
  BY DEF LiveInv
<1>2. CASE UNCHANGED vars
  BY <1>2 DEF vars
<1>3. ASSUME NEW s \in Sockets, SocketStep(s)
      PROVE  [GuardNext]_guardVars
  <2>1. CASE Disconnect(s)
    <3>1. CASE RoomOf(s) # None
      <4>1. socketRoom[s] \in Codes /\ rooms[socketRoom[s]] # None
        BY <1>1, <3>1, RoomOfSocket
      <4>2. LiveCode(socketRoom[s])
        BY <2>1, <3>1, <4>1, CloseGuards DEF Disconnect
      <4> QED
        BY <4>1, <4>2 DEF GuardNext
    <3>2. CASE RoomOf(s) = None
      BY <2>1, <3>2 DEF Disconnect, guarding, guardVars
    <3> QED
      BY <3>1, <3>2
  <2>2. CASE Bye(s) \/ Congested(s)
    <3>1. socketRoom[s] \in Codes /\ rooms[socketRoom[s]] # None
      BY <1>1, <2>2, RoomOfSocket DEF Bye, Congested
    <3>2. LiveCode(socketRoom[s])
      BY <2>2, <3>1, CloseGuards DEF Bye, Congested, closeRoom
    <3> QED
      BY <3>1, <3>2 DEF GuardNext
  <2>3. CASE Write(s) \/ Alone(s) \/ Relay(s) \/ \E ip \in Ips : Connect(s, ip)
    BY <2>3 DEF Write, Alone, Relay, Connect
  <2>4. ASSUME NEW c \in Codes, Host(s, c)
        PROVE  [GuardNext]_guardVars
    BY <2>4, HostGuards DEF GuardNext
  <2>5. ASSUME NEW c \in Codes, Join(s, c) \/ JoinRefused(s, c)
        PROVE  [GuardNext]_guardVars
    BY <2>5, JoinGuards DEF GuardNext
  <2> QED
    BY <1>3, <2>1, <2>2, <2>3, <2>4, <2>5 DEF SocketStep
<1>4. ASSUME NEW c \in Codes, GrowIdle(c)
      PROVE  [GuardNext]_guardVars
  BY <1>4 DEF GrowIdle
<1>5. ASSUME NEW c \in Codes, CloseIdle(c)
      PROVE  [GuardNext]_guardVars
  BY <1>5, CloseGuards DEF CloseIdle, closeRoom, GuardNext
<1> QED
  BY <1>2, <1>3, <1>4, <1>5 DEF Next, GuardNext

----------------------------------------------------------------------------
(* The theorems *)

LEMMA LiveInitInv == Init => LiveInv
<1> SUFFICES ASSUME Init PROVE LiveInv
  OBVIOUS
<1>1. GuardInv
  BY GuardInitInv DEF Init
<1>2. LiveTypeOK
  <2>1. <<>> \in Seq(Event)
    OBVIOUS
  <2> QED
    BY <2>1 DEF Init, LiveTypeOK
<1>3. Addressed
  BY DEF Init, Addressed
<1>4. RoomsConsistent
  BY DEF Init, GuardInit, RoomsConsistent
<1> QED
  BY <1>1, <1>2, <1>3, <1>4 DEF LiveInv

LEMMA LiveNextInv == LiveInv /\ [Next]_vars => LiveInv'
<1> SUFFICES ASSUME LiveInv, [Next]_vars PROVE LiveInv'
  OBVIOUS
<1>1. [GuardNext]_guardVars
  BY NextGuards
<1>2. GuardInv'
  BY <1>1, GuardNextInv DEF LiveInv
<1> QED
  BY <1>2, NextKept DEF Kept, LiveInv

THEOREM LiveInvariant == Spec => []LiveInv
BY LiveInitInv, LiveNextInv, PTL DEF Spec

\* Type correctness of the live rooms and of the guard inside them.
THEOREM LiveTypesCorrect == Spec => []TypeOK
<1>1. LiveInv => TypeOK
  BY DEF LiveInv, GuardInv, LiveTypeOK, TypeOK
<1> QED BY <1>1, LiveInvariant, PTL

\* rooms, socketRoom, the registry and the connections agree in every state.
THEOREM RoomsAgree == Spec => []RoomsConsistent
<1>1. LiveInv => RoomsConsistent
  BY DEF LiveInv
<1> QED BY <1>1, LiveInvariant, PTL

\* The live rooms use the throttle and the registry as module Guard allows.
THEOREM LiveImplementsGuard == Spec => ImplementsGuard
<1>1. Init => GuardInit
  BY DEF Init
<1>2. LiveInv /\ [Next]_vars => [GuardNext]_guardVars
  BY NextGuards
<1> QED BY <1>1, <1>2, LiveInvariant, PTL DEF Spec, ImplementsGuard, GuardSpec

\* So one budget covers the HTTP lookup and the socket event together.
THEOREM LiveBudgetIsOne == Spec => []OneBudget
BY LiveImplementsGuard, BudgetIsOne, PTL DEF ImplementsGuard

----------------------------------------------------------------------------
(* Charges *)

\* What adding or removing one room or socket does to a charge.
LEMMA OneMore ==
    ASSUME NEW S, NEW x, IsFiniteSet(S), x \notin S
    PROVE  Cardinality(S \cup {x}) = Cardinality(S) + 1
BY FS_AddElement

LEMMA OneLess ==
    ASSUME NEW S, NEW x, IsFiniteSet(S), x \in S
    PROVE  Cardinality(S \ {x}) =
              IF Cardinality(S) <= 1 THEN 0 ELSE Cardinality(S) - 1
<1>1. Cardinality(S \ {x}) = Cardinality(S) - 1 /\ IsFiniteSet(S \ {x})
  BY FS_RemoveElement
<1>2. Cardinality(S) \in Nat /\ Cardinality(S \ {x}) \in Nat
  BY <1>1, FS_CardinalityType
<1> QED
  BY <1>1, <1>2

LEMMA FiniteCharges ==
    ASSUME NEW ip \in Ips
    PROVE  IsFiniteSet(Hosted(ip)) /\ IsFiniteSet(Opened(ip))
<1>1. Hosted(ip) \subseteq Codes /\ Opened(ip) \subseteq Sockets
  BY DEF Hosted, Opened
<1>2. IsFiniteSet(Codes) /\ IsFiniteSet(Sockets)
  BY LiveAssumption
<1> QED
  BY <1>1, <1>2, FS_Subset

\* The two halves of ChargedExactly; each step moves at most one of each.
RoomsCharged == \A ip \in Ips : roomsByIp[ip] = Cardinality(Hosted(ip))
SocketsCharged == \A ip \in Ips : socketsByIp[ip] = Cardinality(Opened(ip))

LEMMA ForgetCharged ==
    ASSUME LiveInv, RoomsCharged, NEW c \in Codes, rooms[c] # None, ForgetRoom(c)
    PROVE  RoomsCharged'
<1>1. LiveTypeOK /\ rooms[c].owner \in Ips
  BY RoomFields DEF LiveInv
<1>0. PICK owner \in Ips : owner = rooms[c].owner
  BY <1>1
<1>2. \A d \in Codes : rooms'[d] = IF d = c THEN None ELSE rooms[d]
  BY <1>1 DEF ForgetRoom, LiveTypeOK
<1>3. \A ip \in Ips : roomsByIp'[ip] =
         IF ip = owner THEN (IF roomsByIp[ip] <= 1 THEN 0 ELSE roomsByIp[ip] - 1)
         ELSE roomsByIp[ip]
  BY <1>0, <1>1 DEF ForgetRoom, releaseRoomSlot, LiveTypeOK
<1>4. Hosted(owner)' = Hosted(owner) \ {c} /\ c \in Hosted(owner)
  BY <1>0, <1>2 DEF Hosted
<1>5. \A ip \in Ips \ {owner} : Hosted(ip)' = Hosted(ip)
  BY <1>0, <1>2 DEF Hosted
<1>6. Cardinality(Hosted(owner)') =
         IF Cardinality(Hosted(owner)) <= 1 THEN 0 ELSE Cardinality(Hosted(owner)) - 1
  BY <1>4, FiniteCharges, OneLess
<1> QED
  BY <1>3, <1>5, <1>6 DEF RoomsCharged

LEMMA HostCharged ==
    ASSUME LiveInv, RoomsCharged, NEW s \in Sockets, NEW c \in Codes, Host(s, c)
    PROVE  RoomsCharged'
<1> DEFINE room == [host |-> s, guest |-> None, owner |-> addr[s], idle |-> FALSE]
<1>0. PICK owner \in Ips : owner = addr[s]
  BY DEF LiveInv, Host, Ready, Addressed
<1>1. LiveTypeOK /\ room \in Room /\ room.owner = owner
  BY <1>0, NoneIsNeither DEF LiveInv, Room
<1>2. rooms[c] = None
  BY DEF LiveInv, Host, RoomsConsistent
<1>3. \A d \in Codes : rooms'[d] = IF d = c THEN room ELSE rooms[d]
  BY <1>1 DEF Host, LiveTypeOK
<1>4. \A ip \in Ips : roomsByIp'[ip] = IF ip = owner THEN roomsByIp[ip] + 1 ELSE roomsByIp[ip]
  BY <1>0, <1>1 DEF Host, LiveTypeOK
<1>5. room # None
  BY <1>1, NoneIsNeither
<1> HIDE DEF room
<1>6. Hosted(owner)' = Hosted(owner) \cup {c} /\ c \notin Hosted(owner)
  BY <1>1, <1>2, <1>3, <1>5 DEF Hosted
<1>7. \A ip \in Ips \ {owner} : Hosted(ip)' = Hosted(ip)
  BY <1>1, <1>2, <1>3 DEF Hosted
<1>8. Cardinality(Hosted(owner)') = Cardinality(Hosted(owner)) + 1
  BY <1>1, <1>6, FiniteCharges, OneMore
<1> QED
  BY <1>4, <1>7, <1>8 DEF RoomsCharged

\* Whatever keeps the rooms and their owners keeps the charges.
LEMMA SameOwners ==
    ASSUME RoomsCharged, UNCHANGED roomsByIp,
           \A d \in Codes : /\ rooms'[d] = None <=> rooms[d] = None
                            /\ rooms[d] # None => rooms'[d].owner = rooms[d].owner
    PROVE  RoomsCharged'
<1>1. \A ip \in Ips : Hosted(ip)' = Hosted(ip)
  BY DEF Hosted
<1> QED
  BY <1>1 DEF RoomsCharged

\* Setting the guest or the idle mark of a room keeps its owner.
LEMMA MarkedOwners ==
    ASSUME LiveInv, RoomsCharged, NEW c \in Codes, rooms[c] # None, NEW room \in Room,
           rooms' = [rooms EXCEPT ![c] = room], room.owner = rooms[c].owner,
           UNCHANGED roomsByIp
    PROVE  RoomsCharged'
<1>1. \A d \in Codes : rooms'[d] = IF d = c THEN room ELSE rooms[d]
  BY DEF LiveInv, LiveTypeOK
<1>2. room # None
  BY NoneIsNeither
<1> QED
  BY <1>1, <1>2, SameOwners

LEMMA JoinCharged ==
    ASSUME LiveInv, RoomsCharged, NEW s \in Sockets, NEW c \in Codes, Join(s, c)
    PROVE  RoomsCharged'
<1>1. LiveTypeOK /\ rooms[c] # None /\ rooms[c] \in Room
  BY RoomFields DEF LiveInv, Join
<1>2. rooms' = [rooms EXCEPT ![c] = [rooms[c] EXCEPT !.guest = s, !.idle = FALSE]]
  BY <1>1 DEF Join, LiveTypeOK, Room
<1>3. /\ [rooms[c] EXCEPT !.guest = s, !.idle = FALSE] \in Room
      /\ [rooms[c] EXCEPT !.guest = s, !.idle = FALSE].owner = rooms[c].owner
  BY <1>1 DEF Room
<1>4. UNCHANGED roomsByIp
  BY DEF Join
<1> QED
  BY <1>1, <1>2, <1>3, <1>4, MarkedOwners

LEMMA IdleCharged ==
    ASSUME LiveInv, RoomsCharged, NEW c \in Codes, rooms[c] # None, NEW b \in BOOLEAN,
           rooms' = [rooms EXCEPT ![c].idle = b], UNCHANGED roomsByIp
    PROVE  RoomsCharged'
<1>1. LiveTypeOK /\ rooms[c] \in Room
  BY RoomFields DEF LiveInv
<1>2. /\ [rooms[c] EXCEPT !.idle = b] \in Room
      /\ [rooms[c] EXCEPT !.idle = b].owner = rooms[c].owner
  BY <1>1 DEF Room
<1> QED
  BY <1>1, <1>2, MarkedOwners

LEMMA RoomsChargedNext ==
    ASSUME LiveInv, RoomsCharged, [Next]_vars
    PROVE  RoomsCharged'
<1>1. LiveTypeOK /\ RoomsConsistent
  BY DEF LiveInv
<1>2. ASSUME UNCHANGED <<rooms, roomsByIp>>
      PROVE  RoomsCharged'
  BY <1>2, SameOwners
<1>3. ASSUME NEW s \in Sockets, SocketStep(s)
      PROVE  RoomsCharged'
  <2>1. CASE RoomOf(s) # None /\ (Disconnect(s) \/ Bye(s) \/ Congested(s))
    <3>1. socketRoom[s] \in Codes /\ rooms[socketRoom[s]] # None
      BY <1>1, <2>1, RoomOfSocket
    <3> QED
      BY <2>1, <3>1, ForgetCharged DEF Disconnect, Bye, Congested, closeRoom
  <2>2. CASE RoomOf(s) = None /\ (Disconnect(s) \/ Bye(s) \/ Congested(s))
    BY <1>2, <2>2 DEF Disconnect, Bye, Congested
  <2>3. CASE Alone(s) \/ Relay(s)
    <3>1. socketRoom[s] \in Codes /\ rooms[socketRoom[s]] # None
      BY <1>1, <2>3, RoomOfSocket DEF Alone, Relay
    <3> QED
      BY <2>3, <3>1, IdleCharged DEF Alone, Relay
  <2>4. CASE Write(s) \/ \E ip \in Ips : Connect(s, ip)
    BY <1>2, <2>4 DEF Write, Connect
  <2>5. ASSUME NEW c \in Codes, JoinRefused(s, c)
        PROVE  RoomsCharged'
    BY <1>2, <2>5 DEF JoinRefused, liveVars
  <2> QED
    BY <1>3, <2>1, <2>2, <2>3, <2>4, <2>5, HostCharged, JoinCharged DEF SocketStep
<1>4. ASSUME NEW c \in Codes, GrowIdle(c)
      PROVE  RoomsCharged'
  BY <1>4, IdleCharged DEF GrowIdle
<1>5. ASSUME NEW c \in Codes, CloseIdle(c)
      PROVE  RoomsCharged'
  BY <1>5, ForgetCharged DEF CloseIdle, closeRoom
<1> QED
  BY <1>2, <1>3, <1>4, <1>5 DEF Next, vars, liveVars

LEMMA SocketsChargedNext ==
    ASSUME LiveInv, SocketsCharged, [Next]_vars
    PROVE  SocketsCharged'
<1>1. LiveTypeOK
  BY DEF LiveInv
<1>2. ASSUME UNCHANGED <<conn, addr, socketsByIp>>
      PROVE  SocketsCharged'
  <2>1. \A ip \in Ips : Opened(ip)' = Opened(ip)
    BY <1>2 DEF Opened
  <2> QED
    BY <1>2, <2>1 DEF SocketsCharged
<1>3. ASSUME NEW s \in Sockets, NEW ip \in Ips, Connect(s, ip)
      PROVE  SocketsCharged'
  <2>1. \A t \in Sockets : /\ conn'[t] = IF t = s THEN "open" ELSE conn[t]
                           /\ addr'[t] = IF t = s THEN ip ELSE addr[t]
    BY <1>1, <1>3 DEF Connect, LiveTypeOK
  <2>2. Opened(ip)' = Opened(ip) \cup {s} /\ s \notin Opened(ip)
    BY <1>3, <2>1 DEF Opened, Connect
  <2>3. \A i \in Ips \ {ip} : Opened(i)' = Opened(i)
    BY <1>3, <2>1 DEF Opened, Connect
  <2>4. Cardinality(Opened(ip)') = Cardinality(Opened(ip)) + 1
    BY <2>2, FiniteCharges, OneMore
  <2>5. \A i \in Ips : socketsByIp'[i] = IF i = ip THEN socketsByIp[i] + 1 ELSE socketsByIp[i]
    BY <1>1, <1>3 DEF Connect, LiveTypeOK
  <2> QED
    BY <2>3, <2>4, <2>5 DEF SocketsCharged
<1>4. ASSUME NEW s \in Sockets, Disconnect(s)
      PROVE  SocketsCharged'
  <2>0. addr[s] \in Ips
    BY <1>4 DEF LiveInv, Addressed, Disconnect
  <2> PICK ip \in Ips : ip = addr[s]
    BY <2>0
  <2>1. ip = addr[s] /\ conn[s] = "open" /\ addr' = addr
    BY <1>4 DEF Disconnect
  <2>2. \A t \in Sockets : conn'[t] = IF t = s THEN "gone" ELSE conn[t]
    BY <1>1, <1>4 DEF Disconnect, LiveTypeOK
  <2>3. Opened(ip)' = Opened(ip) \ {s} /\ s \in Opened(ip)
    BY <2>1, <2>2 DEF Opened
  <2>4. \A i \in Ips \ {ip} : Opened(i)' = Opened(i)
    BY <2>1, <2>2 DEF Opened
  <2>5. Cardinality(Opened(ip)') =
           IF Cardinality(Opened(ip)) <= 1 THEN 0 ELSE Cardinality(Opened(ip)) - 1
    BY <2>1, <2>3, FiniteCharges, OneLess
  <2>6. \A i \in Ips : socketsByIp'[i] =
           IF i = ip THEN (IF socketsByIp[i] <= 1 THEN 0 ELSE socketsByIp[i] - 1)
           ELSE socketsByIp[i]
    BY <1>1, <1>4, <2>1 DEF Disconnect, LiveTypeOK
  <2> QED
    BY <2>1, <2>4, <2>5, <2>6 DEF SocketsCharged
<1>5. ASSUME NEW s \in Sockets, SocketStep(s)
      PROVE  SocketsCharged'
  BY <1>2, <1>3, <1>4, <1>5 DEF SocketStep, Write, Bye, Alone, Relay, Congested, Host,
     JoinRefused, Join, people, liveVars
<1> QED
  BY <1>2, <1>5 DEF Next, vars, liveVars, people, GrowIdle, CloseIdle

\* The inductive form of ChargedExactly.
ChargeInv == LiveInv /\ RoomsCharged /\ SocketsCharged

LEMMA ChargeInitInv == Init => ChargeInv
<1> SUFFICES ASSUME Init PROVE ChargeInv
  OBVIOUS
<1>1. \A ip \in Ips : Hosted(ip) = {} /\ Opened(ip) = {}
  BY DEF Init, Hosted, Opened
<1>2. Cardinality({}) = 0
  BY FS_EmptySet
<1>3. \A ip \in Ips : roomsByIp[ip] = 0 /\ socketsByIp[ip] = 0
  BY DEF Init
<1> QED
  BY <1>1, <1>2, <1>3, LiveInitInv DEF ChargeInv, RoomsCharged, SocketsCharged

\* Every address is charged for exactly its rooms and its sockets.
THEOREM ChargesAreExact == Spec => []ChargedExactly
<1>1. ChargeInv /\ [Next]_vars => ChargeInv'
  BY LiveNextInv, RoomsChargedNext, SocketsChargedNext DEF ChargeInv
<1>2. ChargeInv => ChargedExactly
  BY DEF ChargeInv, RoomsCharged, SocketsCharged, ChargedExactly
<1> QED BY <1>1, <1>2, ChargeInitInv, PTL DEF Spec

----------------------------------------------------------------------------
(* What no step does *)

LEMMA ReceiverStep ==
    ASSUME LiveInv, [Next]_vars, NEW c \in Codes,
           rooms[c] # None, rooms'[c] # None, rooms[c].guest # None
    PROVE  rooms'[c].guest = rooms[c].guest /\ rooms'[c].host = rooms[c].host
<1> DEFINE Goal == rooms'[c].guest = rooms[c].guest /\ rooms'[c].host = rooms[c].host
<1>1. LiveTypeOK /\ RoomsConsistent /\ rooms[c] \in Room
  BY RoomFields DEF LiveInv
<1>2. CASE rooms' = rooms
  BY <1>2
<1>3. ASSUME NEW d \in Codes, ForgetRoom(d)
      PROVE  Goal
  BY <1>1, <1>3 DEF ForgetRoom, LiveTypeOK
<1>4. ASSUME NEW d \in Codes, NEW b \in BOOLEAN, rooms' = [rooms EXCEPT ![d].idle = b]
      PROVE  Goal
  BY <1>1, <1>4 DEF LiveTypeOK, Room
<1>5. ASSUME NEW s \in Sockets, NEW d \in Codes, Host(s, d)
      PROVE  Goal
  <2>1. c # d
    BY <1>1, <1>5 DEF Host, RoomsConsistent
  <2> QED
    BY <1>1, <1>5, <2>1 DEF Host, LiveTypeOK
<1>6. ASSUME NEW s \in Sockets, NEW d \in Codes, Join(s, d)
      PROVE  Goal
  <2>1. c # d
    BY <1>6 DEF Join, Free
  <2> QED
    BY <1>1, <1>6, <2>1 DEF Join, LiveTypeOK
<1>7. ASSUME NEW s \in Sockets, SocketStep(s)
      PROVE  Goal
  <2>1. RoomOf(s) # None => socketRoom[s] \in Codes
    BY <1>1, RoomOfSocket
  <2>2. CASE Disconnect(s) \/ Bye(s) \/ Congested(s)
    BY <1>2, <1>3, <2>1, <2>2 DEF Disconnect, Bye, Congested, closeRoom
  <2>3. CASE Alone(s) \/ Relay(s)
    BY <1>4, <2>1, <2>3 DEF Alone, Relay
  <2>4. CASE Write(s) \/ \E ip \in Ips : Connect(s, ip)
    BY <1>2, <2>4 DEF Write, Connect
  <2>5. ASSUME NEW d \in Codes, JoinRefused(s, d)
        PROVE  Goal
    BY <1>2, <2>5 DEF JoinRefused, liveVars
  <2> QED
    BY <1>5, <1>6, <1>7, <2>2, <2>3, <2>4, <2>5 DEF SocketStep
<1>8. ASSUME NEW d \in Codes, GrowIdle(d) \/ CloseIdle(d)
      PROVE  Goal
  BY <1>3, <1>4, <1>8 DEF GrowIdle, CloseIdle, closeRoom
<1> HIDE DEF Goal
<1>9. Goal
  BY <1>2, <1>7, <1>8 DEF Next, vars, liveVars, Goal
<1> QED
  BY <1>9 DEF Goal

\* The one receiver of a session is never replaced.
THEOREM ReceiverStays == Spec => ReceiverKept
<1>1. LiveInv /\ [Next]_vars =>
         [\A c \in Codes : rooms[c] # None /\ rooms'[c] # None /\ rooms[c].guest # None =>
             rooms'[c].guest = rooms[c].guest /\ rooms'[c].host = rooms[c].host]_vars
  BY ReceiverStep
<1> QED BY <1>1, LiveInvariant, PTL DEF Spec, ReceiverKept

\* peerIdOf gives the other member of the room.
LEMMA PeerIsPartner ==
    ASSUME LiveInv, NEW s \in Sockets, RoomOf(s) # None, peerIdOf(RoomOf(s), s) # None
    PROVE  /\ peerIdOf(RoomOf(s), s) \in Sockets
           /\ Members(RoomOf(s)) = {s, peerIdOf(RoomOf(s), s)}
           /\ \E c \in Codes : rooms[c] # None /\ rooms[c] = RoomOf(s)
<1>1. LiveTypeOK /\ RoomsConsistent
  BY DEF LiveInv
<1>2. PICK c \in Codes : RoomOf(s) = rooms[c] /\ rooms[c] # None /\ s \in Members(rooms[c])
  BY <1>1, RoomOfSocket
<1>3. /\ rooms[c].host \in Sockets /\ rooms[c].guest \in Sockets \cup {None}
      /\ rooms[c].host # rooms[c].guest
  BY <1>1, <1>2, RoomFields DEF RoomsConsistent
<1>4. s = rooms[c].host \/ s = rooms[c].guest
  BY <1>2 DEF Members
<1> QED
  BY <1>2, <1>3, <1>4, NoneIsNeither DEF peerIdOf, Members

\* No event but a frame is a frame, and only a longer buffer has a new last.
LEMMA EventsDiffer ==
    ASSUME NEW s \in Sockets
    PROVE  Left # Frame(s) /\ Joined # Frame(s)
BY DEF Left, Joined, Frame

LEMMA LastOfAppend ==
    ASSUME NEW q \in Seq(Event), NEW e \in Event
    PROVE  Last(Append(q, e)) = e /\ Len(Append(q, e)) = Len(q) + 1 /\ Len(q) \in Nat
           /\ Append(q, e) # <<>>
BY DEF Last

LEMMA ToldBuffer ==
    ASSUME LiveTypeOK, NEW S, NEW t \in Sockets
    PROVE  \/ Told(S)[t] = buffer[t] /\ ~(t \in S /\ conn[t] = "open")
           \/ /\ Told(S)[t] = Append(buffer[t], Left)
              /\ Last(Told(S)[t]) = Left /\ Told(S)[t] # <<>>
              /\ t \in S /\ conn[t] = "open"
<1>1. Left \in Event /\ buffer[t] \in Seq(Event)
  BY DEF Left, Event, LiveTypeOK
<1>2. Told(S)[t] = IF t \in S /\ conn[t] = "open" THEN Append(buffer[t], Left) ELSE buffer[t]
  BY DEF Told
<1> QED
  BY <1>1, <1>2, LastOfAppend

LEMMA RelayStep ==
    ASSUME LiveInv, [Next]_vars, NEW s \in Sockets, NEW t \in Sockets,
           Len(buffer'[t]) > Len(buffer[t]), Last(buffer'[t]) = Frame(s)
    PROVE  \E c \in Codes : rooms[c] # None /\ Members(rooms[c]) = {s, t}
<1> DEFINE Goal == \E c \in Codes : rooms[c] # None /\ Members(rooms[c]) = {s, t}
<1>1. LiveTypeOK /\ RoomsConsistent /\ buffer[t] \in Seq(Event) /\ Len(buffer[t]) \in Nat
  BY DEF LiveInv, LiveTypeOK
<1>2. CASE buffer'[t] = buffer[t]
  BY <1>1, <1>2
<1>3. ASSUME NEW S, buffer'[t] = Told(S)[t]
      PROVE  Goal
  BY <1>1, <1>2, <1>3, ToldBuffer, EventsDiffer
<1>4. ASSUME NEW q \in Sockets, Disconnect(q)
      PROVE  Goal
  <2>1. CASE t = q
    <3>1. buffer'[t] = <<>>
      <4>1. CASE RoomOf(q) # None
        <5> DEFINE told == Told(Members(RoomOf(q)) \ {q})
        <5>1. told \in [Sockets -> Seq(Event)]
          BY <1>1, ToldTypes DEF LiveTypeOK
        <5>2. buffer' = [told EXCEPT ![q] = <<>>]
          BY <1>4, <4>1 DEF Disconnect
        <5> HIDE DEF told
        <5> QED
          BY <2>1, <5>1, <5>2
      <4>2. CASE RoomOf(q) = None
        BY <1>1, <1>4, <2>1, <4>2 DEF Disconnect, LiveTypeOK
      <4> QED
        BY <4>1, <4>2
    <3> QED
      BY <1>1, <3>1
  <2>2. CASE t # q /\ RoomOf(q) # None
    <3> DEFINE told == Told(Members(RoomOf(q)) \ {q})
    <3>1. told \in [Sockets -> Seq(Event)]
      BY <1>1, ToldTypes DEF LiveTypeOK
    <3>2. buffer' = [told EXCEPT ![q] = <<>>]
      BY <1>4, <2>2 DEF Disconnect
    <3>3. buffer'[t] = told[t]
      <4> HIDE DEF told
      <4> QED BY <2>2, <3>1, <3>2
    <3> QED
      BY <1>3, <3>3
  <2>3. CASE t # q /\ RoomOf(q) = None
    BY <1>1, <1>2, <1>4, <2>3 DEF Disconnect, LiveTypeOK
  <2> QED
    BY <2>1, <2>2, <2>3
<1>5. ASSUME NEW q \in Sockets, Write(q)
      PROVE  Goal
  <2>1. \A b \in Seq(Event) : b # <<>> => Len(Tail(b)) = Len(b) - 1 /\ Len(b) \in Nat
    OBVIOUS
  <2>2. t = q => Len(buffer'[t]) = Len(buffer[t]) - 1
    BY <1>1, <1>5, <2>1 DEF Write, LiveTypeOK
  <2>3. t # q => buffer'[t] = buffer[t]
    BY <1>1, <1>5 DEF Write, LiveTypeOK
  <2> QED
    BY <1>1, <1>2, <2>2, <2>3
<1>6. ASSUME NEW q \in Sockets, NEW c \in Codes, Join(q, c)
      PROVE  Goal
  <2>1. buffer' = [buffer EXCEPT ![rooms[c].host] = Append(@, Joined)]
    BY <1>6 DEF Join
  <2>2. t # rooms[c].host => buffer'[t] = buffer[t]
    BY <1>1, <2>1 DEF LiveTypeOK
  <2>3. t = rooms[c].host => buffer'[t] = Append(buffer[t], Joined)
    BY <1>1, <2>1 DEF LiveTypeOK
  <2>4. Joined \in Event
    BY DEF Joined, Event
  <2> QED
    BY <1>1, <1>2, <2>2, <2>3, <2>4, LastOfAppend, EventsDiffer
<1>7. ASSUME NEW q \in Sockets, Relay(q)
      PROVE  Goal
  <2> DEFINE peer == peerIdOf(RoomOf(q), q)
  <2>1. /\ peer \in Sockets /\ Members(RoomOf(q)) = {q, peer}
        /\ \E c \in Codes : rooms[c] # None /\ rooms[c] = RoomOf(q)
    BY <1>7, PeerIsPartner DEF Relay
  <2>2. buffer' = [buffer EXCEPT ![peer] = Append(@, Frame(q))]
    BY <1>7 DEF Relay
  <2> HIDE DEF peer
  <2>3. t # peer => buffer'[t] = buffer[t]
    BY <1>1, <2>2 DEF LiveTypeOK
  <2>4. t = peer => buffer'[t] = Append(buffer[t], Frame(q))
    BY <1>1, <2>2 DEF LiveTypeOK
  <2>5. Frame(q) \in Event
    BY DEF Frame, Event
  <2>6. t = peer => Frame(q) = Frame(s)
    BY <1>1, <2>4, <2>5, LastOfAppend
  <2>7. t = peer => q = s
    BY <2>6 DEF Frame
  <2> QED
    BY <1>2, <2>1, <2>3, <2>7
<1>8. ASSUME NEW q \in Sockets, SocketStep(q)
      PROVE  Goal
  <2>1. CASE Bye(q) \/ Congested(q)
    BY <1>3, <2>1 DEF Bye, Congested, closeRoom, TellMembers
  <2>2. CASE Alone(q) \/ \E ip \in Ips : Connect(q, ip)
    BY <1>2, <2>2 DEF Alone, Connect
  <2>3. ASSUME NEW c \in Codes, Host(q, c) \/ JoinRefused(q, c)
        PROVE  Goal
    BY <1>2, <2>3 DEF Host, JoinRefused, liveVars
  <2> QED
    BY <1>4, <1>5, <1>6, <1>7, <1>8, <2>1, <2>2, <2>3 DEF SocketStep
<1>9. ASSUME NEW c \in Codes, GrowIdle(c) \/ CloseIdle(c)
      PROVE  Goal
  BY <1>2, <1>3, <1>9 DEF GrowIdle, CloseIdle, closeRoom, TellMembers
<1> HIDE DEF Goal
<1>10. Goal
  BY <1>2, <1>8, <1>9 DEF Next, vars, liveVars
<1> QED
  BY <1>10 DEF Goal

\* A relayed frame reaches the partner of its sender and nobody else.
THEOREM FramesStayInPair == Spec => RelayedWithinPair
<1>1. LiveInv /\ [Next]_vars =>
         [\A s, t \in Sockets :
             Len(buffer'[t]) > Len(buffer[t]) /\ Last(buffer'[t]) = Frame(s) =>
                 \E c \in Codes : rooms[c] # None /\ Members(rooms[c]) = {s, t}]_vars
  BY RelayStep
<1> QED BY <1>1, LiveInvariant, PTL DEF Spec, RelayedWithinPair

LEMMA LeavingStep ==
    ASSUME LiveInv, [Next]_vars, NEW s \in Sockets,
           socketRoom[s] # None, socketRoom'[s] = None, ~Bye(s), ~Disconnect(s)
    PROVE  buffer'[s] # <<>> /\ Last(buffer'[s]) = Left
<1> DEFINE Goal == buffer'[s] # <<>> /\ Last(buffer'[s]) = Left
<1>1. LiveTypeOK /\ RoomsConsistent /\ conn[s] = "open"
  BY DEF LiveInv, RoomsConsistent, RoomOf, LiveTypeOK
<1>2. CASE socketRoom' = socketRoom
  BY <1>2
<1>3. ASSUME NEW c \in Codes, NEW except, closeRoom(c, except), except # s
      PROVE  Goal
  <2>1. s \in Members(rooms[c])
    BY <1>1, <1>3 DEF closeRoom, LeaveRoom, LiveTypeOK
  <2>2. buffer'[s] = Told(Members(rooms[c]) \ {except})[s]
    BY <1>3 DEF closeRoom, TellMembers
  <2> QED
    BY <1>1, <1>3, <2>1, <2>2, ToldBuffer
<1>4. ASSUME NEW q \in Sockets, Disconnect(q), q # s
      PROVE  Goal
  <2>1. RoomOf(q) # None
    BY <1>1, <1>4 DEF Disconnect, LiveTypeOK
  <2> DEFINE told == Told(Members(RoomOf(q)) \ {q})
  <2>2. s \in Members(RoomOf(q)) \ {q}
    <3>1. RoomOf(q) = rooms[socketRoom[q]]
      BY <1>1, <2>1, RoomOfSocket
    <3> QED
      BY <1>1, <1>4, <2>1, <3>1 DEF Disconnect, LeaveRoom, LiveTypeOK
  <2>3. told \in [Sockets -> Seq(Event)]
    BY <1>1, ToldTypes DEF LiveTypeOK
  <2>4. buffer' = [told EXCEPT ![q] = <<>>]
    BY <1>4, <2>1 DEF Disconnect
  <2>5. buffer'[s] = told[s]
    <3> HIDE DEF told
    <3> QED BY <1>4, <2>3, <2>4
  <2> QED
    BY <1>1, <2>2, <2>5, ToldBuffer
<1>5. ASSUME NEW q \in Sockets, NEW c \in Codes, Host(q, c) \/ Join(q, c)
      PROVE  Goal
  BY <1>1, <1>2, <1>5, NoneIsNeither DEF Host, Join, LiveTypeOK
<1>6. ASSUME NEW q \in Sockets, SocketStep(q)
      PROVE  Goal
  <2>1. CASE Bye(q) \/ Congested(q)
    <3>1. socketRoom[q] \in Codes
      BY <1>1, <2>1, RoomOfSocket DEF Bye, Congested
    <3>2. CASE Bye(q)
      BY <1>3, <3>1, <3>2 DEF Bye
    <3>3. CASE Congested(q)
      BY <1>3, <3>1, <3>3, NoneIsNeither DEF Congested
    <3> QED
      BY <2>1, <3>2, <3>3
  <2>2. CASE Alone(q) \/ Relay(q) \/ Write(q) \/ \E ip \in Ips : Connect(q, ip)
    BY <1>2, <2>2 DEF Alone, Relay, Write, Connect
  <2>3. ASSUME NEW c \in Codes, JoinRefused(q, c)
        PROVE  Goal
    BY <1>2, <2>3 DEF JoinRefused, liveVars
  <2> QED
    BY <1>4, <1>5, <1>6, <2>1, <2>2, <2>3 DEF SocketStep
<1>7. ASSUME NEW c \in Codes, GrowIdle(c) \/ CloseIdle(c)
      PROVE  Goal
  BY <1>2, <1>3, <1>7, NoneIsNeither DEF GrowIdle, CloseIdle
<1> HIDE DEF Goal
<1>8. Goal
  BY <1>2, <1>6, <1>7 DEF Next, vars, liveVars
<1> QED
  BY <1>8 DEF Goal

\* Whoever loses a session without asking to has the notice in its buffer.
THEOREM LosersAreTold == Spec => NobodyLeftWaiting
<1>1. LiveInv /\ [Next]_vars =>
         [\A s \in Sockets :
             socketRoom[s] # None /\ socketRoom'[s] = None /\ ~Bye(s) /\ ~Disconnect(s) =>
                 buffer'[s] # <<>> /\ Last(buffer'[s]) = Left]_vars
  BY LeavingStep
<1> QED BY <1>1, LiveInvariant, PTL DEF Spec, NobodyLeftWaiting
=============================================================================
