------------------------------- MODULE Guard -------------------------------
(***************************************************************************)
(* The throttle every guess at a six-digit code passes: server/guard.js    *)
(* over the RateLimiter of server/util.js and the registry of              *)
(* server/codes.js.  The three HTTP lookups of routes.js are modelled      *)
(* here; live:join shares the same operators from module LiveRooms.        *)
(*                                                                         *)
(* A lookup runs without an await, so check, answer and refund are one     *)
(* step.  An attempt is its time and its place in the order of attempts.    *)
(*                                                                         *)
(* A definition directly above one with the same parameters, and named for *)
(* what it gets wrong, is a defect the properties are tried against.       *)
(***************************************************************************)
EXTENDS Integers, FiniteSets

CONSTANTS
    Codes,            \* the six-digit codes
    Ips,              \* client addresses
    AttemptsPerIp,    \* config.codeAttemptsPerIp
    Window,           \* config.codeAttemptWindowMs
    FailuresPerCode,  \* config.codeMaxFailuresPerCode
    MaxClock,         \* bound: how far time runs
    MaxKept           \* bound: attempts that are not refunded

ASSUME GuardAssumption ==
    /\ AttemptsPerIp \in Nat
    /\ Window \in Nat \ {0}
    /\ FailuresPerCode \in Nat \ {0}
    /\ MaxClock \in Nat
    /\ MaxKept \in Nat

VARIABLES
    registry,    \* codes.js: what each code leads to
    hits,        \* ipLimiter: the attempts held against each address
    failures,    \* codeFailures: misses on each code and the time of the last
    clock,       \* Date.now()
    kept,        \* attempts not refunded so far: the place of the next one
    failed       \* history: every lookup of an address that was not answered

guardVars == <<registry, hits, failures, clock, kept, failed>>

\* "pending" is a stored transfer peek does not return: still uploading, spent
\* or expired.
Entry == {"none", "live", "pending", "stored"}

Attempt == [n : Nat, at : Nat]

GuardTypeOK ==
    /\ registry \in [Codes -> Entry]
    /\ hits \in [Ips -> SUBSET Attempt]
    /\ failures \in [Codes -> [count : Nat, last : Nat]]
    /\ clock \in Nat
    /\ kept \in Nat
    /\ failed \in [Ips -> SUBSET Attempt]

GuardInit ==
    /\ registry = [c \in Codes |-> "none"]
    /\ hits = [ip \in Ips |-> {}]
    /\ failures = [c \in Codes |-> [count |-> 0, last |-> 0]]
    /\ clock = 0
    /\ kept = 0
    /\ failed = [ip \in Ips |-> {}]

----------------------------------------------------------------------------
(* RateLimiter *)

\* The attempts still inside the window.
Recent(attempts) == {h \in attempts : clock - h.at < Window}

ThisAttempt == [n |-> kept, at |-> clock]

\* check pushes the attempt; pardon pops the latest one.
Checked(ip) == Recent(hits[ip]) \cup {ThisAttempt}
PardonOldest(attempts) == {h \in attempts : \E g \in attempts : g.n < h.n}
Pardon(attempts) == {h \in attempts : \E g \in attempts : g.n > h.n}

AllowedOnce(ip) == Cardinality(Recent(hits[ip])) <= AttemptsPerIp
Allowed(ip) == Cardinality(Recent(hits[ip])) < AttemptsPerIp

----------------------------------------------------------------------------
(* checkCodeLookup and what follows it: four outcomes of one lookup *)

\* The lock on a code guessed at too often spares codes that lead somewhere.
Locked(code) == failures[code].count >= FailuresPerCode /\ registry[code] = "none"

Throttled(ip) ==
    /\ ~Allowed(ip)
    /\ hits' = [hits EXCEPT ![ip] = Recent(@)]
    /\ UNCHANGED <<failures, kept, failed>>

\* The attempt stays on the address.
Keep(ip) ==
    /\ kept < MaxKept
    /\ kept' = kept + 1
    /\ hits' = [hits EXCEPT ![ip] = Checked(ip)]
    /\ failed' = [failed EXCEPT ![ip] = @ \cup {ThisAttempt}]

LockedOut(ip, code) ==
    /\ Allowed(ip)
    /\ Locked(code)
    /\ Keep(ip)
    /\ UNCHANGED failures

\* noteFailure
Missed(ip, code) ==
    /\ Allowed(ip)
    /\ ~Locked(code)
    /\ Keep(ip)
    /\ failures' = [failures EXCEPT ![code] = [count |-> @.count + 1, last |-> clock]]

\* noteSuccess deletes the entry of the code.
ForgivenOnce(entry) == [entry EXCEPT !.count = @ - 1]
Forgiven(entry) == [count |-> 0, last |-> 0]

Found(ip, code) ==
    /\ Allowed(ip)
    /\ ~Locked(code)
    /\ hits' = [hits EXCEPT ![ip] = Pardon(Checked(ip))]
    /\ failures' = [failures EXCEPT ![code] = Forgiven(@)]
    /\ UNCHANGED <<kept, failed>>

----------------------------------------------------------------------------

\* real: the lookup found what it was after.
Lookup(ip, code, real) ==
    /\ \/ Throttled(ip)
       \/ LockedOut(ip, code)
       \/ real /\ Found(ip, code)
       \/ ~real /\ Missed(ip, code)
    /\ UNCHANGED <<registry, clock>>

\* GET /resolve/:code
Resolve(ip, code) == Lookup(ip, code, registry[code] \in {"live", "stored"})

\* GET /store/:code and /store/:code/meta: to them the code of a live room is a
\* miss.  A transfer that someone else is reading (409) was found all the same.
Collect(ip, code) == Lookup(ip, code, registry[code] = "stored")

\* live:join; what it does to the rooms is in module LiveRooms.
JoinLookup(ip, code) == Lookup(ip, code, registry[code] = "live")

\* The timer of guard.js: stale attempts and old failures are dropped.
Sweep ==
    /\ hits' = [ip \in Ips |-> Recent(hits[ip])]
    /\ failures' = [c \in Codes |-> IF failures[c].last < clock - Window
                                    THEN Forgiven(failures[c]) ELSE failures[c]]
    /\ UNCHANGED <<registry, clock, kept, failed>>

Tick ==
    /\ clock < MaxClock
    /\ clock' = clock + 1
    /\ UNCHANGED <<registry, hits, failures, kept, failed>>

Becomes(code, old, new) ==
    /\ registry[code] = old
    /\ registry' = [registry EXCEPT ![code] = new]
    /\ UNCHANGED <<hits, failures, clock, kept, failed>>

\* The store takes a code, publishes its transfer, lets it expire, gives it
\* back (module Store).
StoredCode(code) ==
    \/ Becomes(code, "none", "pending")
    \/ Becomes(code, "pending", "stored")
    \/ Becomes(code, "stored", "pending")
    \/ Becomes(code, "pending", "none")

\* A live room takes or gives back a code (module LiveRooms).
LiveCode(code) == Becomes(code, "none", "live") \/ Becomes(code, "live", "none")

\* Everything but the live rooms.
GuardStep ==
    \/ \E ip \in Ips, code \in Codes : Resolve(ip, code) \/ Collect(ip, code)
    \/ Sweep
    \/ Tick
    \/ \E code \in Codes : StoredCode(code)

GuardNext ==
    \/ GuardStep
    \/ \E code \in Codes : LiveCode(code)
    \/ \E ip \in Ips, code \in Codes : JoinLookup(ip, code)

GuardSpec == GuardInit /\ [][GuardNext]_guardVars

----------------------------------------------------------------------------
(* Properties *)

\* Exactly the lookups that failed count against an address: a refund gives
\* back the attempt it belongs to and no other, on whichever surface and after
\* whichever sweep (checkCodeLookup, noteSuccess, RateLimiter).
OnlyFailuresCount == \A ip \in Ips : Recent(hits[ip]) = Recent(failed[ip])

\* An address never fails more often within a window than the budget allows,
\* over both surfaces together (guard.js, the opening comment).
OneBudget == \A ip \in Ips : Cardinality(Recent(failed[ip])) <= AttemptsPerIp
=============================================================================
