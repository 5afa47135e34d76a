----------------------------- MODULE Admission ------------------------------
(***************************************************************************)
(* How the SSH front decides which connections reach a handshake: the      *)
(* per-source limiter and the accept loop and handler goroutines that use  *)
(* it.                                                                     *)
(*                                                                         *)
(*   internal/ratelimit/ratelimit.go   the limiter                         *)
(*   internal/proxy/proxy.go           Serve and handle                    *)
(*                                                                         *)
(* Time is counted in ticks and tokens in ticks of refill, so that the     *)
(* bucket gains one unit a tick, a connection costs Cost units (1 / Rate)  *)
(* and a full bucket holds Burst units.  Every operation of the limiter    *)
(* reads the clock before it takes the lock, so the time it works with may *)
(* be MaxLag ticks old and operations may run out of clock order.          *)
(*                                                                         *)
(* The failures of a source are a set: each is its time, and its number    *)
(* among those of that time.                                               *)
(***************************************************************************)
EXTENDS Integers, FiniteSets

CONSTANTS
    Sources,        \* source addresses, as key() reduces them
    Conns,          \* identities of connections, reused
    Cost, Burst,
    MaxConcurrent, MaxFailures,
    FailureWindow, BlockDuration, IdleTTL,
    SSHSlots,       \* capacity of Serve's slots channel (256)
    MaxLag,         \* bound: age of a clock reading when the lock is taken
    MaxTime         \* bound: ticks of the clock

ASSUME LimiterAssumption ==
    /\ IsFiniteSet(Conns)
    /\ Cost \in Nat \ {0}
    /\ Burst \in Nat
    /\ MaxConcurrent \in Nat \ {0}
    /\ MaxFailures \in Nat \ {0}
    /\ FailureWindow \in Nat
    /\ BlockDuration \in Nat
    /\ IdleTTL \in Nat
    /\ SSHSlots \in Nat
    /\ MaxLag \in Nat
    /\ MaxTime \in Nat

\* DefaultConfig keeps an idle source for 30 minutes; a bucket fills in 20
\* seconds and failures count for 5 minutes.
ASSUME RetentionAssumption ==
    /\ IdleTTL >= Burst + MaxLag
    /\ IdleTTL >= FailureWindow + MaxLag

VARIABLES
    now,        \* the clock
    sources,    \* Limiter.sources: a map, so only tracked sources are in it
    loopRead,   \* the accept loop's last reading of the clock
    slots,      \* entries in Serve's slots channel
    phase,      \* where a connection is
    from,       \* its source

    \* History, read by no action of the program.
    meter,      \* units spent by a source, leaking one a tick, never reset
    mark,       \* when meter was last brought up to date
    recent,     \* failures of a source since a success or a block, in window
    penalty     \* when the last block a source has earned ends

codeVars == <<now, sources, loopRead, slots, phase, from>>
history  == <<meter, mark, recent, penalty>>
vars == <<codeVars, history>>

Larger(x, y)  == IF x > y THEN x ELSE y
Smaller(x, y) == IF x < y THEN x ELSE y

Phases == {"none", "admitted", "handshake", "failed", "passed", "tunnel", "done"}

\* Admitted and not yet released, and in a goroutine that owns a slot.
Unreleased == {"admitted", "handshake"}
Slotted    == {"handshake", "failed", "passed", "tunnel", "done"}

Failure == [at : Nat, nth : Nat]

Source == [tokens : 0..Burst, lastRefill : Nat, inFlight : Nat,
           failures : SUBSET Failure, blockedTil : Nat, lastSeen : Nat]

TypeOK ==
    /\ now \in 0..MaxTime
    /\ DOMAIN sources \subseteq Sources
    /\ \A k \in DOMAIN sources : sources[k] \in Source
    /\ loopRead \in 0..MaxTime
    /\ slots \in 0..SSHSlots
    /\ phase \in [Conns -> Phases]
    /\ from \in [Conns -> Sources]
    /\ meter \in [Sources -> Nat]
    /\ mark \in [Sources -> 0..MaxTime]
    /\ recent \in [Sources -> SUBSET Failure]
    /\ penalty \in [Sources -> Nat]

Init ==
    /\ now = 0
    /\ sources = [k \in {} |-> {}]
    /\ loopRead = 0
    /\ slots = 0
    /\ phase = [c \in Conns |-> "none"]
    /\ from \in {[c \in Conns |-> k] : k \in Sources}
    /\ meter = [k \in Sources |-> 0]
    /\ mark = [k \in Sources |-> 0]
    /\ recent = [k \in Sources |-> {}]
    /\ penalty = [k \in Sources |-> 0]

-----------------------------------------------------------------------------
(***************************************************************************)
(* The limiter.                                                            *)
(***************************************************************************)

\* What l.now() can have returned to a goroutine that takes the lock now.
Readings == Larger(0, now - MaxLag)..now

NewSource(at) ==
    [tokens |-> Burst, lastRefill |-> at, inFlight |-> 0,
     failures |-> {}, blockedTil |-> 0, lastSeen |-> at]

\* get(): the tracked source or a new one, seen at that time.
Get(tracked, k, at) ==
    [IF k \in tracked THEN sources[k] ELSE NewSource(at) EXCEPT !.lastSeen = at]

\* Mutant of Idle: a handshake in flight does not retain.
Idle_InFlight(s, at) == at >= s.blockedTil /\ at - s.lastSeen > IdleTTL

\* Mutant of Idle: any source without a handshake or a penalty goes.
Idle_Eager(s, at) == s.inFlight = 0 /\ at >= s.blockedTil

\* evictLocked: what may be forgotten.
Idle(s, at) ==
    /\ s.inFlight = 0
    /\ at >= s.blockedTil
    /\ at - s.lastSeen > IdleTTL

Retained(at) == {k \in DOMAIN sources : ~ Idle(sources[k], at)}

\* Mutant of Refill: what was left in the bucket is not added to.
Refill_Replaces(s, at) ==
    IF at > s.lastRefill
    THEN [s EXCEPT !.tokens = Smaller(at - s.lastRefill, Burst), !.lastRefill = at]
    ELSE s

Refill(s, at) ==
    IF at > s.lastRefill
    THEN [s EXCEPT !.tokens = Smaller(@ + (at - s.lastRefill), Burst),
                   !.lastRefill = at]
    ELSE s

\* What passes the three refusals.
LetsIn(s, at) ==
    /\ at >= s.blockedTil
    /\ s.inFlight < MaxConcurrent
    /\ Refill(s, at).tokens >= Cost

\* The map after an operation stored source s under k.
Stored(tracked, k, s) == [x \in tracked \cup {k} |-> IF x = k THEN s ELSE sources[x]]

\* The release closure: it runs at most once, by the structure of the callers.
Release(k) ==
    sources' = IF k \in DOMAIN sources /\ sources[k].inFlight > 0
               THEN [sources EXCEPT ![k].inFlight = @ - 1] ELSE sources

\* The failures that still count at a time, and those with one more.
InWindow(failures, at) == {f \in failures : f.at > at - FailureWindow}

NewFailure(failures, at) ==
    [at |-> at, nth |-> Cardinality({f \in InWindow(failures, at) : f.at = at})]

WithFailure(failures, at) == InWindow(failures, at) \cup {NewFailure(failures, at)}

\* Mutant of Recorded: the block starts one failure late.
Recorded_Late(s, at) ==
    LET failures == WithFailure(s.failures, at)
    IN  IF Cardinality(failures) > MaxFailures
        THEN [s EXCEPT !.blockedTil = at + BlockDuration, !.failures = {}]
        ELSE [s EXCEPT !.failures = failures]

\* RecordFailure on a source.
Recorded(s, at) ==
    LET failures == WithFailure(s.failures, at)
    IN  IF Cardinality(failures) >= MaxFailures
        THEN [s EXCEPT !.blockedTil = at + BlockDuration, !.failures = {}]
        ELSE [s EXCEPT !.failures = failures]

-----------------------------------------------------------------------------
(***************************************************************************)
(* Serve: one accept loop, so Acquire runs on one goroutine.               *)
(***************************************************************************)

\* The loop is back at Accept.
LoopFree == \A c \in Conns : phase[c] # "admitted"

\* A connection from k and its Acquire: evict, get, then the three refusals.
Acquire(c, k, at) ==
    LET tracked == Retained(at)
        s == Get(tracked, k, at)
        refilled == Refill(s, at)
        Refused(r) ==
            /\ sources' = Stored(tracked, k, r)
            /\ UNCHANGED <<phase, from, history>>
    IN  /\ phase[c] = "none"
        /\ LoopFree
        /\ at >= loopRead
        /\ loopRead' = at
        /\ \/ at < s.blockedTil /\ Refused(s)
           \/ at >= s.blockedTil /\ s.inFlight >= MaxConcurrent /\ Refused(s)
           \/ /\ at >= s.blockedTil /\ s.inFlight < MaxConcurrent
              /\ refilled.tokens < Cost
              /\ Refused(refilled)
           \/ /\ LetsIn(s, at)
              /\ sources' = Stored(tracked, k,
                    [refilled EXCEPT !.tokens = @ - Cost, !.inFlight = @ + 1])
              /\ phase' = [phase EXCEPT ![c] = "admitted"]
              /\ from' = [from EXCEPT ![c] = k]
              /\ meter' = [meter EXCEPT ![k] = Larger(0, @ - (at - mark[k])) + Cost]
              /\ mark' = [mark EXCEPT ![k] = at]
              /\ UNCHANGED <<recent, penalty>>
        /\ UNCHANGED <<now, slots>>

\* A slot and a goroutine for it.
TakeSlot(c) ==
    /\ phase[c] = "admitted"
    /\ slots < SSHSlots
    /\ slots' = slots + 1
    /\ phase' = [phase EXCEPT ![c] = "handshake"]
    /\ UNCHANGED <<now, sources, loopRead, from, history>>

\* Mutant of SlotsFull: the connection is closed and release is forgotten.
SlotsFull_NoRelease(c) ==
    /\ phase[c] = "admitted"
    /\ slots >= SSHSlots
    /\ phase' = [phase EXCEPT ![c] = "none"]
    /\ UNCHANGED <<now, sources, loopRead, slots, from, history>>

\* No slot: the admission is released and the connection closed.
SlotsFull(c) ==
    /\ phase[c] = "admitted"
    /\ slots >= SSHSlots
    /\ Release(from[c])
    /\ phase' = [phase EXCEPT ![c] = "none"]
    /\ UNCHANGED <<now, loopRead, slots, from, history>>

-----------------------------------------------------------------------------
(***************************************************************************)
(* handle: one goroutine for each connection.                              *)
(***************************************************************************)

\* NewServerConn returns, at the latest when the deadline passes, and the
\* handshake is released whatever its outcome.
FinishHandshake(c) ==
    /\ phase[c] = "handshake"
    /\ \E outcome \in {"failed", "passed"} : phase' = [phase EXCEPT ![c] = outcome]
    /\ Release(from[c])
    /\ UNCHANGED <<now, loopRead, slots, from, history>>

\* The handshake failed: RecordFailure and return.
RecordFailure(c, at) ==
    LET k == from[c]
        before == Get(DOMAIN sources, k, at)
        s == Recorded(before, at)
        failure == NewFailure(before.failures, at)
    IN  /\ phase[c] = "failed"
        /\ sources' = Stored(DOMAIN sources, k, s)
        /\ phase' = [phase EXCEPT ![c] = "done"]
        /\ IF s.failures = {}
           THEN /\ penalty' = [penalty EXCEPT ![k] = Larger(@, at + BlockDuration)]
                /\ recent' = [recent EXCEPT ![k] = {}]
           ELSE /\ recent' = [recent EXCEPT ![k] = InWindow(@ \cup {failure}, now)]
                /\ UNCHANGED penalty
        /\ UNCHANGED <<now, loopRead, slots, from, meter, mark>>

\* Mutant of RecordSuccess: it also lifts a block.
RecordSuccess_Unblocks(c, at) ==
    /\ phase[c] = "passed"
    /\ sources' = Stored(DOMAIN sources, from[c],
         [Get(DOMAIN sources, from[c], at) EXCEPT !.failures = {}, !.blockedTil = 0])
    /\ phase' = [phase EXCEPT ![c] = "tunnel"]
    /\ recent' = [recent EXCEPT ![from[c]] = {}]
    /\ UNCHANGED <<now, loopRead, slots, from, meter, mark, penalty>>

\* The user may use the hub: RecordSuccess, then the channels.
RecordSuccess(c, at) ==
    /\ phase[c] = "passed"
    /\ sources' = Stored(DOMAIN sources, from[c],
                    [Get(DOMAIN sources, from[c], at) EXCEPT !.failures = {}])
    /\ phase' = [phase EXCEPT ![c] = "tunnel"]
    /\ recent' = [recent EXCEPT ![from[c]] = {}]
    /\ UNCHANGED <<now, loopRead, slots, from, meter, mark, penalty>>

\* The second check drops a connection that was let in without a key to a
\* user who needs one: neither a failure nor a success is recorded.
RecheckDrop(c) ==
    /\ phase[c] = "passed"
    /\ phase' = [phase EXCEPT ![c] = "done"]
    /\ UNCHANGED <<now, sources, loopRead, slots, from, history>>

CloseTunnel(c) ==
    /\ phase[c] = "tunnel"
    /\ phase' = [phase EXCEPT ![c] = "done"]
    /\ UNCHANGED <<now, sources, loopRead, slots, from, history>>

\* Mutant of FreeSlot: the slot is not given back.
FreeSlot_Leak(c) ==
    /\ phase[c] = "done"
    /\ phase' = [phase EXCEPT ![c] = "none"]
    /\ UNCHANGED <<now, sources, loopRead, slots, from, history>>

\* handle returns and the deferred receive frees the slot.
FreeSlot(c) ==
    /\ phase[c] = "done"
    /\ phase' = [phase EXCEPT ![c] = "none"]
    /\ slots' = slots - 1
    /\ UNCHANGED <<now, sources, loopRead, from, history>>

Tick ==
    /\ now < MaxTime
    /\ now' = now + 1
    /\ recent' = [k \in Sources |-> InWindow(recent[k], now')]
    /\ UNCHANGED <<sources, loopRead, slots, phase, from, meter, mark, penalty>>

-----------------------------------------------------------------------------
Handle(c) ==
    \/ FinishHandshake(c) \/ RecheckDrop(c) \/ CloseTunnel(c) \/ FreeSlot(c)
    \/ \E at \in Readings : RecordFailure(c, at) \/ RecordSuccess(c, at)

Next ==
    \/ Tick
    \/ \E c \in Conns :
        \/ \E k \in Sources, at \in Readings : Acquire(c, k, at)
        \/ TakeSlot(c) \/ SlotsFull(c) \/ Handle(c)

Spec == Init /\ [][Next]_vars

-----------------------------------------------------------------------------
(***************************************************************************)
(* Properties.                                                             *)
(***************************************************************************)

\* The handshakes of a source that count against it.
Handshakes(k) == {c \in Conns : from[c] = k /\ phase[c] \in Unreleased}

\* A source's inFlight is the number of its handshakes not yet released, also
\* after it was evicted and met again (ratelimit.go:170, 177, 235).
InFlightMatches ==
    \A k \in Sources :
        Cardinality(Handshakes(k)) =
            IF k \in DOMAIN sources THEN sources[k].inFlight ELSE 0

\* No source ever has more than MaxConcurrent handshakes going
\* (ratelimit.go:29, "caps simultaneous in-flight (pre-auth) handshakes"):
\* it follows from InFlightMatches and Acquire's guard, and is proved.
HandshakesBounded ==
    \A k \in Sources : Cardinality(Handshakes(k)) <= MaxConcurrent

\* Over any stretch of time a source is admitted at most its burst plus the
\* sustained rate: a meter that is never evicted or reset stays within Burst
\* (ratelimit.go:233, eviction gives a source a new, full bucket).
RateBounded == \A k \in Sources : meter[k] <= Burst

\* A source that at a time has no block left to serve, a handshake to spare and
\* room on its meter for a connection and the age of one clock reading.
Deserves(k, at) ==
    /\ at >= penalty[k]
    /\ Cardinality(Handshakes(k)) < MaxConcurrent
    /\ Larger(0, meter[k] - (at - mark[k])) + Cost <= Burst - MaxLag

\* Acquire refuses no source that keeps to its limits, whatever was released,
\* evicted and recorded out of order before: the only due it loses is the time
\* between two readings of the clock, when a late RecordFailure met the source
\* anew with the later one (ratelimit.go:120-153).
NoUndueRefusal ==
    \A k \in Sources, at \in Readings :
        at >= loopRead /\ Deserves(k, at) => LetsIn(Get(Retained(at), k, at), at)

\* A source that failed MaxFailures times within the window, with no success
\* and no block in between, has been blocked (ratelimit.go:32).
FailuresLeadToBlock == \A k \in Sources : Cardinality(recent[k]) < MaxFailures

\* Nothing lets a source in before the block it earned is over: not its
\* eviction, not a success that was in flight, not a late failure, which can
\* shorten the block by no more than the age of a clock reading.
PenaltyServed ==
    [][\A c \in Conns :
        phase[c] = "none" /\ phase'[c] = "admitted"
            => loopRead' >= penalty[from'[c]] - MaxLag]_vars

\* Every way out of Serve and handle gives its slot back, once.
SlotsMatchGoroutines ==
    slots = Cardinality({c \in Conns : phase[c] \in Slotted})
=============================================================================
