-------------------------- MODULE AdmissionProofs ---------------------------
(***************************************************************************)
(* Theorems about admission, for any number of sources and connections and *)
(* any limits that satisfy the assumptions: the concurrency cap, the rate  *)
(* and the slots, then the failures that must lead to a block and the      *)
(* blocks that must be served, who must be let in, and what the rate means *)
(* for a window that begins at any moment.                                 *)
(***************************************************************************)
EXTENDS Admission, FiniteSetTheorems, TLAPS

\* A source record, whatever its failures are.
Shaped(s) ==
    s \in [tokens : 0..Burst, lastRefill : Nat, inFlight : 0..MaxConcurrent,
           failures : {s.failures}, blockedTil : Nat, lastSeen : Nat]

Shapes ==
    /\ now \in Nat
    /\ loopRead \in Nat /\ loopRead <= now
    /\ slots \in 0..SSHSlots
    /\ phase \in [Conns -> Phases]
    /\ from \in [Conns -> Sources]
    /\ meter \in [Sources -> Nat]
    /\ mark \in [Sources -> Nat]
    /\ DOMAIN sources \subseteq Sources
    /\ \A k \in DOMAIN sources : Shaped(sources[k])

\* What is left of the meter of k at time t.
Leak(k, t) == Larger(0, meter[k] - (t - mark[k]))

\* The tokens a source could claim now and its meter share the burst; once a
\* source is forgotten, or has been made anew, its meter has run empty.
Budget(k) ==
    /\ mark[k] <= loopRead
    /\ meter[k] <= Burst
    /\ k \notin DOMAIN sources => Leak(k, loopRead) = 0
    /\ k \in DOMAIN sources =>
        /\ sources[k].lastSeen >= mark[k] - MaxLag
        /\ \/ Leak(k, loopRead) = 0
           \/ sources[k].tokens + Larger(0, loopRead - sources[k].lastRefill)
                + Leak(k, loopRead) <= Burst

RateInv == \A k \in Sources : Budget(k)

IInv ==
    /\ Shapes
    /\ InFlightMatches
    /\ SlotsMatchGoroutines
    /\ RateInv

-----------------------------------------------------------------------------
(***************************************************************************)
(* Counting handshakes and slots.                                          *)
(***************************************************************************)

SlottedSet == {c \in Conns : phase[c] \in Slotted}

\* The sets that are counted are finite.
LEMMA Finite ==
    /\ \A k : IsFiniteSet(Handshakes(k)) /\ Cardinality(Handshakes(k)) \in Nat
    /\ IsFiniteSet(SlottedSet) /\ Cardinality(SlottedSet) \in Nat
<1>1. SlottedSet \subseteq Conns /\ \A k : Handshakes(k) \subseteq Conns
  BY DEF SlottedSet, Handshakes
<1> QED
  BY <1>1, LimiterAssumption, FS_Subset, FS_CardinalityType

\* One more, one less (Serve takes a slot, handle gives it back).
LEMMA CountUp ==
    ASSUME NEW S, IsFiniteSet(S), NEW x, x \notin S
    PROVE  Cardinality(S \cup {x}) = Cardinality(S) + 1
BY FS_AddElement

LEMMA CountDown ==
    ASSUME NEW S, IsFiniteSet(S), NEW x \in S
    PROVE  /\ Cardinality(S \ {x}) = Cardinality(S) - 1
           /\ Cardinality(S \ {x}) \in Nat
           /\ Cardinality(S) \in Nat
BY FS_RemoveElement, FS_CardinalityType

-----------------------------------------------------------------------------
(***************************************************************************)
(* What the limiter's operations do to a source.                           *)
(***************************************************************************)

\* get() gives a well-formed source: the tracked one or a full, idle one.
LEMMA GetShaped ==
    ASSUME Shapes, NEW tracked \in SUBSET DOMAIN sources, NEW k, NEW at \in Nat
    PROVE  /\ Shaped(Get(tracked, k, at))
           /\ Get(tracked, k, at).lastSeen = at
           /\ k \in tracked =>
                /\ Get(tracked, k, at).tokens = sources[k].tokens
                /\ Get(tracked, k, at).lastRefill = sources[k].lastRefill
                /\ Get(tracked, k, at).inFlight = sources[k].inFlight
           /\ k \notin tracked =>
                /\ Get(tracked, k, at).tokens = Burst
                /\ Get(tracked, k, at).lastRefill = at
                /\ Get(tracked, k, at).inFlight = 0
<1>1. CASE k \in tracked
  BY <1>1 DEF Shapes, Shaped, Get
<1>2. CASE k \notin tracked
  BY <1>2, LimiterAssumption DEF Shaped, Get, NewSource
<1> QED
  BY <1>1, <1>2

\* A refill adds no more than the time since the last one.
LEMMA RefillShaped ==
    ASSUME NEW s, Shaped(s), NEW at \in Nat
    PROVE  /\ Shaped(Refill(s, at))
           /\ Refill(s, at).inFlight = s.inFlight
           /\ Refill(s, at).lastSeen = s.lastSeen
           /\ Refill(s, at).lastRefill = Larger(at, s.lastRefill)
           /\ Refill(s, at).tokens <= s.tokens + Larger(0, at - s.lastRefill)
<1>1. CASE at > s.lastRefill
  <2>1. Refill(s, at) = [s EXCEPT !.tokens = Smaller(s.tokens + (at - s.lastRefill), Burst),
                                  !.lastRefill = at]
    BY <1>1 DEF Refill
  <2>2. Smaller(s.tokens + (at - s.lastRefill), Burst) \in 0..Burst
    BY <1>1, LimiterAssumption DEF Shaped, Smaller
  <2>3. /\ Shaped(Refill(s, at))
        /\ Refill(s, at).tokens = Smaller(s.tokens + (at - s.lastRefill), Burst)
        /\ Refill(s, at).lastRefill = at
        /\ Refill(s, at).inFlight = s.inFlight
        /\ Refill(s, at).lastSeen = s.lastSeen
    BY <2>1, <2>2 DEF Shaped
  <2> QED
    BY <1>1, <2>2, <2>3, LimiterAssumption DEF Shaped, Smaller, Larger
<1>2. CASE ~ (at > s.lastRefill)
  BY <1>2, LimiterAssumption DEF Shaped, Refill, Larger
<1> QED
  BY <1>1, <1>2

\* Well formed, and nothing but failures and blockedTil can differ.
Keeps(r, s) ==
    /\ Shaped(r)
    /\ r.tokens = s.tokens
    /\ r.lastRefill = s.lastRefill
    /\ r.inFlight = s.inFlight
    /\ r.lastSeen = s.lastSeen

\* The two updates that record an outcome (RecordFailure, RecordSuccess).
LEMMA OutcomeKeeps ==
    ASSUME NEW s, Shaped(s), NEW f, NEW til \in Nat
    PROVE  /\ Keeps([s EXCEPT !.failures = f], s)
           /\ Keeps([s EXCEPT !.blockedTil = til, !.failures = f], s)
BY DEF Shaped, Keeps

\* Recording a failure leaves tokens and handshakes alone.
LEMMA RecordedKeeps ==
    ASSUME NEW s, Shaped(s), NEW at \in Nat
    PROVE  Keeps(Recorded(s, at), s)
<1> DEFINE failures == WithFailure(s.failures, at)
           none == {}
           til == at + BlockDuration
<1>1. \/ Recorded(s, at) = [s EXCEPT !.blockedTil = til, !.failures = none]
      \/ Recorded(s, at) = [s EXCEPT !.failures = failures]
  BY Zenon DEF Recorded
<1>2. til \in Nat
  BY LimiterAssumption
<1> HIDE DEF failures, none, til
<1>3. /\ Keeps([s EXCEPT !.blockedTil = til, !.failures = none], s)
      /\ Keeps([s EXCEPT !.failures = failures], s)
  BY <1>2, OutcomeKeeps, Zenon
<1> QED
  BY <1>1, <1>3, Zenon

-----------------------------------------------------------------------------
(***************************************************************************)
(* Forgetting a source is safe: its meter has run empty and it has no      *)
(* handshake.  This is where the assumption on IdleTTL is needed.          *)
(***************************************************************************)

\* Time only lets a meter run down.
LEMMA LeakDown ==
    ASSUME Shapes, NEW k \in Sources, NEW at \in Nat, at >= loopRead
    PROVE  /\ Leak(k, at) \in Nat
           /\ Leak(k, loopRead) = 0 => Leak(k, at) = 0
           /\ Leak(k, at) # 0 => Leak(k, at) = Leak(k, loopRead) - (at - loopRead)
<1>1. meter[k] \in Nat /\ mark[k] \in Nat /\ loopRead \in Nat
  BY DEF Shapes
<1> QED
  BY <1>1 DEF Leak, Larger

\* evictLocked drops a source only when its bucket would be full anyway.
LEMMA ForgottenIsEmpty ==
    ASSUME Shapes, RateInv, NEW k \in Sources, NEW at \in Nat, at >= loopRead,
           k \notin Retained(at)
    PROVE  Leak(k, at) = 0
<1>1. meter[k] \in Nat /\ mark[k] \in Nat /\ loopRead \in Nat
  BY DEF Shapes
<1>2. CASE k \notin DOMAIN sources
  BY <1>2, LeakDown DEF RateInv, Budget
<1>3. CASE k \in DOMAIN sources
  <2>1. at - sources[k].lastSeen > IdleTTL
    BY <1>3 DEF Retained, Idle
  <2>2. sources[k].lastSeen >= mark[k] - MaxLag /\ sources[k].lastSeen \in Nat
    BY <1>3 DEF RateInv, Budget, Shapes, Shaped
  <2>3. meter[k] <= Burst
    BY DEF RateInv, Budget
  <2> QED
    BY <1>1, <2>1, <2>2, <2>3, LimiterAssumption, RetentionAssumption DEF Leak, Larger
<1> QED
  BY <1>2, <1>3

\* ... and only when no handshake of it is going.
LEMMA ForgottenIsIdle ==
    ASSUME InFlightMatches, NEW k \in Sources, NEW at \in Nat, k \notin Retained(at)
    PROVE  Cardinality(Handshakes(k)) = 0
BY DEF InFlightMatches, Retained, Idle

-----------------------------------------------------------------------------
(***************************************************************************)
(* Acquire.                                                                *)
(***************************************************************************)

\* What Acquire reads of the source it is asked about.
LEMMA AcquireReads ==
    ASSUME IInv, NEW k \in Sources, NEW at \in Nat, at >= loopRead
    PROVE  /\ Shaped(Get(Retained(at), k, at))
           /\ Get(Retained(at), k, at).lastSeen = at
           /\ Get(Retained(at), k, at).inFlight = Cardinality(Handshakes(k))
           /\ \/ Leak(k, at) = 0
              \/ Get(Retained(at), k, at).tokens
                    + Larger(0, at - Get(Retained(at), k, at).lastRefill)
                    + Leak(k, at) <= Burst
<1> DEFINE s == Get(Retained(at), k, at)
<1>1. Retained(at) \in SUBSET DOMAIN sources
  BY DEF Retained
<1>2. /\ Shaped(s) /\ s.lastSeen = at
      /\ k \in Retained(at) => /\ s.tokens = sources[k].tokens
                               /\ s.lastRefill = sources[k].lastRefill
                               /\ s.inFlight = sources[k].inFlight
      /\ k \notin Retained(at) => s.inFlight = 0
  BY <1>1, GetShaped DEF IInv
<1> HIDE DEF s
<1>3. CASE k \notin Retained(at)
  <2>1. Leak(k, at) = 0
    BY <1>3, ForgottenIsEmpty DEF IInv
  <2>2. Cardinality(Handshakes(k)) = 0
    BY <1>3, ForgottenIsIdle DEF IInv
  <2> QED
    BY <1>2, <1>3, <2>1, <2>2 DEF s
<1>4. CASE k \in Retained(at)
  <2>1. k \in DOMAIN sources /\ Budget(k)
    BY <1>4, <1>1 DEF IInv, RateInv
  <2>2. s.inFlight = Cardinality(Handshakes(k))
    BY <1>2, <1>4, <2>1 DEF IInv, InFlightMatches
  <2>3. /\ s.tokens \in Nat /\ s.lastRefill \in Nat /\ loopRead \in Nat
        /\ s.tokens = sources[k].tokens /\ s.lastRefill = sources[k].lastRefill
    BY <1>2, <1>4, LimiterAssumption DEF Shaped, IInv, Shapes
  <2>4. /\ Leak(k, at) \in Nat
        /\ Leak(k, loopRead) = 0 => Leak(k, at) = 0
        /\ Leak(k, at) # 0 => Leak(k, at) = Leak(k, loopRead) - (at - loopRead)
    BY LeakDown DEF IInv
  <2>5. Leak(k, loopRead) \in Nat
    BY LeakDown, <2>3 DEF IInv
  <2>6. \/ Leak(k, loopRead) = 0
        \/ s.tokens + Larger(0, loopRead - s.lastRefill) + Leak(k, loopRead) <= Burst
    BY <2>1, <2>3 DEF Budget
  <2>7. \/ Leak(k, at) = 0
        \/ s.tokens + Larger(0, at - s.lastRefill) + Leak(k, at) <= Burst
    BY <2>3, <2>4, <2>5, <2>6, LimiterAssumption DEF Larger
  <2> QED
    BY <1>2, <2>2, <2>7 DEF s
<1> QED
  BY <1>3, <1>4

\* Whatever Acquire decides about k, the other sources lose at most their
\* record, and that only when it does not matter.
LEMMA AcquireOthers ==
    ASSUME IInv, NEW k \in Sources, NEW at \in Nat, at >= loopRead, loopRead' = at,
           NEW r, sources' = Stored(Retained(at), k, r),
           \A x \in Sources \ {k} :
              /\ Handshakes(x)' = Handshakes(x)
              /\ meter'[x] = meter[x]
              /\ mark'[x] = mark[x]
    PROVE  \A x \in Sources \ {k} :
              /\ x \in DOMAIN sources' => Shaped(sources'[x])
              /\ Budget(x)'
              /\ Cardinality(Handshakes(x))' =
                    IF x \in DOMAIN sources' THEN sources'[x].inFlight ELSE 0
<1> TAKE x \in Sources \ {k}
<1>1. Retained(at) \subseteq DOMAIN sources
  BY DEF Retained
<1>2. x \in DOMAIN sources' <=> x \in Retained(at)
  BY DEF Stored
<1>3. x \in Retained(at) => sources'[x] = sources[x]
  BY DEF Stored
<1>4. Leak(x, loopRead)' = Leak(x, at)
  BY DEF Leak
<1>5. mark[x] \in Nat /\ meter[x] \in Nat /\ loopRead \in Nat
  BY DEF IInv, Shapes
<1>6. CASE x \in Retained(at)
  <2>1. Budget(x) /\ x \in DOMAIN sources
    BY <1>1, <1>6 DEF IInv, RateInv
  <2>2. sources'[x] = sources[x] /\ Shaped(sources[x])
    BY <1>1, <1>3, <1>6 DEF IInv, Shapes
  <2>3. /\ Leak(x, at) \in Nat
        /\ Leak(x, loopRead) = 0 => Leak(x, at) = 0
        /\ Leak(x, at) # 0 => Leak(x, at) = Leak(x, loopRead) - (at - loopRead)
    BY LeakDown DEF IInv
  <2>4. Leak(x, loopRead) \in Nat
    BY LeakDown, <1>5 DEF IInv
  <2>5. sources[x].tokens \in Nat /\ sources[x].lastRefill \in Nat
    BY <2>2, LimiterAssumption DEF Shaped
  <2>6. \/ Leak(x, at) = 0
        \/ sources[x].tokens + Larger(0, at - sources[x].lastRefill) + Leak(x, at) <= Burst
    BY <2>1, <2>3, <2>4, <2>5, <1>5, LimiterAssumption DEF Budget, Larger
  <2>7. Budget(x)'
    BY <1>2, <1>4, <1>5, <1>6, <2>1, <2>2, <2>6 DEF Budget
  <2> QED
    BY <1>2, <1>6, <2>1, <2>2, <2>7 DEF IInv, InFlightMatches
<1>7. CASE x \notin Retained(at)
  <2>1. Leak(x, at) = 0
    BY <1>7, ForgottenIsEmpty DEF IInv
  <2>2. Cardinality(Handshakes(x)) = 0
    BY <1>7, ForgottenIsIdle DEF IInv
  <2>3. Budget(x)'
    BY <1>2, <1>4, <1>5, <1>7, <2>1 DEF Budget, IInv, RateInv
  <2> QED
    BY <1>2, <1>7, <2>2, <2>3
<1> QED
  BY <1>6, <1>7

\* A refusal stores the source as it was read or refilled.
LEMMA RefusedIInv ==
    ASSUME IInv, NEW k \in Sources, NEW at \in Nat, at >= loopRead, at <= now,
           NEW r, Shaped(r), r.lastSeen = at,
           r.inFlight = Cardinality(Handshakes(k)),
           Leak(k, at) = 0
             \/ r.tokens + Larger(0, at - r.lastRefill) + Leak(k, at) <= Burst,
           loopRead' = at, sources' = Stored(Retained(at), k, r),
           UNCHANGED <<now, slots, phase, from, history>>
    PROVE  IInv'
<1>1. k \in DOMAIN sources' /\ sources'[k] = r
  BY DEF Stored
<1>2. DOMAIN sources' \subseteq Sources
  BY DEF Stored, Retained, IInv, Shapes
<1>3. \A x : Handshakes(x)' = Handshakes(x)
  BY DEF Handshakes
<1>4. \A x \in Sources \ {k} :
        /\ x \in DOMAIN sources' => Shaped(sources'[x])
        /\ Budget(x)'
        /\ Cardinality(Handshakes(x))' =
             IF x \in DOMAIN sources' THEN sources'[x].inFlight ELSE 0
  BY <1>3, AcquireOthers DEF history
<1>5. Budget(k)'
  <2>1. Leak(k, loopRead)' = Leak(k, at)
    BY DEF Leak, history
  <2>2. meter'[k] = meter[k] /\ mark'[k] = mark[k] /\ mark[k] \in Nat /\ loopRead \in Nat
    BY DEF history, IInv, Shapes
  <2>3. mark[k] <= loopRead /\ meter[k] <= Burst
    BY DEF IInv, RateInv, Budget
  <2> QED
    BY <1>1, <2>1, <2>2, <2>3, LimiterAssumption DEF Budget
<1>6. Shapes'
  <2>1. \A x \in DOMAIN sources' : Shaped(sources'[x])
    BY <1>1, <1>2, <1>4
  <2>2. \A x \in DOMAIN sources' : Shaped(sources[x])'
    BY <2>1 DEF Shaped
  <2> QED
    BY <1>2, <2>2 DEF IInv, Shapes, history
<1>7. InFlightMatches'
  BY <1>1, <1>3, <1>4 DEF InFlightMatches
<1>8. SlotsMatchGoroutines'
  BY DEF IInv, SlotsMatchGoroutines
<1> QED
  BY <1>4, <1>5, <1>6, <1>7, <1>8 DEF IInv, RateInv

\* An admission spends Cost tokens and adds Cost to the meter.
LEMMA AdmittedIInv ==
    ASSUME IInv, NEW c \in Conns, phase[c] = "none",
           NEW k \in Sources, NEW at \in Nat, at >= loopRead, at <= now,
           NEW r, Shaped(r), r.lastSeen = at, r.tokens >= Cost,
           r.inFlight = Cardinality(Handshakes(k)), r.inFlight < MaxConcurrent,
           \/ Leak(k, at) = 0 /\ r.lastRefill >= at
           \/ r.tokens + Larger(0, at - r.lastRefill) + Leak(k, at) <= Burst,
           loopRead' = at,
           sources' = Stored(Retained(at), k,
                [r EXCEPT !.tokens = @ - Cost, !.inFlight = @ + 1]),
           phase' = [phase EXCEPT ![c] = "admitted"],
           from' = [from EXCEPT ![c] = k],
           meter' = [meter EXCEPT ![k] = Larger(0, @ - (at - mark[k])) + Cost],
           mark' = [mark EXCEPT ![k] = at],
           UNCHANGED <<now, slots, recent, penalty>>
    PROVE  IInv'
<1> DEFINE q == [r EXCEPT !.tokens = @ - Cost, !.inFlight = @ + 1]
<1>1. /\ Shaped(q) /\ q.lastSeen = at /\ q.tokens = r.tokens - Cost
      /\ q.inFlight = r.inFlight + 1 /\ q.lastRefill = r.lastRefill
  <2>1. r.tokens - Cost \in 0..Burst /\ r.inFlight + 1 \in 0..MaxConcurrent
    BY LimiterAssumption DEF Shaped
  <2>2. q = [r EXCEPT !.tokens = r.tokens - Cost, !.inFlight = r.inFlight + 1]
    BY DEF q
  <2> HIDE DEF q
  <2> QED
    BY <2>1, <2>2 DEF Shaped
<1> HIDE DEF q
<1>2. k \in DOMAIN sources' /\ sources'[k] = q
  BY DEF Stored, q
<1>3. DOMAIN sources' \subseteq Sources
  BY DEF Stored, Retained, IInv, Shapes
<1>4. phase \in [Conns -> Phases] /\ from \in [Conns -> Sources]
  BY DEF IInv, Shapes
<1>5. c \notin Handshakes(k) /\ Handshakes(k)' = Handshakes(k) \cup {c}
  BY <1>4 DEF Handshakes, Unreleased
<1>6. \A x \in Sources \ {k} : Handshakes(x)' = Handshakes(x)
  BY <1>4 DEF Handshakes, Unreleased
<1>7. Cardinality(Handshakes(k))' = q.inFlight
  <2>1. Cardinality(Handshakes(k) \cup {c}) = Cardinality(Handshakes(k)) + 1
    BY <1>5, Finite, CountUp
  <2> QED
    BY <1>1, <1>5, <2>1
<1>8. meter \in [Sources -> Nat] /\ mark \in [Sources -> Nat] /\ loopRead \in Nat
  BY DEF IInv, Shapes
<1>9. \A x \in Sources \ {k} : meter'[x] = meter[x] /\ mark'[x] = mark[x]
  BY <1>8
<1>10. \A x \in Sources \ {k} :
        /\ x \in DOMAIN sources' => Shaped(sources'[x])
        /\ Budget(x)'
        /\ Cardinality(Handshakes(x))' =
             IF x \in DOMAIN sources' THEN sources'[x].inFlight ELSE 0
  <2>1. sources' = Stored(Retained(at), k, q)
    BY DEF q
  <2> QED
    BY <2>1, <1>6, <1>9, AcquireOthers
<1>11. Budget(k)'
  <2>1. mark'[k] = at /\ meter'[k] = Leak(k, at) + Cost /\ Leak(k, at) \in Nat
    BY <1>8, LeakDown DEF Leak, IInv
  <2>2. Leak(k, loopRead)' = Leak(k, at) + Cost
    BY <2>1, LimiterAssumption DEF Leak, Larger
  <2>3. r.tokens \in 0..Burst /\ r.lastRefill \in Nat
    BY DEF Shaped
  <2>4. r.tokens + Larger(0, at - r.lastRefill) + Leak(k, at) <= Burst
    BY <2>3, LimiterAssumption DEF Larger
  <2>5. /\ r.tokens - Cost + Larger(0, at - r.lastRefill) + Leak(k, at) + Cost <= Burst
        /\ Leak(k, at) + Cost <= Burst
    BY <2>1, <2>3, <2>4, LimiterAssumption DEF Larger
  <2>6. q.tokens + Larger(0, at - q.lastRefill) + Leak(k, loopRead)' <= Burst
    BY <1>1, <2>1, <2>2, <2>3, <2>5, LimiterAssumption DEF Larger
  <2>7. q.lastSeen >= at - MaxLag
    BY <1>1, LimiterAssumption
  <2> QED
    BY <1>2, <2>1, <2>5, <2>6, <2>7 DEF Budget
<1>12. Shapes'
  <2>1. \A x \in DOMAIN sources' : Shaped(sources[x])'
    BY <1>1, <1>2, <1>3, <1>10 DEF Shaped
  <2>2. phase' \in [Conns -> Phases] /\ from' \in [Conns -> Sources]
    BY <1>4 DEF Phases
  <2>3. meter' \in [Sources -> Nat] /\ mark' \in [Sources -> Nat]
    BY <1>8, LimiterAssumption DEF Larger
  <2> QED
    BY <1>3, <2>1, <2>2, <2>3 DEF IInv, Shapes
<1>13. InFlightMatches'
  BY <1>2, <1>7, <1>10 DEF InFlightMatches
<1>14. SlotsMatchGoroutines'
  <2>1. SlottedSet' = SlottedSet
    BY <1>4 DEF SlottedSet, Slotted
  <2> QED
    BY <2>1 DEF IInv, SlotsMatchGoroutines, SlottedSet
<1> QED
  BY <1>10, <1>11, <1>12, <1>13, <1>14 DEF IInv, RateInv

\* Acquire preserves the invariant, whatever it decides (ratelimit.go:139).
LEMMA AcquireIInv ==
    ASSUME IInv, NEW c \in Conns, NEW k \in Sources, NEW at \in Readings, Acquire(c, k, at)
    PROVE  IInv'
<1> DEFINE tracked == Retained(at)
           s == Get(tracked, k, at)
           r == Refill(s, at)
<1>1. at \in Nat /\ at >= loopRead /\ at <= now
  BY LimiterAssumption DEF Readings, Acquire, Larger, IInv, Shapes
<1>2. /\ Shaped(s) /\ s.lastSeen = at /\ s.inFlight = Cardinality(Handshakes(k))
      /\ \/ Leak(k, at) = 0
         \/ s.tokens + Larger(0, at - s.lastRefill) + Leak(k, at) <= Burst
  BY <1>1, AcquireReads
<1>3. /\ Shaped(r) /\ r.inFlight = s.inFlight /\ r.lastSeen = s.lastSeen
      /\ r.lastRefill = Larger(at, s.lastRefill)
      /\ r.tokens <= s.tokens + Larger(0, at - s.lastRefill)
  BY <1>1, <1>2, RefillShaped
<1>4. Leak(k, at) \in Nat
  BY <1>1, LeakDown DEF IInv
<1>5. /\ loopRead' = at
      /\ UNCHANGED <<now, slots>>
      /\ \/ /\ sources' = Stored(tracked, k, s)
            /\ UNCHANGED <<phase, from, history>>
         \/ /\ sources' = Stored(tracked, k, r)
            /\ UNCHANGED <<phase, from, history>>
         \/ /\ s.inFlight < MaxConcurrent
            /\ r.tokens >= Cost
            /\ sources' = Stored(tracked, k,
                 [r EXCEPT !.tokens = @ - Cost, !.inFlight = @ + 1])
            /\ phase[c] = "none"
            /\ phase' = [phase EXCEPT ![c] = "admitted"]
            /\ from' = [from EXCEPT ![c] = k]
            /\ meter' = [meter EXCEPT ![k] = Larger(0, @ - (at - mark[k])) + Cost]
            /\ mark' = [mark EXCEPT ![k] = at]
            /\ UNCHANGED <<recent, penalty>>
  BY Zenon DEF Acquire, LetsIn
<1> HIDE DEF tracked, s, r
<1>6. /\ s.tokens \in Nat /\ s.lastRefill \in Nat /\ r.tokens \in Nat /\ r.lastRefill \in Nat
  BY <1>2, <1>3, LimiterAssumption DEF Shaped
<1>7. r.lastRefill >= at /\ Larger(0, at - r.lastRefill) = 0
  BY <1>1, <1>3, <1>6 DEF Larger
<1>8. Larger(0, at - s.lastRefill) \in Nat
  BY <1>1, <1>6 DEF Larger
<1>9. \/ Leak(k, at) = 0
      \/ r.tokens + Larger(0, at - r.lastRefill) + Leak(k, at) <= Burst
  BY <1>2, <1>3, <1>4, <1>6, <1>7, <1>8, LimiterAssumption
<1>10. CASE sources' = Stored(tracked, k, s) /\ UNCHANGED <<phase, from, history>>
  BY <1>1, <1>2, <1>5, <1>10, RefusedIInv DEF tracked
<1>11. CASE sources' = Stored(tracked, k, r) /\ UNCHANGED <<phase, from, history>>
  BY <1>1, <1>2, <1>3, <1>5, <1>9, <1>11, RefusedIInv DEF tracked
<1>12. CASE /\ s.inFlight < MaxConcurrent
            /\ r.tokens >= Cost
            /\ sources' = Stored(tracked, k,
                 [r EXCEPT !.tokens = @ - Cost, !.inFlight = @ + 1])
            /\ phase[c] = "none"
            /\ phase' = [phase EXCEPT ![c] = "admitted"]
            /\ from' = [from EXCEPT ![c] = k]
            /\ meter' = [meter EXCEPT ![k] = Larger(0, @ - (at - mark[k])) + Cost]
            /\ mark' = [mark EXCEPT ![k] = at]
            /\ UNCHANGED <<recent, penalty>>
  BY <1>1, <1>2, <1>3, <1>5, <1>7, <1>9, <1>12, AdmittedIInv DEF tracked
<1> QED
  BY <1>5, <1>10, <1>11, <1>12

-----------------------------------------------------------------------------
(***************************************************************************)
(* The handler goroutines.                                                 *)
(***************************************************************************)

\* The release closure finds the source and takes one handshake off it.
LEMMA ReleaseIInv ==
    ASSUME IInv, NEW c \in Conns, phase[c] \in Unreleased, Release(from[c]),
           NEW p \in Phases \ Unreleased, phase' = [phase EXCEPT ![c] = p],
           SlotsMatchGoroutines', slots' = slots,
           UNCHANGED <<now, loopRead, from, history>>
    PROVE  IInv'
<1> DEFINE k == from[c]
<1>1. phase \in [Conns -> Phases] /\ from \in [Conns -> Sources] /\ k \in Sources
  BY DEF IInv, Shapes
<1>2. c \in Handshakes(k) /\ Handshakes(k)' = Handshakes(k) \ {c}
  BY <1>1 DEF Handshakes
<1>3. \A x \in Sources \ {k} : Handshakes(x)' = Handshakes(x)
  BY <1>1 DEF Handshakes
<1>4. /\ Cardinality(Handshakes(k))' = Cardinality(Handshakes(k)) - 1
      /\ Cardinality(Handshakes(k)) \in Nat
      /\ Cardinality(Handshakes(k))' \in Nat
  BY <1>2, Finite, CountDown
<1>5. k \in DOMAIN sources /\ sources[k].inFlight > 0
  BY <1>1, <1>4 DEF IInv, InFlightMatches
<1>6. sources' = [sources EXCEPT ![k].inFlight = @ - 1]
  BY <1>5 DEF Release
<1>7. /\ DOMAIN sources' = DOMAIN sources
      /\ \A x \in DOMAIN sources \ {k} : sources'[x] = sources[x]
      /\ sources'[k] = [sources[k] EXCEPT !.inFlight = sources[k].inFlight - 1]
  BY <1>5, <1>6
<1>8. Shaped(sources[k])
  BY <1>5 DEF IInv, Shapes
<1>9. /\ Shaped(sources'[k])
      /\ sources'[k].inFlight = sources[k].inFlight - 1
      /\ sources'[k].tokens = sources[k].tokens
      /\ sources'[k].lastRefill = sources[k].lastRefill
      /\ sources'[k].lastSeen = sources[k].lastSeen
  <2>1. sources[k].inFlight - 1 \in 0..MaxConcurrent
    BY <1>5, <1>8, LimiterAssumption DEF Shaped
  <2> QED
    BY <1>7, <1>8, <2>1 DEF Shaped
<1>10. Shapes'
  <2>1. \A x \in DOMAIN sources' : Shaped(sources[x])'
    BY <1>7, <1>9 DEF IInv, Shapes, Shaped
  <2>2. phase' \in [Conns -> Phases]
    BY <1>1
  <2> QED
    BY <1>7, <2>1, <2>2 DEF IInv, Shapes, history
<1>11. InFlightMatches'
  BY <1>1, <1>3, <1>4, <1>5, <1>7, <1>9 DEF IInv, InFlightMatches
<1>12. RateInv'
  BY <1>5, <1>7, <1>9 DEF IInv, RateInv, Budget, Leak, history
<1> QED
  BY <1>10, <1>11, <1>12 DEF IInv

\* Recording an outcome may make a source anew, full: then its meter was empty.
LEMMA OutcomeIInv ==
    ASSUME IInv, NEW c \in Conns, phase[c] \in {"failed", "passed"},
           NEW at \in Readings,
           NEW r, Keeps(r, Get(DOMAIN sources, from[c], at)),
           sources' = Stored(DOMAIN sources, from[c], r),
           NEW p \in {"done", "tunnel"}, phase' = [phase EXCEPT ![c] = p],
           UNCHANGED <<now, loopRead, slots, from, meter, mark>>
    PROVE  IInv'
<1> DEFINE k == from[c]
           s == Get(DOMAIN sources, k, at)
<1>1. phase \in [Conns -> Phases] /\ from \in [Conns -> Sources] /\ k \in Sources
  BY DEF IInv, Shapes
<1>2. at \in Nat /\ at >= now - MaxLag
  BY LimiterAssumption DEF Readings, Larger, IInv, Shapes
<1>3. /\ Shaped(s) /\ s.lastSeen = at
      /\ k \in DOMAIN sources => /\ s.tokens = sources[k].tokens
                                 /\ s.lastRefill = sources[k].lastRefill
                                 /\ s.inFlight = sources[k].inFlight
      /\ k \notin DOMAIN sources => s.inFlight = 0
  BY <1>2, GetShaped DEF IInv
<1>4. Shaped(r) /\ r.tokens = s.tokens /\ r.lastRefill = s.lastRefill
        /\ r.inFlight = s.inFlight /\ r.lastSeen = at
  BY <1>3 DEF Keeps
<1> HIDE DEF s
<1>5. /\ DOMAIN sources' = DOMAIN sources \cup {k}
      /\ sources'[k] = r
      /\ \A x \in DOMAIN sources \ {k} : sources'[x] = sources[x]
  BY DEF Stored
<1>6. \A x : Handshakes(x)' = Handshakes(x)
  BY <1>1 DEF Handshakes, Unreleased
<1>7. SlottedSet' = SlottedSet
  BY <1>1 DEF SlottedSet, Slotted
<1>8. Shapes'
  <2>1. \A x \in DOMAIN sources' : Shaped(sources[x])'
    BY <1>4, <1>5 DEF IInv, Shapes, Shaped
  <2>2. phase' \in [Conns -> Phases]
    BY <1>1 DEF Phases
  <2> QED
    BY <1>1, <1>5, <2>1, <2>2 DEF IInv, Shapes
<1>9. InFlightMatches'
  BY <1>3, <1>4, <1>5, <1>6 DEF IInv, InFlightMatches
<1>10. SlotsMatchGoroutines'
  BY <1>7 DEF IInv, SlotsMatchGoroutines, SlottedSet
<1>11. ASSUME NEW x \in Sources PROVE Budget(x)'
  <2>1. Leak(x, loopRead)' = Leak(x, loopRead) /\ mark'[x] = mark[x] /\ meter'[x] = meter[x]
    BY DEF Leak
  <2>2. Budget(x)
    BY DEF IInv, RateInv
  <2>3. CASE x # k
    BY <1>5, <2>1, <2>2, <2>3 DEF Budget
  <2>4. CASE x = k
    <3>1. r.lastSeen >= mark[k] - MaxLag
      BY <1>2, <1>4, <2>2, <2>4, LimiterAssumption DEF IInv, Shapes, Budget
    <3> QED
      BY <1>3, <1>4, <1>5, <2>1, <2>2, <2>4, <3>1 DEF Budget
  <2> QED
    BY <2>3, <2>4
<1> QED
  BY <1>8, <1>9, <1>10, <1>11 DEF IInv, RateInv

\* A step that starts or ends no handshake and leaves the limiter alone.
LEMMA QuietIInv ==
    ASSUME IInv, \A x : Handshakes(x)' = Handshakes(x), SlotsMatchGoroutines',
           slots' \in 0..SSHSlots, phase' \in [Conns -> Phases],
           now' \in Nat, now' >= now,
           UNCHANGED <<sources, loopRead, from, meter, mark>>
    PROVE  IInv'
<1>1. Shapes'
  BY DEF IInv, Shapes, Shaped
<1>2. InFlightMatches'
  BY DEF IInv, InFlightMatches
<1>3. RateInv'
  BY DEF IInv, RateInv, Budget, Leak
<1> QED
  BY <1>1, <1>2, <1>3 DEF IInv

\* Every step of a connection preserves the invariant.
LEMMA ConnIInv ==
    ASSUME IInv, NEW c \in Conns, TakeSlot(c) \/ SlotsFull(c) \/ Handle(c)
    PROVE  IInv'
<1>1. /\ phase \in [Conns -> Phases] /\ slots \in 0..SSHSlots /\ now \in Nat
      /\ slots = Cardinality(SlottedSet) /\ IsFiniteSet(SlottedSet)
  BY Finite DEF IInv, Shapes, SlotsMatchGoroutines, SlottedSet
<1>2. CASE TakeSlot(c)
  <2>1. c \notin SlottedSet /\ SlottedSet' = SlottedSet \cup {c}
    BY <1>1, <1>2 DEF TakeSlot, SlottedSet, Slotted
  <2>2. Cardinality(SlottedSet)' = Cardinality(SlottedSet) + 1
    BY <1>1, <2>1, CountUp
  <2>3. SlotsMatchGoroutines'
    BY <1>1, <1>2, <2>2 DEF TakeSlot, SlotsMatchGoroutines, SlottedSet
  <2>4. \A x : Handshakes(x)' = Handshakes(x)
    BY <1>1, <1>2 DEF TakeSlot, Handshakes, Unreleased
  <2>5. slots' \in 0..SSHSlots /\ phase' \in [Conns -> Phases]
    BY <1>1, <1>2, LimiterAssumption DEF TakeSlot, Phases
  <2> QED
    BY <1>1, <1>2, <2>3, <2>4, <2>5, QuietIInv DEF TakeSlot, history
<1>3. CASE SlotsFull(c)
  <2>1. SlottedSet' = SlottedSet
    BY <1>1, <1>3 DEF SlotsFull, SlottedSet, Slotted
  <2>2. SlotsMatchGoroutines'
    BY <1>1, <1>3, <2>1 DEF SlotsFull, SlotsMatchGoroutines, SlottedSet
  <2>3. phase[c] \in Unreleased /\ "none" \in Phases \ Unreleased
    BY <1>3 DEF SlotsFull, Unreleased, Phases
  <2> QED
    BY <1>3, <2>2, <2>3, ReleaseIInv DEF SlotsFull
<1>4. CASE FinishHandshake(c)
  <2>1. PICK p \in {"failed", "passed"} : phase' = [phase EXCEPT ![c] = p]
    BY <1>4 DEF FinishHandshake
  <2>2. SlottedSet' = SlottedSet
    BY <1>1, <1>4, <2>1 DEF FinishHandshake, SlottedSet, Slotted
  <2>3. SlotsMatchGoroutines'
    BY <1>1, <1>4, <2>2 DEF FinishHandshake, SlotsMatchGoroutines, SlottedSet
  <2>4. phase[c] \in Unreleased /\ p \in Phases \ Unreleased
    BY <1>4 DEF FinishHandshake, Unreleased, Phases
  <2> QED
    BY <1>4, <2>1, <2>3, <2>4, ReleaseIInv DEF FinishHandshake
<1>5. ASSUME NEW at \in Readings, RecordFailure(c, at) PROVE IInv'
  <2> DEFINE s == Get(DOMAIN sources, from[c], at)
  <2>1. at \in Nat
    BY LimiterAssumption DEF Readings, Larger, IInv, Shapes
  <2>2. Shaped(s)
    BY <2>1, GetShaped DEF IInv
  <2>3. Keeps(Recorded(s, at), s)
    BY <2>1, <2>2, RecordedKeeps
  <2>4. /\ phase[c] = "failed" /\ phase' = [phase EXCEPT ![c] = "done"]
        /\ sources' = Stored(DOMAIN sources, from[c], Recorded(s, at))
        /\ UNCHANGED <<now, loopRead, slots, from, meter, mark>>
    BY <1>5, Zenon DEF RecordFailure
  <2> QED
    BY <2>3, <2>4, OutcomeIInv
<1>6. ASSUME NEW at \in Readings, RecordSuccess(c, at) PROVE IInv'
  <2> DEFINE s == Get(DOMAIN sources, from[c], at)
             none == {}
  <2>1. at \in Nat /\ 0 \in Nat
    BY LimiterAssumption DEF Readings, Larger, IInv, Shapes
  <2>2. Shaped(s)
    BY <2>1, GetShaped DEF IInv
  <2>3. /\ phase[c] = "passed" /\ phase' = [phase EXCEPT ![c] = "tunnel"]
        /\ sources' = Stored(DOMAIN sources, from[c], [s EXCEPT !.failures = none])
        /\ UNCHANGED <<now, loopRead, slots, from, meter, mark>>
    BY <1>6, Zenon DEF RecordSuccess
  <2> HIDE DEF none
  <2>4. Keeps([s EXCEPT !.failures = none], s)
    BY <2>1, <2>2, OutcomeKeeps, Zenon
  <2> QED
    BY <2>3, <2>4, OutcomeIInv
<1>7. CASE RecheckDrop(c) \/ CloseTunnel(c)
  <2>1. SlottedSet' = SlottedSet
    BY <1>1, <1>7 DEF RecheckDrop, CloseTunnel, SlottedSet, Slotted
  <2>2. SlotsMatchGoroutines'
    BY <1>1, <1>7, <2>1 DEF RecheckDrop, CloseTunnel, SlotsMatchGoroutines, SlottedSet
  <2>3. \A x : Handshakes(x)' = Handshakes(x)
    BY <1>1, <1>7 DEF RecheckDrop, CloseTunnel, Handshakes, Unreleased
  <2>4. phase' \in [Conns -> Phases]
    BY <1>1, <1>7 DEF RecheckDrop, CloseTunnel, Phases
  <2> QED
    BY <1>1, <1>7, <2>2, <2>3, <2>4, QuietIInv DEF RecheckDrop, CloseTunnel, history
<1>8. CASE FreeSlot(c)
  <2>1. c \in SlottedSet /\ SlottedSet' = SlottedSet \ {c}
    BY <1>1, <1>8 DEF FreeSlot, SlottedSet, Slotted
  <2>2. /\ Cardinality(SlottedSet)' = Cardinality(SlottedSet) - 1
        /\ Cardinality(SlottedSet)' \in Nat
    BY <1>1, <2>1, CountDown
  <2>3. SlotsMatchGoroutines'
    BY <1>1, <1>8, <2>2 DEF FreeSlot, SlotsMatchGoroutines, SlottedSet
  <2>4. \A x : Handshakes(x)' = Handshakes(x)
    BY <1>1, <1>8 DEF FreeSlot, Handshakes, Unreleased
  <2>5. slots' \in 0..SSHSlots /\ phase' \in [Conns -> Phases]
    BY <1>1, <1>8, <2>2, LimiterAssumption DEF FreeSlot, Phases
  <2> QED
    BY <1>1, <1>8, <2>3, <2>4, <2>5, QuietIInv DEF FreeSlot, history
<1> QED
  BY <1>2, <1>3, <1>4, <1>5, <1>6, <1>7, <1>8 DEF Handle

\* Every step preserves the invariant.
LEMMA NextIInv == IInv /\ [Next]_vars => IInv'
<1> SUFFICES ASSUME IInv, [Next]_vars PROVE IInv'
  OBVIOUS
<1>1. CASE Tick \/ UNCHANGED vars
  <2>1. /\ UNCHANGED <<sources, loopRead, slots, phase, from, meter, mark>>
        /\ now' \in Nat /\ now' >= now
    <3>1. /\ UNCHANGED <<sources, loopRead, slots, phase, from, meter, mark>>
          /\ now' = now + 1 \/ now' = now
      BY <1>1, Zenon DEF Tick, vars, codeVars, history
    <3> QED
      BY <3>1 DEF IInv, Shapes
  <2>2. SlotsMatchGoroutines' /\ \A x : Handshakes(x)' = Handshakes(x)
    BY <2>1 DEF IInv, SlotsMatchGoroutines, Handshakes
  <2>3. slots' \in 0..SSHSlots /\ phase' \in [Conns -> Phases]
    BY <2>1 DEF IInv, Shapes
  <2> QED
    BY <2>1, <2>2, <2>3, QuietIInv
<1>2. ASSUME NEW c \in Conns, NEW k \in Sources, NEW at \in Readings, Acquire(c, k, at)
      PROVE  IInv'
  BY <1>2, AcquireIInv
<1>3. ASSUME NEW c \in Conns, TakeSlot(c) \/ SlotsFull(c) \/ Handle(c)
      PROVE  IInv'
  BY <1>3, ConnIInv
<1> QED
  BY <1>1, <1>2, <1>3 DEF Next

\* The empty limiter satisfies the invariant (ratelimit.go New).
LEMMA InitIInv == Init => IInv
<1> SUFFICES ASSUME Init PROVE IInv
  OBVIOUS
<1>1. /\ DOMAIN sources = {} /\ now = 0 /\ loopRead = 0 /\ slots = 0
      /\ phase = [c \in Conns |-> "none"] /\ from \in [Conns -> Sources]
      /\ meter = [k \in Sources |-> 0] /\ mark = [k \in Sources |-> 0]
  BY DEF Init
<1>2. SlottedSet = {} /\ \A k : Handshakes(k) = {}
  BY <1>1 DEF SlottedSet, Slotted, Handshakes, Unreleased
<1>3. SlotsMatchGoroutines /\ InFlightMatches
  BY <1>1, <1>2, FS_EmptySet DEF SlotsMatchGoroutines, SlottedSet, InFlightMatches
<1>4. Shapes
  BY <1>1, LimiterAssumption DEF Shapes, Phases
<1>5. RateInv
  BY <1>1, LimiterAssumption DEF RateInv, Budget, Leak, Larger
<1> QED
  BY <1>3, <1>4, <1>5 DEF IInv

-----------------------------------------------------------------------------
(***************************************************************************)
(* The theorems.                                                           *)
(***************************************************************************)

\* The inductive invariant is an invariant of admission.
THEOREM Invariance == Spec => []IInv
<1> QED
  BY InitIInv, NextIInv, PTL DEF Spec

\* The limiter's count of a source's handshakes is exact, through eviction,
\* refused slots and every outcome of a handshake (ratelimit.go:170-180).
THEOREM InFlightCorrect == Spec => []InFlightMatches
<1>1. IInv => InFlightMatches
  BY DEF IInv
<1> QED
  BY <1>1, Invariance, PTL

\* No source has more than MaxConcurrent handshakes at a time (ratelimit.go:29).
THEOREM ConcurrencyCapped == Spec => []HandshakesBounded
<1>1. ASSUME IInv PROVE HandshakesBounded
  <2> SUFFICES ASSUME NEW k \in Sources PROVE Cardinality(Handshakes(k)) <= MaxConcurrent
    BY DEF HandshakesBounded
  <2>1. CASE k \in DOMAIN sources
    <3>1. sources[k].inFlight \in 0..MaxConcurrent
      BY <1>1, <2>1 DEF IInv, Shapes, Shaped
    <3> QED
      BY <1>1, <2>1, <3>1, LimiterAssumption DEF IInv, InFlightMatches
  <2>2. CASE k \notin DOMAIN sources
    BY <1>1, <2>2, LimiterAssumption DEF IInv, InFlightMatches
  <2> QED
    BY <2>1, <2>2
<1> QED
  BY <1>1, Invariance, PTL

\* Over any stretch of time a source is admitted at most its burst plus the
\* sustained rate, although idle sources are forgotten (ratelimit.go:233).
THEOREM RateCorrect == Spec => []RateBounded
<1>1. IInv => RateBounded
  BY DEF IInv, RateInv, Budget, RateBounded
<1> QED
  BY <1>1, Invariance, PTL

\* Serve's slots are the connections in a goroutine, never more than its
\* capacity (proxy.go:108, 125).
THEOREM SlotsCorrect == Spec => [](SlotsMatchGoroutines /\ slots <= SSHSlots)
<1>1. IInv => SlotsMatchGoroutines /\ slots <= SSHSlots
  BY LimiterAssumption DEF IInv, Shapes
<1> QED
  BY <1>1, Invariance, PTL

-----------------------------------------------------------------------------
(***************************************************************************)
(* Failures and blocks: a second invariant, on top of the first.           *)
(***************************************************************************)

\* The last block k earned either shows in its record or is over for every
\* connection still to come; one clock reading's age is lost at most.
Served(k) ==
    /\ penalty[k] <= now + BlockDuration
    /\ \/ penalty[k] <= loopRead + MaxLag
       \/ k \in DOMAIN sources /\ penalty[k] <= sources[k].blockedTil + MaxLag

\* The failures of k that still count are all in its record, which is kept
\* as long as there are any, and which holds too few of them for a block.
Counted(k) ==
    /\ \A f \in recent[k] : f.at <= now /\ f.at > now - FailureWindow
    /\ k \notin DOMAIN sources => recent[k] = {}
    /\ k \in DOMAIN sources =>
        /\ sources[k].failures \in SUBSET Failure
        /\ IsFiniteSet(sources[k].failures)
        /\ Cardinality(sources[k].failures) < MaxFailures
        /\ recent[k] \subseteq sources[k].failures
        /\ \A f \in recent[k] : f.at <= sources[k].lastSeen + MaxLag

BlockInv ==
    /\ now <= MaxTime
    /\ penalty \in [Sources -> Nat]
    /\ recent \in [Sources -> SUBSET Failure]
    /\ \A k \in Sources : Served(k) /\ Counted(k)

\* A source with no failures has too few of them.
LEMMA NoFailures ==
    /\ {} \in SUBSET Failure
    /\ IsFiniteSet({})
    /\ Cardinality({}) < MaxFailures
BY FS_EmptySet, LimiterAssumption

\* Operations that record no outcome: they keep the block and the failures of
\* what they retain, forget what is idle, and what they make has no failures.
LEMMA UnrecordedBlockInv ==
    ASSUME IInv, IInv', BlockInv, UNCHANGED <<now, recent, penalty>>,
           loopRead' >= loopRead,
           NEW tracked \in SUBSET DOMAIN sources,
           \A k \in tracked :
              /\ k \in DOMAIN sources'
              /\ sources'[k].blockedTil = sources[k].blockedTil
              /\ sources'[k].failures = sources[k].failures
              /\ \/ sources'[k].lastSeen = sources[k].lastSeen
                 \/ sources'[k].lastSeen >= now - MaxLag,
           \A k \in DOMAIN sources' \ tracked : sources'[k].failures = {},
           \A k \in DOMAIN sources \ tracked : Idle(sources[k], loopRead')
    PROVE  BlockInv'
<1> SUFFICES ASSUME NEW k \in Sources PROVE Served(k)' /\ Counted(k)'
  BY DEF BlockInv
<1>1. /\ now \in Nat /\ loopRead \in Nat /\ loopRead' \in Nat /\ loopRead' <= now
      /\ penalty[k] \in Nat /\ recent[k] \in SUBSET Failure
      /\ Served(k) /\ Counted(k)
  BY DEF IInv, Shapes, BlockInv
<1>2. /\ k \in DOMAIN sources => sources[k].lastSeen \in Nat /\ sources[k].blockedTil \in Nat
      /\ k \in DOMAIN sources' => sources'[k].lastSeen \in Nat /\ sources'[k].blockedTil \in Nat
  <2>1. /\ \A x \in DOMAIN sources : Shaped(sources[x])
        /\ \A x \in DOMAIN sources' : Shaped(sources[x])'
    BY DEF IInv, Shapes
  <2> QED
    BY <2>1 DEF Shaped
<1>3. \A f \in recent[k] : f.at \in Nat
  BY <1>1 DEF Failure
<1>4. CASE k \in tracked
  <2>1. k \in DOMAIN sources /\ k \in DOMAIN sources'
    BY <1>4
  <2>2. Served(k)'
    BY <1>1, <1>2, <1>4, <2>1, LimiterAssumption DEF Served
  <2>3. \A f \in recent[k] : f.at <= sources'[k].lastSeen + MaxLag
    BY <1>1, <1>2, <1>3, <1>4, <2>1, LimiterAssumption DEF Counted
  <2> QED
    BY <1>1, <1>4, <2>1, <2>2, <2>3 DEF Counted
<1>5. CASE k \notin tracked
  <2>1. Served(k)'
    BY <1>1, <1>2, <1>5, LimiterAssumption DEF Served, Idle
  <2>2. recent[k] = {}
    <3>1. CASE k \in DOMAIN sources
      <4>1. loopRead' - sources[k].lastSeen > IdleTTL
        BY <1>5, <3>1 DEF Idle
      <4>2. \A f \in recent[k] :
               f.at <= sources[k].lastSeen + MaxLag /\ f.at > now - FailureWindow
        BY <1>1, <3>1 DEF Counted
      <4> QED
        BY <1>1, <1>2, <1>3, <3>1, <4>1, <4>2, LimiterAssumption, RetentionAssumption
    <3> QED
      BY <1>1, <3>1 DEF Counted
  <2>3. k \in DOMAIN sources' => sources'[k].failures = {}
    BY <1>5
  <2> QED
    BY <2>1, <2>2, <2>3, NoFailures DEF Counted
<1> QED
  BY <1>4, <1>5

\* Acquire, whatever it decides.
LEMMA AcquireBlockInv ==
    ASSUME IInv, IInv', BlockInv, NEW c \in Conns, NEW k \in Sources,
           NEW at \in Readings, Acquire(c, k, at)
    PROVE  BlockInv'
<1> DEFINE tracked == Retained(at)
           s == Get(tracked, k, at)
           r == Refill(s, at)
           a == [r EXCEPT !.tokens = @ - Cost, !.inFlight = @ + 1]
<1>1. now \in Nat /\ at \in Nat /\ at >= now - MaxLag /\ tracked \in SUBSET DOMAIN sources
  BY LimiterAssumption DEF Readings, Larger, IInv, Shapes, Retained
<1>2. /\ loopRead' = at /\ at >= loopRead
      /\ \/ sources' = Stored(tracked, k, s)
         \/ sources' = Stored(tracked, k, r)
         \/ sources' = Stored(tracked, k, a)
      /\ UNCHANGED <<now, recent, penalty>>
  BY Zenon DEF Acquire, history
<1>3. /\ Shaped(s) /\ s.lastSeen = at
      /\ k \in tracked => /\ s.failures = sources[k].failures
                          /\ s.blockedTil = sources[k].blockedTil
      /\ k \notin tracked => s.failures = {}
  <2>1. Shaped(s) /\ s.lastSeen = at
    BY <1>1, GetShaped DEF IInv
  <2>2. CASE k \in tracked
    <3>1. Shaped(sources[k])
      BY <1>1, <2>2 DEF IInv, Shapes
    <3>2. s = [sources[k] EXCEPT !.lastSeen = at]
      BY <2>2 DEF Get
    <3> QED
      BY <2>1, <2>2, <3>1, <3>2 DEF Shaped
  <2>3. CASE k \notin tracked
    <3>1. s = [NewSource(at) EXCEPT !.lastSeen = at]
      BY <2>3 DEF Get
    <3> QED
      BY <2>1, <2>3, <3>1 DEF NewSource
  <2> QED
    BY <2>2, <2>3
<1> HIDE DEF s
<1>4. /\ Shaped(r) /\ r.lastSeen = s.lastSeen
      /\ r.failures = s.failures /\ r.blockedTil = s.blockedTil
  <2>1. Shaped(r) /\ r.lastSeen = s.lastSeen
    BY <1>1, <1>3, RefillShaped
  <2> QED
    BY <1>3, <2>1 DEF Refill, Shaped
<1> HIDE DEF r
<1>5. a.lastSeen = r.lastSeen /\ a.failures = r.failures /\ a.blockedTil = r.blockedTil
  BY <1>4 DEF Shaped
<1> HIDE DEF a
<1>6. /\ DOMAIN sources' = tracked \cup {k}
      /\ \A x \in tracked \ {k} : sources'[x] = sources[x]
      /\ sources'[k].lastSeen = at
      /\ sources'[k].failures = s.failures
      /\ sources'[k].blockedTil = s.blockedTil
  BY <1>2, <1>3, <1>4, <1>5 DEF Stored
<1>7. \A x \in tracked :
        /\ x \in DOMAIN sources'
        /\ sources'[x].blockedTil = sources[x].blockedTil
        /\ sources'[x].failures = sources[x].failures
        /\ \/ sources'[x].lastSeen = sources[x].lastSeen
           \/ sources'[x].lastSeen >= now - MaxLag
  BY <1>1, <1>3, <1>6
<1>8. \A x \in DOMAIN sources' \ tracked : sources'[x].failures = {}
  BY <1>3, <1>6
<1>9. \A x \in DOMAIN sources \ tracked : Idle(sources[x], loopRead')
  BY <1>2 DEF Retained
<1> QED
  BY <1>1, <1>2, <1>7, <1>8, <1>9, UnrecordedBlockInv

\* The release closure and the steps that leave the limiter alone.
LEMMA SourceKeptBlockInv ==
    ASSUME IInv, IInv', BlockInv, UNCHANGED <<now, loopRead, recent, penalty>>,
           sources' = sources \/ \E k \in Sources : Release(k)
    PROVE  BlockInv'
<1>1. /\ DOMAIN sources' = DOMAIN sources
      /\ \A x \in DOMAIN sources :
            /\ sources'[x].blockedTil = sources[x].blockedTil
            /\ sources'[x].failures = sources[x].failures
            /\ sources'[x].lastSeen = sources[x].lastSeen
  <2>1. CASE sources' = sources
    BY <2>1
  <2>2. ASSUME NEW k \in DOMAIN sources,
               sources' = [sources EXCEPT ![k].inFlight = @ - 1]
        PROVE  /\ DOMAIN sources' = DOMAIN sources
               /\ \A x \in DOMAIN sources \ {k} : sources'[x] = sources[x]
               /\ sources'[k] = [sources[k] EXCEPT !.inFlight = @ - 1]
    BY <2>2
  <2>3. \A x \in DOMAIN sources : Shaped(sources[x])
    BY DEF IInv, Shapes
  <2>4. ASSUME NEW k \in DOMAIN sources
        PROVE  /\ [sources[k] EXCEPT !.inFlight = @ - 1].blockedTil = sources[k].blockedTil
               /\ [sources[k] EXCEPT !.inFlight = @ - 1].failures = sources[k].failures
               /\ [sources[k] EXCEPT !.inFlight = @ - 1].lastSeen = sources[k].lastSeen
    BY <2>3 DEF Shaped
  <2> QED
    BY <2>1, <2>2, <2>4 DEF Release
<1>2. loopRead' >= loopRead
  BY DEF IInv, Shapes
<1> QED
  BY <1>1, <1>2, UnrecordedBlockInv

\* A failure is added to those in the window, or turns them into a block.
LEMMA FailureBlockInv ==
    ASSUME IInv, IInv', BlockInv, NEW c \in Conns, NEW at \in Readings,
           RecordFailure(c, at)
    PROVE  BlockInv'
<1>0. PICK k \in Sources : k = from[c]
  BY DEF IInv, Shapes
<1> DEFINE b == Get(DOMAIN sources, k, at)
           failures == WithFailure(b.failures, at)
           til == at + BlockDuration
           s == Recorded(b, at)
           failure == NewFailure(b.failures, at)
<1>1. /\ now \in Nat /\ loopRead \in Nat /\ loopRead <= now
      /\ at \in Nat /\ at <= now /\ at >= now - MaxLag
  BY LimiterAssumption DEF Readings, Larger, IInv, Shapes
<1>2. /\ Shaped(b) /\ b.lastSeen = at
      /\ k \in DOMAIN sources => /\ b.failures = sources[k].failures
                                 /\ b.blockedTil = sources[k].blockedTil
      /\ k \notin DOMAIN sources => b.failures = {}
  <2>1. Shaped(b) /\ b.lastSeen = at
    BY <1>1, GetShaped DEF IInv
  <2>2. CASE k \in DOMAIN sources
    <3>1. Shaped(sources[k])
      BY <2>2 DEF IInv, Shapes
    <3>2. b = [sources[k] EXCEPT !.lastSeen = at]
      BY <2>2 DEF Get
    <3> QED
      BY <2>1, <2>2, <3>1, <3>2 DEF Shaped
  <2>3. CASE k \notin DOMAIN sources
    <3>1. b = [NewSource(at) EXCEPT !.lastSeen = at]
      BY <2>3 DEF Get
    <3> QED
      BY <2>1, <2>3, <3>1 DEF NewSource
  <2> QED
    BY <2>2, <2>3
<1>3. Served(k) /\ Counted(k) /\ penalty[k] \in Nat /\ recent[k] \in SUBSET Failure
  BY <1>1 DEF BlockInv
<1>4. /\ b.failures \in SUBSET Failure /\ IsFiniteSet(b.failures)
      /\ recent[k] \subseteq b.failures
  BY <1>2, <1>3, NoFailures DEF Counted
<1>5. /\ sources' = Stored(DOMAIN sources, k, s)
      /\ IF s.failures = {}
         THEN /\ penalty' = [penalty EXCEPT ![k] = Larger(@, til)]
              /\ recent' = [recent EXCEPT ![k] = {}]
         ELSE /\ recent' = [recent EXCEPT ![k] = InWindow(@ \cup {failure}, now)]
              /\ UNCHANGED penalty
      /\ UNCHANGED <<now, loopRead>>
  BY <1>0, Zenon DEF RecordFailure
<1>6. IF Cardinality(failures) >= MaxFailures
      THEN s = [b EXCEPT !.blockedTil = til, !.failures = {}]
      ELSE s = [b EXCEPT !.failures = failures]
  BY Zenon DEF Recorded
<1>7. failure \in Failure /\ failure.at = at
  <2>1. IsFiniteSet({f \in InWindow(b.failures, at) : f.at = at})
    BY <1>4, FS_Subset DEF InWindow
  <2>2. Cardinality({f \in InWindow(b.failures, at) : f.at = at}) \in Nat
    BY <2>1, FS_CardinalityType
  <2> QED
    BY <1>1, <2>2 DEF NewFailure, Failure
<1>8. /\ failures = InWindow(b.failures, at) \cup {failure}
      /\ failures \in SUBSET Failure /\ IsFiniteSet(failures)
      /\ Cardinality(failures) \in Nat /\ failures # {}
  <2>1. failures = InWindow(b.failures, at) \cup {failure}
    BY DEF WithFailure
  <2>2. IsFiniteSet(InWindow(b.failures, at)) /\ InWindow(b.failures, at) \subseteq Failure
    BY <1>4, FS_Subset DEF InWindow
  <2>3. IsFiniteSet(failures)
    BY <2>1, <2>2, FS_AddElement
  <2> QED
    BY <1>7, <2>1, <2>2, <2>3, FS_CardinalityType
<1> HIDE DEF b, failures, til, s, failure
<1>9. /\ DOMAIN sources' = DOMAIN sources \cup {k}
      /\ sources'[k] = s
      /\ \A x \in DOMAIN sources \ {k} : sources'[x] = sources[x]
  BY <1>5 DEF Stored
<1>10. til \in Nat /\ til = at + BlockDuration
  BY <1>1, LimiterAssumption DEF til
<1>11. /\ penalty' \in [Sources -> Nat] /\ recent' \in [Sources -> SUBSET Failure]
       /\ \A x \in Sources \ {k} : penalty'[x] = penalty[x] /\ recent'[x] = recent[x]
       /\ Served(k)' /\ Counted(k)'
  <2>1. CASE Cardinality(failures) >= MaxFailures
    <3>1. s = [b EXCEPT !.blockedTil = til, !.failures = {}]
      BY <1>6, <2>1
    <3>2. s.failures = {} /\ s.blockedTil = til
      BY <1>2, <3>1 DEF Shaped
    <3>3. /\ penalty' = [penalty EXCEPT ![k] = Larger(@, til)]
          /\ recent' = [recent EXCEPT ![k] = {}]
      BY <1>5, <3>2
    <3>4. /\ penalty'[k] = Larger(penalty[k], til) /\ recent'[k] = {}
          /\ Larger(penalty[k], til) \in Nat
      BY <1>1, <1>3, <1>10, <3>3 DEF BlockInv, Larger
    <3>5. Served(k)'
      BY <1>1, <1>3, <1>5, <1>9, <1>10, <3>2, <3>4, LimiterAssumption DEF Served, Larger
    <3>6. Counted(k)'
      BY <1>9, <3>2, <3>4, NoFailures DEF Counted
    <3> QED
      BY <3>3, <3>4, <3>5, <3>6, NoFailures DEF BlockInv
  <2>2. CASE ~ (Cardinality(failures) >= MaxFailures)
    <3>1. s = [b EXCEPT !.failures = failures]
      BY <1>6, <2>2
    <3>2. s.failures = failures /\ s.blockedTil = b.blockedTil /\ s.lastSeen = at
      BY <1>2, <3>1 DEF Shaped
    <3>3. /\ penalty' = penalty
          /\ recent' = [recent EXCEPT ![k] = InWindow(@ \cup {failure}, now)]
      BY <1>5, <1>8, <3>2
    <3>4. recent'[k] = InWindow(recent[k] \cup {failure}, now)
      BY <1>1, <3>3 DEF BlockInv
    <3>5. recent'[k] \subseteq failures /\ recent'[k] \in SUBSET Failure
      BY <1>1, <1>3, <1>4, <1>7, <1>8, <3>4, LimiterAssumption DEF InWindow, Failure
    <3>6. \A f \in recent'[k] :
            f.at <= now /\ f.at > now - FailureWindow /\ f.at <= at + MaxLag
      BY <1>1, <1>3, <1>7, <3>4, LimiterAssumption DEF InWindow, Failure, Counted
    <3>7. Cardinality(failures) < MaxFailures
      BY <1>8, <2>2, LimiterAssumption
    <3>8. Served(k)'
      BY <1>1, <1>2, <1>3, <1>5, <1>9, <3>2, <3>3 DEF Served
    <3>9. Counted(k)'
      BY <1>5, <1>8, <1>9, <3>2, <3>5, <3>6, <3>7 DEF Counted
    <3> QED
      BY <3>3, <3>5, <3>8, <3>9 DEF BlockInv
  <2> QED
    BY <2>1, <2>2
<1>12. ASSUME NEW x \in Sources \ {k} PROVE Served(x)' /\ Counted(x)'
  <2>1. Served(x) /\ Counted(x)
    BY DEF BlockInv
  <2> QED
    BY <1>5, <1>9, <1>11, <2>1 DEF Served, Counted
<1> QED
  BY <1>5, <1>11, <1>12 DEF BlockInv

\* A success forgets the failures and no block.
LEMMA SuccessBlockInv ==
    ASSUME IInv, IInv', BlockInv, NEW c \in Conns, NEW at \in Readings,
           RecordSuccess(c, at)
    PROVE  BlockInv'
<1>0. PICK k \in Sources : k = from[c]
  BY DEF IInv, Shapes
<1> DEFINE b == Get(DOMAIN sources, k, at)
           s == [b EXCEPT !.failures = {}]
<1>1. at \in Nat
  BY LimiterAssumption DEF Readings, Larger, IInv, Shapes
<1>2. Shaped(b) /\ (k \in DOMAIN sources => b.blockedTil = sources[k].blockedTil)
  <2>1. Shaped(b)
    BY <1>1, GetShaped DEF IInv
  <2>2. ASSUME k \in DOMAIN sources PROVE b.blockedTil = sources[k].blockedTil
    <3>1. Shaped(sources[k])
      BY <2>2 DEF IInv, Shapes
    <3>2. b = [sources[k] EXCEPT !.lastSeen = at]
      BY <2>2 DEF Get
    <3> QED
      BY <3>1, <3>2 DEF Shaped
  <2> QED
    BY <2>1, <2>2
<1>3. /\ sources' = Stored(DOMAIN sources, k, s)
      /\ recent' = [recent EXCEPT ![k] = {}]
      /\ UNCHANGED <<now, loopRead, penalty>>
  BY <1>0, Zenon DEF RecordSuccess
<1> HIDE DEF b
<1>4. s.failures = {} /\ s.blockedTil = b.blockedTil
  BY <1>2 DEF Shaped
<1> HIDE DEF s
<1>5. /\ DOMAIN sources' = DOMAIN sources \cup {k}
      /\ sources'[k] = s
      /\ \A x \in DOMAIN sources \ {k} : sources'[x] = sources[x]
  BY <1>3 DEF Stored
<1>6. /\ recent' \in [Sources -> SUBSET Failure] /\ recent'[k] = {}
      /\ \A x \in Sources \ {k} : recent'[x] = recent[x]
  BY <1>3 DEF BlockInv
<1>7. Served(k)'
  BY <1>2, <1>3, <1>4, <1>5 DEF BlockInv, Served
<1>8. Counted(k)'
  BY <1>4, <1>5, <1>6, NoFailures DEF Counted
<1>9. ASSUME NEW x \in Sources \ {k} PROVE Served(x)' /\ Counted(x)'
  <2>1. Served(x) /\ Counted(x)
    BY DEF BlockInv
  <2> QED
    BY <1>3, <1>5, <1>6, <2>1 DEF Served, Counted
<1> QED
  BY <1>3, <1>6, <1>7, <1>8, <1>9 DEF BlockInv

\* The clock ticks: failures leave the window.
LEMMA TickBlockInv ==
    ASSUME IInv, BlockInv, Tick
    PROVE  BlockInv'
<1>1. /\ now' = now + 1 /\ now < MaxTime /\ now \in Nat
      /\ recent' = [k \in Sources |-> InWindow(recent[k], now')]
      /\ UNCHANGED <<sources, loopRead, penalty>>
  BY DEF Tick, IInv, Shapes
<1>2. now' <= MaxTime /\ penalty' \in [Sources -> Nat]
  BY <1>1, LimiterAssumption DEF BlockInv
<1>3. recent' \in [Sources -> SUBSET Failure]
  BY <1>1 DEF BlockInv, InWindow
<1>4. ASSUME NEW k \in Sources PROVE Served(k)' /\ Counted(k)'
  <2>1. Served(k) /\ Counted(k) /\ recent[k] \in SUBSET Failure /\ penalty[k] \in Nat
    BY DEF BlockInv
  <2>2. recent'[k] = {f \in recent[k] : f.at > now' - FailureWindow}
    BY <1>1 DEF InWindow
  <2>3. Served(k)'
    BY <1>1, <2>1, LimiterAssumption DEF Served
  <2>4. Counted(k)'
    BY <1>1, <2>1, <2>2 DEF Counted, Failure
  <2> QED
    BY <2>3, <2>4
<1> QED
  BY <1>2, <1>3, <1>4 DEF BlockInv

\* Every step preserves the second invariant.
LEMMA NextBlockInv == IInv /\ IInv' /\ BlockInv /\ [Next]_vars => BlockInv'
<1> SUFFICES ASSUME IInv, IInv', BlockInv, [Next]_vars PROVE BlockInv'
  OBVIOUS
<1>1. CASE UNCHANGED vars
  BY <1>1, SourceKeptBlockInv DEF vars, codeVars, history
<1>2. CASE Tick
  BY <1>2, TickBlockInv
<1>3. ASSUME NEW c \in Conns, NEW k \in Sources, NEW at \in Readings, Acquire(c, k, at)
      PROVE  BlockInv'
  BY <1>3, AcquireBlockInv
<1>4. ASSUME NEW c \in Conns,
             \/ TakeSlot(c) \/ SlotsFull(c) \/ FinishHandshake(c)
             \/ RecheckDrop(c) \/ CloseTunnel(c) \/ FreeSlot(c)
      PROVE  BlockInv'
  <2>1. from[c] \in Sources
    BY DEF IInv, Shapes
  <2>2. /\ UNCHANGED <<now, loopRead, recent, penalty>>
        /\ sources' = sources \/ Release(from[c])
    BY <1>4, Zenon
       DEF TakeSlot, SlotsFull, FinishHandshake, RecheckDrop, CloseTunnel, FreeSlot, history
  <2> QED
    BY <2>1, <2>2, SourceKeptBlockInv
<1>5. ASSUME NEW c \in Conns, NEW at \in Readings, RecordFailure(c, at) PROVE BlockInv'
  BY <1>5, FailureBlockInv
<1>6. ASSUME NEW c \in Conns, NEW at \in Readings, RecordSuccess(c, at) PROVE BlockInv'
  BY <1>6, SuccessBlockInv
<1> QED
  BY <1>1, <1>2, <1>3, <1>4, <1>5, <1>6 DEF Next, Handle

\* The empty limiter owes nobody a block.
LEMMA InitBlockInv == Init => BlockInv
<1> SUFFICES ASSUME Init PROVE BlockInv
  OBVIOUS
<1>1. /\ now = 0 /\ loopRead = 0 /\ DOMAIN sources = {}
      /\ recent = [k \in Sources |-> {}] /\ penalty = [k \in Sources |-> 0]
  BY DEF Init
<1> QED
  BY <1>1, LimiterAssumption DEF BlockInv, Served, Counted

\* The second invariant is an invariant of admission.
THEOREM BlockInvariance == Spec => [](IInv /\ BlockInv)
<1>1. Init => IInv /\ BlockInv
  BY InitIInv, InitBlockInv
<1>2. (IInv /\ BlockInv) /\ [Next]_vars => (IInv /\ BlockInv)'
  BY NextIInv, NextBlockInv
<1> QED
  BY <1>1, <1>2, PTL DEF Spec

\* Every variable keeps to its type (ratelimit.go:83-90, the source record).
THEOREM TypeCorrect == Spec => []TypeOK
<1>1. ASSUME IInv, BlockInv PROVE TypeOK
  <2>1. now \in 0..MaxTime /\ loopRead \in 0..MaxTime
    BY <1>1, LimiterAssumption DEF IInv, Shapes, BlockInv
  <2>2. mark \in [Sources -> 0..MaxTime]
    <3>1. mark \in [Sources -> Nat] /\ \A k \in Sources : mark[k] <= loopRead
      BY <1>1 DEF IInv, Shapes, RateInv, Budget
    <3> QED
      BY <2>1, <3>1, LimiterAssumption
  <2>3. ASSUME NEW k \in DOMAIN sources PROVE sources[k] \in Source
    <3>1. Shaped(sources[k]) /\ sources[k].failures \in SUBSET Failure
      BY <1>1 DEF IInv, Shapes, BlockInv, Counted
    <3> QED
      BY <3>1, LimiterAssumption DEF Shaped, Source
  <2> QED
    BY <1>1, <2>1, <2>2, <2>3 DEF TypeOK, IInv, Shapes, BlockInv
<1>2. IInv /\ BlockInv => TypeOK
  BY <1>1
<1> QED
  BY <1>2, BlockInvariance, PTL

\* A source that fails MaxFailures times within the window has been blocked,
\* also when failures are recorded out of clock order or between evictions of
\* the source (ratelimit.go:32).
THEOREM FailuresBlock == Spec => []FailuresLeadToBlock
<1>1. ASSUME IInv, BlockInv, NEW k \in Sources PROVE Cardinality(recent[k]) < MaxFailures
  <2>1. Counted(k)
    BY <1>1 DEF BlockInv
  <2>2. CASE k \in DOMAIN sources
    <3> DEFINE fs == sources[k].failures
    <3>1. recent[k] \subseteq fs /\ IsFiniteSet(fs) /\ Cardinality(fs) < MaxFailures
      BY <2>1, <2>2 DEF Counted
    <3>2. /\ IsFiniteSet(recent[k]) /\ Cardinality(recent[k]) <= Cardinality(fs)
          /\ Cardinality(recent[k]) \in Nat /\ Cardinality(fs) \in Nat
      BY <3>1, FS_Subset, FS_CardinalityType
    <3> QED
      BY <3>1, <3>2, LimiterAssumption
  <2>3. CASE k \notin DOMAIN sources
    BY <2>1, <2>3, NoFailures DEF Counted
  <2> QED
    BY <2>2, <2>3
<1>2. IInv /\ BlockInv => FailuresLeadToBlock
  BY <1>1 DEF FailuresLeadToBlock
<1> QED
  BY <1>2, BlockInvariance, PTL

\* No source is let in before its last block is over: eviction, a success in
\* flight and a late failure included (ratelimit.go:230-232, "evicting a blocked
\* source would reset its penalty").
THEOREM PenaltyCorrect == Spec => PenaltyServed
<1> DEFINE A == \A c \in Conns :
                   phase[c] = "none" /\ phase'[c] = "admitted"
                       => loopRead' >= penalty[from'[c]] - MaxLag
<1>1. ASSUME IInv, BlockInv, Next PROVE A
  <2> SUFFICES ASSUME NEW c \in Conns, phase[c] = "none", phase'[c] = "admitted"
               PROVE  loopRead' >= penalty[from'[c]] - MaxLag
    OBVIOUS
  <2>1. phase \in [Conns -> Phases]
    BY <1>1 DEF IInv, Shapes
  <2>2. PICK d \in Conns, k \in Sources, at \in Readings : Acquire(d, k, at)
    <3>1. ~ Tick
      BY DEF Tick
    <3>2. ASSUME NEW d \in Conns, TakeSlot(d) \/ SlotsFull(d) \/ Handle(d) PROVE FALSE
      <4>1. \E p \in Phases \ {"admitted"} : phase' = [phase EXCEPT ![d] = p]
        BY <3>2 DEF TakeSlot, SlotsFull, Handle, FinishHandshake, RecordFailure,
             RecordSuccess, RecheckDrop, CloseTunnel, FreeSlot, Phases
      <4> QED
        BY <2>1, <4>1
    <3> QED
      BY <1>1, <3>1, <3>2 DEF Next
  <2> DEFINE s == Get(Retained(at), k, at)
  <2>3. /\ d = c /\ from'[c] = k /\ loopRead' = at /\ at >= loopRead
        /\ at >= s.blockedTil
    <3>1. phase' = [phase EXCEPT ![d] = "admitted"] \/ phase' = phase
      BY <2>2 DEF Acquire
    <3>2. d = c
      BY <2>1, <3>1
    <3>3. from \in [Conns -> Sources]
      BY <1>1 DEF IInv, Shapes
    <3> QED
      BY <2>2, <3>2, <3>3 DEF Acquire, LetsIn
  <2>4. /\ Served(k) /\ penalty[k] \in Nat /\ at \in Nat /\ loopRead \in Nat
    BY <1>1, LimiterAssumption DEF BlockInv, IInv, Shapes, Readings, Larger
  <2>5. CASE k \in DOMAIN sources
    <3>1. Shaped(sources[k])
      BY <1>1, <2>5 DEF IInv, Shapes
    <3>2. CASE k \in Retained(at)
      <4>1. s = [sources[k] EXCEPT !.lastSeen = at]
        BY <3>2 DEF Get
      <4>2. s.blockedTil = sources[k].blockedTil /\ sources[k].blockedTil \in Nat
        BY <3>1, <4>1 DEF Shaped
      <4> QED
        BY <2>3, <2>4, <4>2, LimiterAssumption DEF Served
    <3>3. CASE k \notin Retained(at)
      <4>1. at >= sources[k].blockedTil /\ sources[k].blockedTil \in Nat
        BY <2>5, <3>1, <3>3 DEF Retained, Idle, Shaped
      <4> QED
        BY <2>3, <2>4, <4>1, LimiterAssumption DEF Served
    <3> QED
      BY <3>2, <3>3
  <2>6. CASE k \notin DOMAIN sources
    BY <2>3, <2>4, <2>6, LimiterAssumption DEF Served
  <2> QED
    BY <2>5, <2>6
<1>2. IInv /\ BlockInv /\ [Next]_vars => [A]_vars
  BY <1>1
<1> QED
  BY <1>2, BlockInvariance, PTL DEF Spec, PenaltyServed

-----------------------------------------------------------------------------
(***************************************************************************)
(* No refusal that is not due: a third invariant, on top of the others.    *)
(***************************************************************************)

\* At a time, a record and a meter that has run down to leak make up for the
\* burst, but for the age of one clock reading.
Covers(r, leak, at) ==
    \/ r.tokens = Burst
    \/ r.tokens + (at - r.lastRefill) + leak >= Burst - MaxLag

\* The record of k keeps nothing from it that it has not spent, and blocks it
\* no longer than the blocks it earned.
Owed(k) ==
    k \in DOMAIN sources =>
        /\ sources[k].lastRefill <= now
        /\ sources[k].blockedTil <= penalty[k]
        /\ Covers(sources[k], Leak(k, loopRead), loopRead)

DueInv == \A k \in Sources : Owed(k)

\* A refill fills by the time since the last one, and no further than full.
LEMMA RefillExact ==
    ASSUME NEW s, Shaped(s), NEW at \in Nat
    PROVE  /\ Refill(s, at).blockedTil = s.blockedTil
           /\ at > s.lastRefill =>
                /\ Refill(s, at).tokens = Smaller(s.tokens + (at - s.lastRefill), Burst)
                /\ Refill(s, at).lastRefill = at
           /\ at <= s.lastRefill => Refill(s, at) = s
<1>1. s.lastRefill \in Nat
  BY DEF Shaped
<1>2. CASE at > s.lastRefill
  <2>1. Refill(s, at) = [s EXCEPT !.tokens = Smaller(s.tokens + (at - s.lastRefill), Burst),
                                  !.lastRefill = at]
    BY <1>2 DEF Refill
  <2> QED
    BY <1>1, <1>2, <2>1 DEF Shaped
<1>3. CASE at <= s.lastRefill
  BY <1>1, <1>3 DEF Refill
<1> QED
  BY <1>1, <1>2, <1>3

\* ... so that a record that makes up for the burst still does (Acquire).
LEMMA RefillCovers ==
    ASSUME NEW s, Shaped(s), NEW at \in Nat, NEW leak \in Nat, Covers(s, leak, at)
    PROVE  Covers(Refill(s, at), leak, at)
<1> DEFINE r == Refill(s, at)
<1>1. s.tokens \in 0..Burst /\ s.lastRefill \in Nat
  BY DEF Shaped
<1>2. /\ at > s.lastRefill =>
            r.tokens = Smaller(s.tokens + (at - s.lastRefill), Burst) /\ r.lastRefill = at
      /\ at <= s.lastRefill => r = s
  BY RefillExact
<1> HIDE DEF r
<1>3. CASE at > s.lastRefill
  BY <1>1, <1>2, <1>3, LimiterAssumption DEF Covers, Smaller, r
<1>4. CASE at <= s.lastRefill
  BY <1>2, <1>4 DEF r
<1> QED
  BY <1>1, <1>3, <1>4

\* An admission moves what it costs from the record to the meter.
LEMMA AdmitCovers ==
    ASSUME NEW r, Shaped(r), NEW q, q.tokens = r.tokens - Cost, q.lastRefill = r.lastRefill,
           NEW at \in Nat, NEW leak \in Nat, Covers(r, leak, at), r.lastRefill <= at + MaxLag
    PROVE  Covers(q, leak + Cost, at)
<1>1. r.tokens \in 0..Burst /\ r.lastRefill \in Nat
  BY DEF Shaped
<1> QED
  BY <1>1, LimiterAssumption DEF Covers

\* The meter runs down by no more than the time that passes.
LEMMA WaitCovers ==
    ASSUME Shapes, NEW k \in Sources, NEW at \in Nat, at >= loopRead,
           NEW r, Shaped(r), Covers(r, Leak(k, loopRead), loopRead)
    PROVE  Covers(r, Leak(k, at), at)
<1>1. meter[k] \in Nat /\ mark[k] \in Nat /\ loopRead \in Nat
  BY DEF Shapes
<1>2. r.tokens \in 0..Burst /\ r.lastRefill \in Nat
  BY DEF Shaped
<1>3. Leak(k, at) >= Leak(k, loopRead) - (at - loopRead)
  BY <1>1 DEF Leak, Larger
<1>4. Leak(k, at) \in Nat /\ Leak(k, loopRead) \in Nat
  BY <1>1 DEF Leak, Larger
<1> QED
  BY <1>1, <1>2, <1>3, <1>4, LimiterAssumption DEF Covers

\* The record Acquire works with, a new one included.
LEMMA AcquireFinds ==
    ASSUME IInv, BlockInv, DueInv, NEW k \in Sources, NEW at \in Nat,
           at >= loopRead, at <= now
    PROVE  /\ Get(Retained(at), k, at).lastRefill <= now
           /\ Get(Retained(at), k, at).blockedTil <= penalty[k]
           /\ Covers(Get(Retained(at), k, at), Leak(k, at), at)
<1> DEFINE s == Get(Retained(at), k, at)
<1>1. penalty[k] \in Nat /\ now \in Nat
  BY DEF BlockInv, IInv, Shapes
<1>2. CASE k \in Retained(at)
  <2>1. k \in DOMAIN sources /\ Owed(k) /\ Shaped(sources[k])
    BY <1>2 DEF Retained, DueInv, IInv, Shapes
  <2>2. s = [sources[k] EXCEPT !.lastSeen = at]
    BY <1>2 DEF Get
  <2>3. /\ s.tokens = sources[k].tokens /\ s.lastRefill = sources[k].lastRefill
        /\ s.blockedTil = sources[k].blockedTil
    BY <2>1, <2>2 DEF Shaped
  <2>4. Covers(sources[k], Leak(k, at), at)
    BY <2>1, WaitCovers DEF Owed, IInv
  <2> QED
    BY <2>1, <2>3, <2>4 DEF Owed, Covers
<1>3. CASE k \notin Retained(at)
  <2>1. s = [NewSource(at) EXCEPT !.lastSeen = at]
    BY <1>3 DEF Get
  <2>2. s.tokens = Burst /\ s.lastRefill = at /\ s.blockedTil = 0
    BY <2>1 DEF NewSource
  <2> QED
    BY <1>1, <2>2 DEF Covers
<1> QED
  BY <1>2, <1>3

\* Acquire, whatever it decides (ratelimit.go:139).
LEMMA AcquireDueInv ==
    ASSUME IInv, BlockInv, DueInv, NEW c \in Conns, NEW k \in Sources,
           NEW at \in Readings, Acquire(c, k, at)
    PROVE  DueInv'
<1> DEFINE tracked == Retained(at)
           s == Get(tracked, k, at)
           r == Refill(s, at)
           a == [r EXCEPT !.tokens = @ - Cost, !.inFlight = @ + 1]
<1>1. /\ now \in Nat /\ at \in Nat /\ at >= loopRead /\ at <= now /\ now <= at + MaxLag
      /\ loopRead' = at /\ UNCHANGED <<now, penalty>>
  <2>1. at >= loopRead /\ loopRead' = at /\ UNCHANGED <<now, penalty>>
    BY Zenon DEF Acquire, history
  <2> QED
    BY <2>1, LimiterAssumption DEF Readings, Larger, IInv, Shapes
<1>2. \/ /\ sources' = Stored(tracked, k, s) \/ sources' = Stored(tracked, k, r)
         /\ UNCHANGED <<meter, mark>>
      \/ /\ sources' = Stored(tracked, k, a)
         /\ meter' = [meter EXCEPT ![k] = Larger(0, @ - (at - mark[k])) + Cost]
         /\ mark' = [mark EXCEPT ![k] = at]
  BY Zenon DEF Acquire, history
<1>3. /\ Shaped(s) /\ s.lastRefill <= now /\ s.blockedTil <= penalty[k]
      /\ Covers(s, Leak(k, at), at)
  BY <1>1, AcquireReads, AcquireFinds
<1>4. Leak(k, at) \in Nat
  BY <1>1, LeakDown DEF IInv
<1> HIDE DEF s
<1>5. /\ Shaped(r) /\ r.lastRefill <= now /\ r.blockedTil <= penalty[k]
      /\ Covers(r, Leak(k, at), at)
  <2>1. Shaped(r) /\ Covers(r, Leak(k, at), at) /\ r.blockedTil = s.blockedTil
    BY <1>1, <1>3, <1>4, RefillShaped, RefillExact, RefillCovers
  <2>2. r.lastRefill = at \/ r.lastRefill = s.lastRefill
    BY <1>1, <1>3, RefillShaped DEF Larger
  <2> QED
    BY <1>1, <1>3, <2>1, <2>2
<1> HIDE DEF r
<1>6. /\ a.lastRefill = r.lastRefill /\ a.blockedTil = r.blockedTil
      /\ a.tokens = r.tokens - Cost
  BY <1>5 DEF Shaped
<1>7. Covers(a, Leak(k, at) + Cost, at)
  <2>1. r.lastRefill <= at + MaxLag /\ r.lastRefill \in Nat
    BY <1>1, <1>5, LimiterAssumption DEF Shaped
  <2> QED
    BY <1>1, <1>4, <1>5, <1>6, <2>1, AdmitCovers
<1> HIDE DEF a
<1>8. meter \in [Sources -> Nat] /\ mark \in [Sources -> Nat]
  BY DEF IInv, Shapes
<1>9. Owed(k)'
  <2>1. k \in DOMAIN sources'
    BY <1>2 DEF Stored
  <2>2. CASE UNCHANGED <<meter, mark>> /\ sources' = Stored(tracked, k, s)
    <3>1. sources'[k] = s /\ Leak(k, loopRead)' = Leak(k, at)
      BY <1>1, <2>2 DEF Stored, Leak
    <3> QED
      BY <1>1, <1>3, <3>1 DEF Owed, Covers
  <2>3. CASE UNCHANGED <<meter, mark>> /\ sources' = Stored(tracked, k, r)
    <3>1. sources'[k] = r /\ Leak(k, loopRead)' = Leak(k, at)
      BY <1>1, <2>3 DEF Stored, Leak
    <3> QED
      BY <1>1, <1>5, <3>1 DEF Owed, Covers
  <2>4. CASE /\ sources' = Stored(tracked, k, a)
             /\ meter' = [meter EXCEPT ![k] = Larger(0, @ - (at - mark[k])) + Cost]
             /\ mark' = [mark EXCEPT ![k] = at]
    <3>1. sources'[k] = a
      BY <2>4 DEF Stored
    <3>2. meter'[k] = Leak(k, at) + Cost /\ mark'[k] = at
      BY <1>8, <2>4 DEF Leak
    <3>3. Leak(k, loopRead)' = Leak(k, at) + Cost
      BY <1>1, <1>4, <3>2, LimiterAssumption DEF Leak, Larger
    <3> QED
      BY <1>1, <1>5, <1>6, <1>7, <3>1, <3>3 DEF Owed, Covers
  <2> QED
    BY <1>2, <2>2, <2>3, <2>4
<1>10. ASSUME NEW x \in Sources \ {k} PROVE Owed(x)'
  <2> SUFFICES ASSUME x \in DOMAIN sources' PROVE Owed(x)'
    BY DEF Owed
  <2>1. x \in DOMAIN sources /\ sources'[x] = sources[x]
    BY <1>2 DEF Stored, Retained
  <2>2. meter'[x] = meter[x] /\ mark'[x] = mark[x]
    BY <1>2, <1>8
  <2>3. Leak(x, loopRead)' = Leak(x, at)
    BY <1>1, <2>2 DEF Leak
  <2>4. Owed(x) /\ Shaped(sources[x])
    BY <2>1 DEF DueInv, IInv, Shapes
  <2>5. Covers(sources[x], Leak(x, at), at)
    BY <1>1, <2>1, <2>4, WaitCovers DEF Owed, IInv
  <2> QED
    BY <1>1, <2>1, <2>3, <2>4, <2>5 DEF Owed, Covers
<1> QED
  BY <1>9, <1>10 DEF DueInv

\* The clock, the release closure and the steps that leave the limiter alone.
LEMMA KeptDueInv ==
    ASSUME IInv, DueInv, now' >= now, now' \in Nat,
           UNCHANGED <<loopRead, meter, mark, penalty>>,
           sources' = sources \/ \E k \in Sources : Release(k)
    PROVE  DueInv'
<1> SUFFICES ASSUME NEW k \in Sources, k \in DOMAIN sources' PROVE Owed(k)'
  BY DEF DueInv, Owed
<1>1. /\ k \in DOMAIN sources
      /\ sources'[k] = sources[k] \/ sources'[k] = [sources[k] EXCEPT !.inFlight = @ - 1]
  BY DEF Release
<1>2. Shaped(sources[k]) /\ Owed(k) /\ now \in Nat
  BY <1>1 DEF IInv, Shapes, DueInv
<1>3. /\ sources'[k].tokens = sources[k].tokens
      /\ sources'[k].lastRefill = sources[k].lastRefill
      /\ sources'[k].blockedTil = sources[k].blockedTil
  BY <1>1, <1>2 DEF Shaped
<1>4. Leak(k, loopRead)' = Leak(k, loopRead)
  BY DEF Leak
<1>5. sources[k].lastRefill \in Nat
  BY <1>2 DEF Shaped
<1> QED
  BY <1>1, <1>2, <1>3, <1>4, <1>5 DEF Owed, Covers

\* Recording an outcome spends nothing; a source met anew is full, and a block
\* that starts is earned (RecordFailure, RecordSuccess).
LEMMA OutcomeDueInv ==
    ASSUME IInv, BlockInv, DueInv, NEW k \in Sources, NEW at \in Readings,
           NEW r, Keeps(r, Get(DOMAIN sources, k, at)),
           sources' = Stored(DOMAIN sources, k, r),
           penalty' \in [Sources -> Nat], \A x \in Sources : penalty'[x] >= penalty[x],
           r.blockedTil <= penalty'[k] \/ r.blockedTil = Get(DOMAIN sources, k, at).blockedTil,
           UNCHANGED <<now, loopRead, meter, mark>>
    PROVE  DueInv'
<1> DEFINE s == Get(DOMAIN sources, k, at)
<1>1. at \in Nat /\ at <= now /\ now \in Nat /\ penalty \in [Sources -> Nat]
  BY LimiterAssumption DEF Readings, Larger, IInv, Shapes, BlockInv
<1>2. \A x : Leak(x, loopRead)' = Leak(x, loopRead)
  BY DEF Leak
<1>3. ASSUME NEW x \in Sources \ {k} PROVE Owed(x)'
  <2> SUFFICES ASSUME x \in DOMAIN sources' PROVE Owed(x)'
    BY DEF Owed
  <2>1. x \in DOMAIN sources /\ sources'[x] = sources[x]
    BY DEF Stored
  <2>2. Owed(x) /\ sources[x].blockedTil \in Nat
    BY <2>1 DEF DueInv, IInv, Shapes, Shaped
  <2> QED
    BY <1>1, <1>2, <2>1, <2>2 DEF Owed, Covers
<1>4. Owed(k)'
  <2>1. k \in DOMAIN sources' /\ sources'[k] = r
    BY DEF Stored
  <2>2. /\ Shaped(r) /\ r.tokens = s.tokens /\ r.lastRefill = s.lastRefill
    BY DEF Keeps
  <2>3. CASE k \in DOMAIN sources
    <3>1. Owed(k) /\ Shaped(sources[k])
      BY <2>3 DEF DueInv, IInv, Shapes
    <3>2. s = [sources[k] EXCEPT !.lastSeen = at]
      BY <2>3 DEF Get
    <3>3. /\ s.tokens = sources[k].tokens /\ s.lastRefill = sources[k].lastRefill
          /\ s.blockedTil = sources[k].blockedTil /\ s.blockedTil \in Nat
      BY <3>1, <3>2 DEF Shaped
    <3>4. s.blockedTil <= penalty'[k]
      BY <1>1, <2>3, <3>1, <3>3 DEF Owed
    <3> QED
      BY <1>2, <2>1, <2>2, <2>3, <3>1, <3>3, <3>4 DEF Owed, Covers
  <2>4. CASE k \notin DOMAIN sources
    <3>1. s = [NewSource(at) EXCEPT !.lastSeen = at]
      BY <2>4 DEF Get
    <3>2. s.tokens = Burst /\ s.lastRefill = at /\ s.blockedTil = 0
      BY <3>1 DEF NewSource
    <3>3. penalty'[k] >= 0
      OBVIOUS
    <3> QED
      BY <1>1, <1>2, <2>1, <2>2, <3>2, <3>3 DEF Owed, Covers
  <2> QED
    BY <2>3, <2>4
<1> QED
  BY <1>3, <1>4 DEF DueInv

\* A failure: a block that starts is entered as earned.
LEMMA FailureDueInv ==
    ASSUME IInv, BlockInv, DueInv, NEW c \in Conns, NEW at \in Readings,
           RecordFailure(c, at)
    PROVE  DueInv'
<1>0. PICK k \in Sources : k = from[c]
  BY DEF IInv, Shapes
<1> DEFINE b == Get(DOMAIN sources, k, at)
           failures == WithFailure(b.failures, at)
           til == at + BlockDuration
           s == Recorded(b, at)
<1>1. at \in Nat /\ til \in Nat /\ penalty \in [Sources -> Nat]
  BY LimiterAssumption DEF Readings, Larger, IInv, Shapes, BlockInv
<1>2. Shaped(b)
  BY <1>1, GetShaped DEF IInv
<1>3. Keeps(s, b)
  BY <1>1, <1>2, RecordedKeeps
<1>4. /\ sources' = Stored(DOMAIN sources, k, s)
      /\ IF s.failures = {}
         THEN penalty' = [penalty EXCEPT ![k] = Larger(@, til)]
         ELSE UNCHANGED penalty
      /\ UNCHANGED <<now, loopRead, meter, mark>>
  BY <1>0, Zenon DEF RecordFailure
<1>5. \/ s = [b EXCEPT !.blockedTil = til, !.failures = {}]
      \/ s = [b EXCEPT !.failures = failures]
  BY Zenon DEF Recorded
<1> HIDE DEF b, failures, til, s
<1>6. \/ s.failures = {} /\ s.blockedTil = til
      \/ s.blockedTil = b.blockedTil
  BY <1>2, <1>5 DEF Shaped
<1>7. /\ penalty' \in [Sources -> Nat]
      /\ \A x \in Sources : penalty'[x] >= penalty[x]
      /\ s.failures = {} => penalty'[k] >= til
  BY <1>1, <1>4 DEF Larger
<1>8. s.blockedTil <= penalty'[k] \/ s.blockedTil = b.blockedTil
  BY <1>1, <1>6, <1>7
<1> QED
  BY <1>3, <1>4, <1>7, <1>8, OutcomeDueInv DEF b

\* A success.
LEMMA SuccessDueInv ==
    ASSUME IInv, BlockInv, DueInv, NEW c \in Conns, NEW at \in Readings,
           RecordSuccess(c, at)
    PROVE  DueInv'
<1>0. PICK k \in Sources : k = from[c]
  BY DEF IInv, Shapes
<1> DEFINE b == Get(DOMAIN sources, k, at)
           none == {}
           s == [b EXCEPT !.failures = none]
<1>1. at \in Nat /\ 0 \in Nat /\ penalty \in [Sources -> Nat]
  BY LimiterAssumption DEF Readings, Larger, IInv, Shapes, BlockInv
<1>2. Shaped(b)
  BY <1>1, GetShaped DEF IInv
<1>3. /\ sources' = Stored(DOMAIN sources, k, s)
      /\ UNCHANGED <<now, loopRead, meter, mark, penalty>>
  BY <1>0, Zenon DEF RecordSuccess
<1> HIDE DEF b, none
<1>4. Keeps(s, b)
  BY <1>1, <1>2, OutcomeKeeps, Zenon
<1>5. s.blockedTil = b.blockedTil
  BY <1>2 DEF Shaped
<1> HIDE DEF s
<1>6. \A x \in Sources : penalty'[x] >= penalty[x]
  BY <1>1, <1>3
<1> QED
  BY <1>1, <1>3, <1>4, <1>5, <1>6, OutcomeDueInv DEF b

\* Every step preserves the third invariant.
LEMMA NextDueInv == IInv /\ BlockInv /\ DueInv /\ [Next]_vars => DueInv'
<1> SUFFICES ASSUME IInv, BlockInv, DueInv, [Next]_vars PROVE DueInv'
  OBVIOUS
<1>0. now \in Nat
  BY DEF IInv, Shapes
<1>1. CASE UNCHANGED vars
  BY <1>0, <1>1, KeptDueInv DEF vars, codeVars, history
<1>2. CASE Tick
  BY <1>0, <1>2, KeptDueInv DEF Tick
<1>3. ASSUME NEW c \in Conns, NEW k \in Sources, NEW at \in Readings, Acquire(c, k, at)
      PROVE  DueInv'
  BY <1>3, AcquireDueInv
<1>4. ASSUME NEW c \in Conns,
             \/ TakeSlot(c) \/ SlotsFull(c) \/ FinishHandshake(c)
             \/ RecheckDrop(c) \/ CloseTunnel(c) \/ FreeSlot(c)
      PROVE  DueInv'
  <2>1. from[c] \in Sources
    BY DEF IInv, Shapes
  <2>2. /\ UNCHANGED <<now, loopRead, meter, mark, penalty>>
        /\ sources' = sources \/ Release(from[c])
    BY <1>4, Zenon
       DEF TakeSlot, SlotsFull, FinishHandshake, RecheckDrop, CloseTunnel, FreeSlot, history
  <2> QED
    BY <1>0, <2>1, <2>2, KeptDueInv
<1>5. ASSUME NEW c \in Conns, NEW at \in Readings, RecordFailure(c, at) PROVE DueInv'
  BY <1>5, FailureDueInv
<1>6. ASSUME NEW c \in Conns, NEW at \in Readings, RecordSuccess(c, at) PROVE DueInv'
  BY <1>6, SuccessDueInv
<1> QED
  BY <1>1, <1>2, <1>3, <1>4, <1>5, <1>6 DEF Next, Handle

\* A source that keeps to its limits is refused by none of Acquire's three
\* checks, whatever was released, forgotten and recorded out of clock order
\* before (ratelimit.go:149, 153, 166).
THEOREM RefusalsAreDue == Spec => []NoUndueRefusal
<1>1. Init => DueInv
  BY DEF Init, DueInv, Owed
<1>2. ASSUME IInv, BlockInv, DueInv PROVE NoUndueRefusal
  <2> SUFFICES ASSUME NEW k \in Sources, NEW at \in Readings, at >= loopRead, Deserves(k, at)
               PROVE  LetsIn(Get(Retained(at), k, at), at)
    BY DEF NoUndueRefusal
  <2> DEFINE s == Get(Retained(at), k, at)
  <2>1. at \in Nat /\ at <= now /\ penalty[k] \in Nat
    BY <1>2, LimiterAssumption DEF Readings, Larger, IInv, Shapes, BlockInv
  <2>2. Shaped(s) /\ s.inFlight = Cardinality(Handshakes(k))
    BY <1>2, <2>1, AcquireReads
  <2>3. s.blockedTil <= penalty[k] /\ Covers(s, Leak(k, at), at)
    BY <1>2, <2>1, AcquireFinds
  <2>4. Leak(k, at) \in Nat
    BY <1>2, <2>1, LeakDown DEF IInv
  <2>5. at >= penalty[k] /\ s.inFlight < MaxConcurrent
          /\ Leak(k, at) + Cost <= Burst - MaxLag
    BY <2>2 DEF Deserves, Leak
  <2> HIDE DEF s
  <2>6. at >= s.blockedTil /\ s.tokens \in 0..Burst /\ s.lastRefill \in Nat
    BY <2>1, <2>2, <2>3, <2>5 DEF Shaped
  <2>7. Refill(s, at).tokens >= Cost
    <3>1. /\ at > s.lastRefill =>
               Refill(s, at).tokens = Smaller(s.tokens + (at - s.lastRefill), Burst)
          /\ at <= s.lastRefill => Refill(s, at).tokens = s.tokens
      BY <2>1, <2>2, RefillExact
    <3>2. at > s.lastRefill \/ at <= s.lastRefill
      BY <2>1, <2>6
    <3> QED
      BY <2>1, <2>3, <2>4, <2>5, <2>6, <3>1, <3>2, LimiterAssumption DEF Covers, Smaller
  <2> QED
    BY <2>5, <2>6, <2>7 DEF LetsIn, s
<1>3. IInv /\ BlockInv /\ DueInv => NoUndueRefusal
  BY <1>2
<1>4. DueInv /\ (IInv /\ BlockInv) /\ [Next]_vars => DueInv'
  BY NextDueInv
<1> QED
  BY <1>1, <1>3, <1>4, BlockInvariance, PTL DEF Spec

-----------------------------------------------------------------------------
(***************************************************************************)
(* What the meter means.  A watcher beside the limiter picks any time t    *)
(* and counts, from then on, what a source is admitted, by the clock that  *)
(* the accept loop reads.  It may begin anew whenever it likes, and reads  *)
(* everything and changes nothing: Spec with two more history variables.   *)
(***************************************************************************)

VARIABLES
    since,      \* since[k]: when the watch over source k began
    spent       \* spent[k]: units of the admissions of k since then

watched == <<vars, since, spent>>

\* A step that admits a connection of k.
LetIn(k) ==
    \E c \in Conns : phase[c] = "none" /\ phase'[c] = "admitted" /\ from'[c] = k

Observe ==
    /\ Next
    /\ since' = since
    /\ spent' = [k \in Sources |->
         IF LetIn(k) /\ loopRead' >= since[k] THEN spent[k] + Cost ELSE spent[k]]

Begin(k, t) ==
    /\ t >= loopRead
    /\ since' = [since EXCEPT ![k] = t]
    /\ spent' = [spent EXCEPT ![k] = 0]
    /\ UNCHANGED vars

WatchedSpec ==
    /\ Init
    /\ since = [k \in Sources |-> 0]
    /\ spent = [k \in Sources |-> 0]
    /\ [][Observe \/ \E k \in Sources, t \in Nat : Begin(k, t)]_watched

\* What was admitted since t has left the meter or passed with the time.
Watched(k) ==
    /\ since[k] \in Nat
    /\ spent[k] \in Nat
    /\ spent[k] # 0 => /\ since[k] <= loopRead
                       /\ spent[k] <= Leak(k, loopRead) + (loopRead - since[k])

WatchInv ==
    /\ since \in [Sources -> Nat]
    /\ spent \in [Sources -> Nat]
    /\ \A k \in Sources : Watched(k)

\* The watcher only watches.
LEMMA WatchesOnly == WatchedSpec => Spec
<1>1. [Observe \/ \E k \in Sources, t \in Nat : Begin(k, t)]_watched => [Next]_vars
  BY DEF Observe, Begin, watched
<1> QED
  BY <1>1, PTL DEF WatchedSpec, Spec

\* The meter runs down by no more than the time that passes.
LEMMA LeakSlow ==
    ASSUME Shapes, NEW k \in Sources, NEW at \in Nat, at >= loopRead
    PROVE  Leak(k, loopRead) <= Leak(k, at) + (at - loopRead)
<1>1. meter[k] \in Nat /\ mark[k] \in Nat /\ loopRead \in Nat
  BY DEF Shapes
<1> QED
  BY <1>1 DEF Leak, Larger

\* Only Acquire admits, or reads the accept loop's clock.
LEMMA OnlyAcquire ==
    ASSUME IInv, [Next]_vars
    PROVE  \/ \E c \in Conns, k \in Sources, at \in Readings : Acquire(c, k, at)
           \/ /\ UNCHANGED <<loopRead, meter, mark>>
              /\ \A k \in Sources : ~LetIn(k)
<1>1. phase \in [Conns -> Phases]
  BY DEF IInv, Shapes
<1>2. CASE Tick \/ UNCHANGED vars
  <2>1. UNCHANGED <<loopRead, meter, mark, phase>>
    BY <1>2, Zenon DEF Tick, vars, codeVars, history
  <2> QED
    BY <2>1 DEF LetIn
<1>3. ASSUME NEW c \in Conns, TakeSlot(c) \/ SlotsFull(c) \/ Handle(c)
      PROVE  UNCHANGED <<loopRead, meter, mark>> /\ \A k \in Sources : ~LetIn(k)
  <2>1. /\ UNCHANGED <<loopRead, meter, mark>>
        /\ \E p \in Phases \ {"admitted"} : phase' = [phase EXCEPT ![c] = p]
    <3>1. CASE TakeSlot(c) \/ SlotsFull(c) \/ RecheckDrop(c) \/ CloseTunnel(c) \/ FreeSlot(c)
      BY <3>1 DEF TakeSlot, SlotsFull, RecheckDrop, CloseTunnel, FreeSlot, history, Phases
    <3>2. CASE FinishHandshake(c)
      BY <3>2 DEF FinishHandshake, history, Phases
    <3>3. ASSUME NEW at \in Readings, RecordFailure(c, at) \/ RecordSuccess(c, at)
          PROVE  /\ UNCHANGED <<loopRead, meter, mark>>
                 /\ \E p \in {"done", "tunnel"} : phase' = [phase EXCEPT ![c] = p]
      BY <3>3, Zenon DEF RecordFailure, RecordSuccess
    <3> QED
      BY <1>3, <3>1, <3>2, <3>3 DEF Handle, Phases
  <2>2. \A x \in Conns : phase'[x] = "admitted" => phase[x] = "admitted"
    BY <1>1, <2>1
  <2> QED
    BY <2>1, <2>2 DEF LetIn
<1> QED
  BY <1>2, <1>3 DEF Next

\* What Acquire does to the meters.
LEMMA AcquireMeters ==
    ASSUME IInv, NEW c \in Conns, NEW k \in Sources, NEW at \in Readings, Acquire(c, k, at)
    PROVE  /\ at \in Nat /\ at >= loopRead /\ loopRead' = at
           /\ \A j \in Sources \ {k} :
                ~LetIn(j) /\ meter'[j] = meter[j] /\ mark'[j] = mark[j]
           /\ \/ ~LetIn(k) /\ meter'[k] = meter[k] /\ mark'[k] = mark[k]
              \/ LetIn(k) /\ meter'[k] = Leak(k, at) + Cost /\ mark'[k] = at
<1>1. /\ phase \in [Conns -> Phases] /\ from \in [Conns -> Sources]
      /\ meter \in [Sources -> Nat] /\ mark \in [Sources -> Nat]
  BY DEF IInv, Shapes
<1>2. at \in Nat
  BY LimiterAssumption DEF Readings, Larger, IInv, Shapes
<1>3. phase[c] = "none" /\ at >= loopRead /\ loopRead' = at
  BY DEF Acquire
<1>4. \/ UNCHANGED <<phase, meter, mark>>
      \/ /\ phase' = [phase EXCEPT ![c] = "admitted"]
         /\ from' = [from EXCEPT ![c] = k]
         /\ meter' = [meter EXCEPT ![k] = Larger(0, meter[k] - (at - mark[k])) + Cost]
         /\ mark' = [mark EXCEPT ![k] = at]
  BY Zenon DEF Acquire, history
<1>5. CASE UNCHANGED <<phase, meter, mark>>
  BY <1>2, <1>3, <1>5 DEF LetIn
<1>6. CASE /\ phase' = [phase EXCEPT ![c] = "admitted"]
           /\ from' = [from EXCEPT ![c] = k]
           /\ meter' = [meter EXCEPT ![k] = Larger(0, meter[k] - (at - mark[k])) + Cost]
           /\ mark' = [mark EXCEPT ![k] = at]
  <2>1. \A x \in Conns : phase[x] = "none" /\ phase'[x] = "admitted" => x = c
    BY <1>1, <1>6
  <2>2. from'[c] = k /\ phase'[c] = "admitted"
    BY <1>1, <1>6
  <2>3. LetIn(k) /\ \A j \in Sources \ {k} : ~LetIn(j)
    BY <1>3, <2>1, <2>2 DEF LetIn
  <2>4. /\ meter'[k] = Leak(k, at) + Cost /\ mark'[k] = at
        /\ \A j \in Sources \ {k} : meter'[j] = meter[j] /\ mark'[j] = mark[j]
    BY <1>1, <1>6 DEF Leak
  <2> QED
    BY <1>2, <1>3, <2>3, <2>4
<1> QED
  BY <1>4, <1>5, <1>6

LEMMA ObserveKeeps ==
    ASSUME IInv, WatchInv, Observe
    PROVE  WatchInv'
<1>1. /\ since' = since
      /\ spent' = [k \in Sources |->
           IF LetIn(k) /\ loopRead' >= since[k] THEN spent[k] + Cost ELSE spent[k]]
  BY DEF Observe
<1>2. since' \in [Sources -> Nat] /\ spent' \in [Sources -> Nat]
  BY <1>1, LimiterAssumption DEF WatchInv
<1>3. ASSUME NEW j \in Sources PROVE Watched(j)'
  <2>1. Watched(j) /\ loopRead \in Nat /\ meter[j] \in Nat /\ mark[j] \in Nat
    BY DEF WatchInv, IInv, Shapes
  <2>2. since'[j] = since[j]
    BY <1>1
  <2>3. spent'[j] = IF LetIn(j) /\ loopRead' >= since[j] THEN spent[j] + Cost ELSE spent[j]
    BY <1>1
  <2>4. CASE UNCHANGED <<loopRead, meter, mark>> /\ ~LetIn(j)
    BY <2>1, <2>2, <2>3, <2>4 DEF Watched, Leak
  <2>5. ASSUME NEW c \in Conns, NEW k \in Sources, NEW at \in Readings, Acquire(c, k, at)
        PROVE  Watched(j)'
    <3>1. at \in Nat /\ at >= loopRead /\ loopRead' = at
      BY <2>5, AcquireMeters
    <3>2. Leak(j, loopRead) <= Leak(j, at) + (at - loopRead)
      BY <3>1, LeakSlow DEF IInv
    <3>3. Leak(j, at) \in Nat /\ Leak(j, loopRead) \in Nat
      BY <2>1, <3>1 DEF Leak, Larger
    <3>4. \/ ~LetIn(j) /\ meter'[j] = meter[j] /\ mark'[j] = mark[j]
          \/ LetIn(j) /\ meter'[j] = Leak(j, at) + Cost /\ mark'[j] = at
      BY <2>5, AcquireMeters
    <3>5. CASE ~LetIn(j) /\ meter'[j] = meter[j] /\ mark'[j] = mark[j]
      <4>1. Leak(j, loopRead)' = Leak(j, at)
        BY <3>1, <3>5 DEF Leak
      <4> QED
        BY <2>1, <2>2, <2>3, <3>1, <3>2, <3>3, <3>5, <4>1 DEF Watched
    <3>6. CASE LetIn(j) /\ meter'[j] = Leak(j, at) + Cost /\ mark'[j] = at
      <4>1. Leak(j, loopRead)' = Leak(j, at) + Cost
        <5>1. Larger(0, (Leak(j, at) + Cost) - (at - at)) = Leak(j, at) + Cost
          BY <3>1, <3>3, LimiterAssumption DEF Larger
        <5> QED
          BY <3>1, <3>6, <5>1 DEF Leak
      <4> QED
        BY <2>1, <2>2, <2>3, <3>1, <3>2, <3>3, <3>6, <4>1, LimiterAssumption DEF Watched
    <3> QED
      BY <3>4, <3>5, <3>6
  <2> QED
    BY <2>4, <2>5, OnlyAcquire DEF Observe
<1> QED
  BY <1>2, <1>3 DEF WatchInv

\* Whenever a watch begins, a source is admitted from then on at most its burst
\* and what the sustained rate allows for the time that has passed, whatever is
\* evicted, fails or is read late meanwhile: so much RateBounded is worth
\* (ratelimit.go:157-168, 233).
THEOREM RateOverAnyWindow ==
    WatchedSpec =>
        [](\A k \in Sources : spent[k] <= Burst + Larger(0, loopRead - since[k]))
<1> DEFINE Step == Observe \/ \E k \in Sources, t \in Nat : Begin(k, t)
           Bounded == \A k \in Sources : spent[k] <= Burst + Larger(0, loopRead - since[k])
<1>1. Init /\ since = [k \in Sources |-> 0] /\ spent = [k \in Sources |-> 0] => WatchInv
  BY DEF WatchInv, Watched
<1>2. IInv /\ WatchInv /\ [Step]_watched => WatchInv'
  <2> SUFFICES ASSUME IInv, WatchInv, [Step]_watched PROVE WatchInv'
    OBVIOUS
  <2>1. ASSUME NEW k \in Sources, NEW t \in Nat, Begin(k, t) PROVE WatchInv'
    BY <2>1 DEF WatchInv, Begin, Watched, Leak, vars, codeVars, history
  <2>2. CASE UNCHANGED watched
    BY <2>2 DEF WatchInv, watched, Watched, Leak, vars, codeVars, history
  <2> QED
    BY <2>1, <2>2, ObserveKeeps
<1>3. IInv /\ WatchInv => Bounded
  <2> SUFFICES ASSUME IInv, WatchInv, NEW k \in Sources
               PROVE  spent[k] <= Burst + Larger(0, loopRead - since[k])
    OBVIOUS
  <2>1. /\ meter[k] \in Nat /\ mark[k] \in Nat /\ loopRead \in Nat
        /\ meter[k] <= Burst /\ mark[k] <= loopRead
    BY DEF IInv, Shapes, RateInv, Budget
  <2>2. Leak(k, loopRead) <= Burst
    BY <2>1, LimiterAssumption DEF Leak, Larger
  <2> QED
    BY <2>1, <2>2, LimiterAssumption DEF WatchInv, Watched, Leak, Larger
<1> HIDE DEF Bounded
<1>4. WatchedSpec => []IInv
  BY WatchesOnly, Invariance, PTL
<1>5. WatchedSpec => []Bounded
  <2> HIDE DEF Step
  <2>1. WatchedSpec => Init /\ since = [k \in Sources |-> 0] /\ spent = [k \in Sources |-> 0]
                        /\ [][Step]_watched
    BY DEF WatchedSpec, Step
  <2> QED
    BY <1>1, <1>2, <1>3, <1>4, <2>1, PTL
<1> QED
  BY <1>5 DEF Bounded
=============================================================================
