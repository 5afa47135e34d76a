-------------------------- MODULE JumpAccessProofs --------------------------
(***************************************************************************)
(* Theorems about the SSH front, for every configuration that validates    *)
(* and any number of connections and channels: keys are required where     *)
(* they are configured, streams run only where they were granted, slots    *)
(* count the forward goroutines, the second check turns away nobody who    *)
(* proved a key, and the deadline cuts no tunnel.                          *)
(***************************************************************************)
EXTENDS JumpAccess, FiniteSetTheorems, TLAPS

\* What the proof and the phase of a connection say of its user.
Admitted(c) ==
    /\ proof[c] # NoKey => Authorize(user[c], proof[c])
    /\ phase[c] = "tunnel" => proof[c] # NoKey \/ IsOpenJumpUser(user[c])
    /\ phase[c] \in {"none", "auth"} => proof[c] = NoKey
    /\ phase[c] = "tunnel" => deadline[c] = "off"

\* What a channel's pc says of its connection, its destination and its stream.
Checked(c, h) ==
    /\ channel[c][h] # "none" => phase[c] \in {"tunnel", "closing"}
    /\ channel[c][h] \in {"opening", "streaming"} =>
        /\ BackendByName(asked[c][h]) # NoBackend
        /\ Granted(user[c], asked[c][h])
    /\ channel[c][h] = "streaming" => reached[c][h] = BackendByName(asked[c][h])

IInv ==
    /\ TypeOK
    /\ SlotsMatchForwards
    /\ \A c \in Conns : Admitted(c)
    /\ \A c \in Conns, h \in Channels : Checked(c, h)

-----------------------------------------------------------------------------
(***************************************************************************)
(* Names and slots.                                                        *)
(***************************************************************************)

\* A name that resolves is the id or an alias of the backend it resolves to.
LEMMA Resolved ==
  ASSUME NEW n, BackendByName(n) # NoBackend
  PROVE  /\ BackendByName(n) \in Backends
         /\ n = BackendByName(n) \/ n \in Aliases[BackendByName(n)]
<1>1. CASE n \in Backends
  BY <1>1 DEF BackendByName
<1>2. CASE n \notin Backends
  <2>1. \E b \in Backends : n \in Aliases[b]
    BY <1>2 DEF BackendByName
  <2>2. BackendByName(n) = CHOOSE b \in Backends : n \in Aliases[b]
    BY <1>2, <2>1 DEF BackendByName
  <2> QED
    BY <2>1, <2>2
<1> QED
  BY <1>1, <1>2

Forwards(c) == {h \in Channels : channel[c][h] \in Forwarding}

LEMMA ForwardsFinite ==
  \A c : IsFiniteSet(Forwards(c)) /\ Cardinality(Forwards(c)) \in Nat
BY BoundsAssumption, FS_Subset, FS_CardinalityType DEF Forwards

\* A step that turns no channel into a forwarding one, or back, keeps the
\* count.
LEMMA CountKept ==
  ASSUME SlotsMatchForwards, slots' = slots,
         \A c \in Conns, h \in Channels :
            channel'[c][h] \in Forwarding <=> channel[c][h] \in Forwarding
  PROVE  SlotsMatchForwards'
<1>1. \A c \in Conns : Forwards(c)' = Forwards(c)
  BY DEF Forwards
<1> QED
  BY <1>1 DEF SlotsMatchForwards, Forwards

-----------------------------------------------------------------------------
(***************************************************************************)
(* The invariant is inductive.                                             *)
(***************************************************************************)

LEMMA InitHolds == Init => IInv
<1> SUFFICES ASSUME Init PROVE IInv
  OBVIOUS
<1>1. TypeOK
  BY BoundsAssumption DEF Init, TypeOK, Phases, ChannelPcs
<1>2. SlotsMatchForwards
  <2>1. \A c \in Conns : {h \in Channels : channel[c][h] \in Forwarding} = {}
    BY DEF Init, Forwarding
  <2> QED
    BY <2>1, FS_EmptySet DEF SlotsMatchForwards, Init
<1>3. \A c \in Conns : Admitted(c)
  BY DEF Init, Admitted
<1>4. \A c \in Conns, h \in Channels : Checked(c, h)
  BY DEF Init, Checked
<1> QED
  BY <1>1, <1>2, <1>3, <1>4 DEF IInv

\* What closes a connection.
Ending(c) == GiveUp(c) \/ TooManyTries(c) \/ TimeOut(c) \/ Disconnect(c)

\* The handshake, and what ends a connection: no channel is touched.
LEMMA HandshakeKeeps ==
  ASSUME IInv, NEW c \in Conns, Handshake(c) \/ Disconnect(c) \/ Gone(c)
  PROVE  IInv'
<1>1. UNCHANGED channelVars
  BY DEF Handshake, Connect, Trying, TryNone, OfferKey, Ending, GiveUp, TooManyTries,
     TimeOut, Close, DeadlinePasses, Recheck, Disconnect, Gone
<1>2. SlotsMatchForwards'
  BY <1>1, CountKept DEF IInv, channelVars
<1>3. CASE \E u \in Users, ks \in SUBSET Keys : Connect(c, u, ks)
  <2> PICK u \in Users, ks \in SUBSET Keys : Connect(c, u, ks)
    BY <1>3
  <2>1. TypeOK'
    BY DEF Connect, channelVars, IInv, TypeOK, Phases
  <2>2. proof[c] = NoKey
    BY DEF Connect, IInv, Admitted
  <2> QED
    BY <1>2, <2>1, <2>2 DEF Connect, channelVars, IInv, TypeOK, Admitted, Checked
<1>4. CASE TryNone(c) \/ Ending(c)
  <2>1. /\ UNCHANGED <<user, keys, tried, proof, deadline, channelVars, online>>
        /\ phase[c] \in {"auth", "tunnel"}
        /\ \/ phase' = [phase EXCEPT ![c] = "closing"]
           \/ phase[c] = "auth" /\ phase' = [phase EXCEPT ![c] = "passed"]
    BY <1>4 DEF TryNone, Trying, Ending, GiveUp, TooManyTries, TimeOut, Disconnect, Close
  <2>2. TypeOK'
    BY <2>1 DEF channelVars, IInv, TypeOK, Phases
  <2>3. \A d \in Conns : Admitted(d)'
    BY <2>1 DEF IInv, TypeOK, Admitted
  <2>4. \A d \in Conns, h \in Channels : Checked(d, h)'
    BY <2>1 DEF channelVars, IInv, TypeOK, Checked
  <2> QED
    BY <1>2, <2>2, <2>3, <2>4 DEF IInv
<1>5. CASE \E k \in Keys : OfferKey(c, k)
  <2> PICK k \in Keys : OfferKey(c, k)
    BY <1>5
  <2>0. phase[c] = "auth"
    BY DEF OfferKey, Trying
  <2>1. CASE Authorize(user[c], k)
    <3>1. /\ phase' = [phase EXCEPT ![c] = "passed"]
          /\ proof' = [proof EXCEPT ![c] = k]
          /\ UNCHANGED <<user, keys, tried, deadline, channelVars, online>>
      BY <2>1 DEF OfferKey
    <3>2. TypeOK'
      BY <3>1 DEF channelVars, IInv, TypeOK, Phases
    <3>3. \A d \in Conns : Admitted(d)'
      BY <2>1, <3>1 DEF IInv, TypeOK, Admitted
    <3>4. \A d \in Conns, h \in Channels : Checked(d, h)'
      BY <2>0, <3>1 DEF channelVars, IInv, TypeOK, Checked
    <3> QED
      BY <1>2, <3>2, <3>3, <3>4 DEF IInv
  <2>2. CASE ~ Authorize(user[c], k)
    <3>1. TypeOK'
      <4>1. tried' = [tried EXCEPT ![c] = tried[c] \cup {k}]
        BY <2>0, <2>2 DEF OfferKey
      <4>2. tried' \in [Conns -> SUBSET Keys]
        BY <4>1 DEF IInv, TypeOK
      <4> QED
        BY <2>0, <2>2, <4>2 DEF OfferKey, channelVars, IInv, TypeOK
    <3> QED
      BY <1>2, <2>0, <2>2, <3>1 DEF OfferKey, channelVars, IInv, Admitted, Checked
  <2> QED
    BY <2>1, <2>2
<1>6. CASE Recheck(c)
  <2>1. TypeOK'
    BY <1>6 DEF Recheck, channelVars, IInv, TypeOK, Phases
  <2>2. ASSUME NEW d \in Conns PROVE Admitted(d)'
    <3>1. CASE d # c
      BY <1>6, <3>1 DEF Recheck, IInv, TypeOK, Admitted
    <3>2. CASE d = c
      <4>1. UNCHANGED <<user, proof>>
        BY <1>6 DEF Recheck
      <4>2. phase'[c] # "dropped" =>
                /\ proof[c] # NoKey \/ IsOpenJumpUser(user[c])
                /\ deadline'[c] = "off"
        BY <1>6 DEF Recheck, IInv, TypeOK
      <4>3. phase'[c] \in {"dropped", "tunnel", "closing"}
        BY <1>6 DEF Recheck, IInv, TypeOK
      <4> QED
        BY <3>2, <4>1, <4>2, <4>3 DEF IInv, Admitted, IsOpenJumpUser
    <3> QED
      BY <3>1, <3>2
  <2>3. \A d \in Conns, h \in Channels : Checked(d, h)'
    <3>1. /\ UNCHANGED <<user, channel, asked, reached>>
          /\ \A d \in Conns : d # c => phase'[d] = phase[d]
          /\ phase[c] = "passed"
      BY <1>6 DEF Recheck, channelVars, IInv, TypeOK
    <3> QED
      BY <3>1 DEF IInv, Checked
  <2> QED
    BY <1>2, <2>1, <2>2, <2>3 DEF IInv
<1>7. CASE Gone(c)
  <2>1. TypeOK'
    BY <1>7 DEF Gone, channelVars, IInv, TypeOK, Phases
  <2> QED
    BY <1>2, <1>7, <2>1 DEF Gone, channelVars, IInv, TypeOK, Admitted, Checked
<1>8. CASE DeadlinePasses(c)
  <2>1. TypeOK'
    BY <1>8 DEF DeadlinePasses, channelVars, IInv, TypeOK
  <2>2. phase[c] # "tunnel"
    BY <1>8 DEF DeadlinePasses, IInv, Admitted
  <2> QED
    BY <1>2, <1>8, <2>1, <2>2 DEF DeadlinePasses, channelVars, IInv, TypeOK, Admitted, Checked
<1> QED
  BY <1>3, <1>4, <1>5, <1>6, <1>7, <1>8 DEF Handshake, Ending

\* A channel's own steps.
LEMMA ChannelKeeps ==
  ASSUME IInv, NEW c \in Conns, NEW h \in Channels,
         \/ \E n \in Names : NewChannel(c, h, n)
         \/ Forward(c, h)
  PROVE  IInv'
<1>1. CASE \E n \in Names : NewChannel(c, h, n)
  <2> PICK n \in Names : NewChannel(c, h, n)
    BY <1>1
  <2>1. TypeOK'
    BY BoundsAssumption DEF NewChannel, connVars, IInv, TypeOK, ChannelPcs
  <2>2. SlotsMatchForwards'
    <3>1. /\ h \notin Forwards(c)
          /\ Forwards(c)' = Forwards(c) \cup {h}
          /\ \A d \in Conns : d # c => Forwards(d)' = Forwards(d)
      BY DEF NewChannel, connVars, IInv, TypeOK, Forwards, Forwarding
    <3>2. Cardinality(Forwards(c)') = Cardinality(Forwards(c)) + 1
      BY <3>1, ForwardsFinite, FS_AddElement
    <3> QED
      BY <3>1, <3>2, ForwardsFinite
      DEF NewChannel, IInv, TypeOK, SlotsMatchForwards, Forwards
  <2> QED
    BY <2>1, <2>2 DEF NewChannel, connVars, IInv, TypeOK, Admitted, Checked
<1>2. CASE Authorise(c, h)
  <2>1. PICK pc \in {"opening", "ending"} :
            /\ channel' = [channel EXCEPT ![c][h] = pc]
            /\ pc = "opening" => /\ BackendByName(asked[c][h]) # NoBackend
                                 /\ Granted(user[c], asked[c][h])
    BY <1>2 DEF Authorise
  <2>2. TypeOK'
    BY <1>2, <2>1 DEF Authorise, connVars, IInv, TypeOK, ChannelPcs
  <2>3. SlotsMatchForwards'
    BY <1>2, <2>1, CountKept DEF Authorise, IInv, TypeOK, Forwarding
  <2> QED
    BY <1>2, <2>1, <2>2, <2>3 DEF Authorise, connVars, IInv, TypeOK, Admitted, Checked
<1>3. CASE OpenBackend(c, h)
  <2>1. PICK pc \in {"streaming", "ending"}, b \in Backends \cup {NoBackend} :
            /\ channel' = [channel EXCEPT ![c][h] = pc]
            /\ reached' = [reached EXCEPT ![c][h] = b]
            /\ pc = "streaming" => b = BackendByName(asked[c][h])
    <3>1. CASE channel' = [channel EXCEPT ![c][h] = "ending"] /\ UNCHANGED reached
      <4>1. reached[c][h] \in Backends \cup {NoBackend}
        BY DEF IInv, TypeOK
      <4>2. reached' = [reached EXCEPT ![c][h] = reached[c][h]]
        BY <3>1 DEF IInv, TypeOK
      <4> QED
        BY <3>1, <4>1, <4>2
    <3>2. CASE /\ channel' = [channel EXCEPT ![c][h] = "streaming"]
               /\ reached' = [reached EXCEPT ![c][h] = BackendByName(asked[c][h])]
      <4>1. BackendByName(asked[c][h]) \in Backends
        BY <1>3, Resolved DEF OpenBackend, IInv, Checked
      <4> QED
        BY <3>2, <4>1
    <3> QED
      BY <1>3, <3>1, <3>2 DEF OpenBackend
  <2>2. TypeOK'
    BY <1>3, <2>1 DEF OpenBackend, connVars, IInv, TypeOK, ChannelPcs
  <2>3. SlotsMatchForwards'
    BY <1>3, <2>1, CountKept DEF OpenBackend, IInv, TypeOK, Forwarding
  <2> QED
    BY <1>3, <2>1, <2>2, <2>3 DEF OpenBackend, connVars, IInv, TypeOK, Admitted, Checked
<1>4. CASE EndStream(c, h)
  <2>1. TypeOK'
    BY <1>4 DEF EndStream, connVars, IInv, TypeOK, ChannelPcs
  <2>2. SlotsMatchForwards'
    BY <1>4, CountKept DEF EndStream, IInv, TypeOK, Forwarding
  <2> QED
    BY <1>4, <2>1, <2>2 DEF EndStream, connVars, IInv, TypeOK, Admitted, Checked
<1>5. CASE FreeSlot(c, h)
  <2>1. /\ h \in Forwards(c)
        /\ Forwards(c)' = Forwards(c) \ {h}
        /\ \A d \in Conns : d # c => Forwards(d)' = Forwards(d)
    BY <1>5 DEF FreeSlot, connVars, IInv, TypeOK, Forwards, Forwarding
  <2>2. /\ Cardinality(Forwards(c)') = Cardinality(Forwards(c)) - 1
        /\ slots[c] > 0
    <3>1. Cardinality(Forwards(c)') = Cardinality(Forwards(c)) - 1
      BY <2>1, ForwardsFinite, FS_RemoveElement
    <3>2. Cardinality(Forwards(c)) # 0
      BY <2>1, ForwardsFinite, FS_EmptySet
    <3>3. slots[c] = Cardinality(Forwards(c))
      BY DEF IInv, SlotsMatchForwards, Forwards
    <3> QED
      BY <3>1, <3>2, <3>3, ForwardsFinite
  <2>3. TypeOK'
    BY <1>5, <2>2, BoundsAssumption DEF FreeSlot, connVars, IInv, TypeOK, ChannelPcs
  <2>4. SlotsMatchForwards'
    BY <1>5, <2>1, <2>2, ForwardsFinite
    DEF FreeSlot, IInv, TypeOK, SlotsMatchForwards, Forwards
  <2> QED
    BY <1>5, <2>3, <2>4 DEF FreeSlot, connVars, IInv, TypeOK, Admitted, Checked
<1> QED
  BY <1>1, <1>2, <1>3, <1>4, <1>5 DEF Forward

LEMMA Inductive == IInv /\ [Next]_vars => IInv'
<1> SUFFICES ASSUME IInv, [Next]_vars PROVE IInv'
  OBVIOUS
<1>1. CASE \E c \in Conns : Handshake(c) \/ Disconnect(c) \/ Gone(c)
  BY <1>1, HandshakeKeeps
<1>2. CASE \E c \in Conns, h \in Channels :
             (\E n \in Names : NewChannel(c, h, n)) \/ Forward(c, h)
  BY <1>2, ChannelKeeps
<1>3. CASE \E b \in Backends : Availability(b)
  <2>1. TypeOK'
    BY <1>3 DEF Availability, connVars, channelVars, IInv, TypeOK
  <2>2. SlotsMatchForwards'
    BY <1>3, CountKept DEF Availability, channelVars, IInv
  <2> QED
    BY <1>3, <2>1, <2>2 DEF Availability, connVars, channelVars, IInv, Admitted, Checked
<1>4. CASE UNCHANGED vars
  <2>1. TypeOK'
    BY <1>4 DEF vars, connVars, channelVars, IInv, TypeOK
  <2>2. SlotsMatchForwards'
    BY <1>4, CountKept DEF vars, channelVars, IInv
  <2> QED
    BY <1>4, <2>1, <2>2 DEF vars, connVars, channelVars, IInv, Admitted, Checked
<1> QED
  BY <1>1, <1>2, <1>3, <1>4 DEF Next

\* The inductive invariant, in every reachable state of the SSH front
\* (proxy.go:139).
THEOREM Invariance == SafeSpec => []IInv
BY InitHolds, Inductive, PTL DEF SafeSpec

-----------------------------------------------------------------------------
(***************************************************************************)
(* The theorems.                                                           *)
(***************************************************************************)

\* Every variable keeps its type, the slot count its capacity (proxy.go:161).
THEOREM TypeCorrect == SafeSpec => []TypeOK
<1>1. IInv => TypeOK
  BY DEF IInv
<1> QED
  BY Invariance, <1>1, PTL

\* An open user beside a keyed one does not open the keyed one's door: who
\* may open channels as a keyed user has proved one of its keys
\* (proxy.go:149).
THEOREM KeysAreRequired == SafeSpec => []KeyRequired
<1>1. IInv => KeyRequired
  BY DEF IInv, Admitted, KeyRequired, IsOpenJumpUser, Authorize
<1> QED
  BY Invariance, <1>1, PTL

\* A stream runs only to a backend granted to the user of its connection,
\* whichever name it was asked for by (proxy.go:189).
THEOREM GrantsAreObserved == SafeSpec => []ReachesOnlyGranted
<1>1. IInv => ReachesOnlyGranted
  BY Resolved DEF IInv, Checked, Granted, ReachesOnlyGranted
<1> QED
  BY Invariance, <1>1, PTL

\* Slots and forward goroutines are equally many on every connection
\* (proxy.go:169).
THEOREM SlotsCorrect == SafeSpec => []SlotsMatchForwards
<1>1. IInv => SlotsMatchForwards
  BY DEF IInv
<1> QED
  BY Invariance, <1>1, PTL
-----------------------------------------------------------------------------
(***************************************************************************)
(* Whom the second check turns away.                                       *)
(***************************************************************************)

\* KeyHoldersEnter is violated, and this is how far: the second check drops
\* nobody unless some user is open, and then only who named another user and
\* came in without a key.  A client that offers its keys first, or a hub whose
\* users all have keys, never meets it (proxy.go:44, 153).
DroppedByNone ==
    \A c \in Conns :
        phase[c] = "dropped" =>
            /\ HasOpenJumpUser
            /\ ~IsOpenJumpUser(user[c])
            /\ proof[c] = NoKey

\* Without a key one passes the library by the method none only.
PassedByNone ==
    \A c \in Conns : phase[c] = "passed" /\ proof[c] = NoKey => HasOpenJumpUser

LEMMA NoneKept ==
  ASSUME TypeOK, DroppedByNone, PassedByNone, [Next]_vars
  PROVE  DroppedByNone' /\ PassedByNone'
<1> USE DEF TypeOK, DroppedByNone, PassedByNone, HasOpenJumpUser, IsOpenJumpUser
<1>1. ASSUME NEW c \in Conns, NEW u \in Users, NEW ks \in SUBSET Keys, Connect(c, u, ks)
      PROVE  DroppedByNone' /\ PassedByNone'
  BY <1>1 DEF Connect
<1>2. ASSUME NEW c \in Conns,
             TryNone(c) \/ Ending(c) \/ DeadlinePasses(c)
      PROVE  DroppedByNone' /\ PassedByNone'
  BY <1>2 DEF TryNone, Trying, Ending, GiveUp, TooManyTries, TimeOut, Disconnect, Close,
     DeadlinePasses
<1>3. ASSUME NEW c \in Conns, NEW k \in Keys, OfferKey(c, k)
      PROVE  DroppedByNone' /\ PassedByNone'
  BY <1>3, NamesAssumption DEF OfferKey, Trying
<1>4. ASSUME NEW c \in Conns, Recheck(c)
      PROVE  DroppedByNone' /\ PassedByNone'
  BY <1>4 DEF Recheck
<1>5. ASSUME NEW c \in Conns, Gone(c)
      PROVE  DroppedByNone' /\ PassedByNone'
  BY <1>5 DEF Gone
<1>6. CASE \/ UNCHANGED vars
           \/ \E b \in Backends : Availability(b)
           \/ \E c \in Conns, h \in Channels :
                  Forward(c, h) \/ \E n \in Names : NewChannel(c, h, n)
  <2>1. UNCHANGED <<phase, user, proof>>
    BY <1>6 DEF vars, connVars, Availability, Forward, Authorise, OpenBackend, EndStream,
       FreeSlot, NewChannel
  <2> QED
    BY <2>1
<1> QED
  BY <1>1, <1>2, <1>3, <1>4, <1>5, <1>6 DEF Next, Handshake, Ending

\* The second check never turns away who has proved a key, and nobody at all
\* on a hub without open users (handle, New).
THEOREM OnlyNoneIsDropped == SafeSpec => []DroppedByNone
<1>1. Init => DroppedByNone /\ PassedByNone
  BY DEF Init, DroppedByNone, PassedByNone
<1>2. IInv => TypeOK
  BY DEF IInv
<1> QED
  BY <1>1, <1>2, NoneKept, Invariance, PTL DEF SafeSpec

\* The fifteen seconds of the handshake never cut a tunnel: one that is up ends
\* when its client goes away and in no other way, since the second check has
\* taken the deadline off (proxy.go:158).
THEOREM DeadlineSparesTunnels ==
    SafeSpec => [][\A c \in Conns :
                     phase[c] = "tunnel" /\ phase'[c] # "tunnel" => Disconnect(c)]_vars
<1> DEFINE Spared == \A c \in Conns :
               phase[c] = "tunnel" /\ phase'[c] # "tunnel" => Disconnect(c)
<1>1. IInv /\ [Next]_vars => [Spared]_vars
  <2> SUFFICES ASSUME IInv, Next, NEW c \in Conns,
                      phase[c] = "tunnel", phase'[c] # "tunnel"
               PROVE  Disconnect(c)
    OBVIOUS
  <2>1. ~ UNCHANGED phase
    OBVIOUS
  <2>2. PICK d \in Conns : Handshake(d) \/ Disconnect(d) \/ Gone(d)
    BY <2>1 DEF Next, Forward, Authorise, OpenBackend, EndStream, FreeSlot, NewChannel,
       Availability, connVars
  <2>3. ASSUME d # c PROVE phase'[c] = phase[c]
    BY <2>2, <2>3 DEF IInv, TypeOK, Handshake, Connect, TryNone, OfferKey, GiveUp,
       TooManyTries, DeadlinePasses, TimeOut, Close, Recheck, Disconnect, Gone
  <2>4. ASSUME Handshake(c) \/ Gone(c) PROVE FALSE
    <3>1. deadline[c] = "off"
      BY DEF IInv, Admitted
    <3> QED
      BY <2>4, <3>1 DEF Handshake, Connect, Trying, TryNone, OfferKey, GiveUp,
         TooManyTries, DeadlinePasses, TimeOut, Recheck, Gone
  <2> QED
    BY <2>2, <2>3, <2>4
<1>2. SafeSpec => [][Spared]_vars
  BY <1>1, Invariance, PTL DEF SafeSpec
<1> QED
  BY <1>2
=============================================================================
