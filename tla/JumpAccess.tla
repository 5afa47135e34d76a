----------------------------- MODULE JumpAccess -----------------------------
(***************************************************************************)
(* Who gets through the SSH front and how far: the outer authentication of *)
(* a jump user, the second check behind it, and the direct-tcpip channels  *)
(* of an authenticated connection.                                         *)
(*                                                                         *)
(*   internal/proxy/proxy.go     New, authorize, handle, forward           *)
(*                                                                         *)
(* The configuration is what Config.Validate let through; what names mean  *)
(* under it is module Destinations.  Admission to the handshake is module  *)
(* Admission, Registry.Open module ControlPlane.                           *)
(***************************************************************************)
EXTENDS Destinations, Naturals, FiniteSets

CONSTANTS
    KeysOf,         \* KeysOf[u]: the public keys of jump user u, none if open
    Users, Keys,    \* user names and keys clients come with
    Conns, Channels,
    NoUser, NoKey, NoName,
    ChannelSlots,   \* capacity of handle's slots channel (16)
    MaxAuthTries    \* of the ssh.ServerConfig (24)

ASSUME ConfigAssumption ==
    /\ WellFormed
    /\ JumpUsers \subseteq Users
    /\ KeysOf \in [JumpUsers -> SUBSET Keys]

ASSUME NamesAssumption ==
    /\ NoUser \notin Users
    /\ NoKey \notin Keys
    /\ NoName \notin Names

ASSUME BoundsAssumption ==
    /\ IsFiniteSet(Channels)
    /\ ChannelSlots \in Nat
    /\ MaxAuthTries \in Nat

VARIABLES
    phase,      \* where a connection is
    user,       \* the user name it gave
    keys,       \* the keys its client can sign with
    tried,      \* the ones the hub has refused
    proof,      \* the key it authenticated with; Permissions name the user
    deadline,   \* the deadline of its handshake: not set, to come, past
    slots,      \* entries in its slots channel
    channel,    \* where a channel of a connection is
    asked,      \* the destination name the channel asked for
    reached,    \* the backend its stream was opened to
    online      \* backends that Registry.Open finds

connVars    == <<phase, user, keys, tried, proof, deadline>>
channelVars == <<slots, channel, asked, reached>>
vars == <<connVars, channelVars, online>>

Phases       == {"none", "auth", "passed", "dropped", "tunnel", "closing"}
ChannelPcs   == {"none", "pending", "opening", "streaming", "ending"}

\* The pcs at which a forward goroutine owns a slot.
Forwarding == {"pending", "opening", "streaming", "ending"}

TypeOK ==
    /\ phase \in [Conns -> Phases]
    /\ user \in [Conns -> Users \cup {NoUser}]
    /\ keys \in [Conns -> SUBSET Keys]
    /\ tried \in [Conns -> SUBSET Keys]
    /\ proof \in [Conns -> Keys \cup {NoKey}]
    /\ deadline \in [Conns -> {"off", "set", "past"}]
    /\ slots \in [Conns -> 0..ChannelSlots]
    /\ channel \in [Conns -> [Channels -> ChannelPcs]]
    /\ asked \in [Conns -> [Channels -> Names \cup {NoName}]]
    /\ reached \in [Conns -> [Channels -> Backends \cup {NoBackend}]]
    /\ online \subseteq Backends

Init ==
    /\ phase = [c \in Conns |-> "none"]
    /\ user = [c \in Conns |-> NoUser]
    /\ keys = [c \in Conns |-> {}]
    /\ tried = [c \in Conns |-> {}]
    /\ proof = [c \in Conns |-> NoKey]
    /\ deadline = [c \in Conns |-> "off"]
    /\ slots = [c \in Conns |-> 0]
    /\ channel = [c \in Conns |-> [h \in Channels |-> "none"]]
    /\ asked = [c \in Conns |-> [h \in Channels |-> NoName]]
    /\ reached = [c \in Conns |-> [h \in Channels |-> NoBackend]]
    /\ online = {}

-----------------------------------------------------------------------------
(***************************************************************************)
(* Who may pass without a key, and with which.                             *)
(***************************************************************************)

IsOpenJumpUser(u) == u \in JumpUsers /\ KeysOf[u] = {}

HasOpenJumpUser == \E u \in JumpUsers : IsOpenJumpUser(u)

\* authorize: an open user with any key, any other with one of its own.
Authorize(u, k) == u \in JumpUsers /\ (KeysOf[u] = {} \/ k \in KeysOf[u])

-----------------------------------------------------------------------------
(***************************************************************************)
(* The handshake, as the SSH library runs it with New's configuration.     *)
(***************************************************************************)

\* Mutant of Connect: no deadline is set before the handshake.
Connect_NoDeadline(c, u, ks) ==
    /\ phase[c] = "none"
    /\ phase' = [phase EXCEPT ![c] = "auth"]
    /\ user' = [user EXCEPT ![c] = u]
    /\ keys' = [keys EXCEPT ![c] = ks]
    /\ UNCHANGED <<tried, proof, deadline, channelVars, online>>

\* A client comes with a user name and the keys it can sign with, and handle
\* gives it fifteen seconds.
Connect(c, u, ks) ==
    /\ phase[c] = "none"
    /\ phase' = [phase EXCEPT ![c] = "auth"]
    /\ user' = [user EXCEPT ![c] = u]
    /\ keys' = [keys EXCEPT ![c] = ks]
    /\ deadline' = [deadline EXCEPT ![c] = "set"]
    /\ UNCHANGED <<tried, proof, channelVars, online>>

\* Once the deadline is past, reads and writes fail, and no method succeeds.
Trying(c) ==
    /\ phase[c] = "auth"
    /\ deadline[c] # "past"
    /\ Cardinality(tried[c]) < MaxAuthTries

\* The method "none", which clients try first: with NoClientAuth it is
\* accepted for every user name, and leaves no Permissions.  Without it
\* the library answers with the methods left, at no cost.
TryNone(c) ==
    /\ Trying(c)
    /\ HasOpenJumpUser
    /\ phase' = [phase EXCEPT ![c] = "passed"]
    /\ UNCHANGED <<user, keys, tried, proof, deadline, channelVars, online>>

\* A key is offered to PublicKeyCallback and, when acceptable, signed with.
OfferKey(c, k) ==
    /\ Trying(c)
    /\ k \in keys[c] \ tried[c]
    /\ \/ /\ Authorize(user[c], k)
          /\ phase' = [phase EXCEPT ![c] = "passed"]
          /\ proof' = [proof EXCEPT ![c] = k]
          /\ UNCHANGED tried
       \/ /\ ~ Authorize(user[c], k)
          /\ tried' = [tried EXCEPT ![c] = @ \cup {k}]
          /\ UNCHANGED <<phase, proof>>
    /\ UNCHANGED <<user, keys, deadline, channelVars, online>>

\* The connection is closed, and handle returns once its channels are done.
Close(c) ==
    /\ phase' = [phase EXCEPT ![c] = "closing"]
    /\ UNCHANGED <<user, keys, tried, proof, deadline, channelVars, online>>

\* The client ends the handshake or breaks it off, when it likes.
GiveUp(c) == phase[c] = "auth" /\ Close(c)

\* The library ends it after MaxAuthTries keys.
TooManyTries(c) ==
    /\ phase[c] = "auth"
    /\ Cardinality(tried[c]) >= MaxAuthTries
    /\ Close(c)

\* Fifteen seconds pass.
DeadlinePasses(c) ==
    /\ deadline[c] = "set"
    /\ deadline' = [deadline EXCEPT ![c] = "past"]
    /\ UNCHANGED <<phase, user, keys, tried, proof, channelVars, online>>

\* The next read or write fails, in a handshake as in a tunnel.
TimeOut(c) ==
    /\ phase[c] \in {"auth", "tunnel"}
    /\ deadline[c] = "past"
    /\ Close(c)

\* Mutant of Recheck: what the library let through is let through.
Recheck_Trusts(c) ==
    /\ phase[c] = "passed"
    /\ phase' = [phase EXCEPT ![c] = "tunnel"]
    /\ deadline' = [deadline EXCEPT ![c] = "off"]
    /\ UNCHANGED <<user, keys, tried, proof, channelVars, online>>

\* handle's second check: without Permissions only an open user goes on, and
\* without a deadline.  One that was past already may have ended the library's
\* reading of the connection.
Recheck(c) ==
    /\ phase[c] = "passed"
    /\ \/ /\ proof[c] = NoKey
          /\ ~ IsOpenJumpUser(user[c])
          /\ phase' = [phase EXCEPT ![c] = "dropped"]
          /\ UNCHANGED deadline
       \/ /\ proof[c] # NoKey \/ IsOpenJumpUser(user[c])
          /\ \/ phase' = [phase EXCEPT ![c] = "tunnel"]
             \/ deadline[c] = "past" /\ phase' = [phase EXCEPT ![c] = "closing"]
          /\ deadline' = [deadline EXCEPT ![c] = "off"]
    /\ UNCHANGED <<user, keys, tried, proof, channelVars, online>>

-----------------------------------------------------------------------------
(***************************************************************************)
(* Channels.                                                               *)
(***************************************************************************)

\* The loop over chans takes a direct-tcpip request, if there is a slot for
\* its goroutine.  Other channel types and a full connection are rejected
\* and leave no trace.
NewChannel(c, h, n) ==
    /\ phase[c] = "tunnel"
    /\ channel[c][h] = "none"
    /\ slots[c] < ChannelSlots
    /\ slots' = [slots EXCEPT ![c] = @ + 1]
    /\ channel' = [channel EXCEPT ![c][h] = "pending"]
    /\ asked' = [asked EXCEPT ![c][h] = n]
    /\ UNCHANGED <<reached, connVars, online>>

\* forward resolves the name and looks for the grant; a wrong port, an
\* unknown name and a missing grant are rejected.
Authorise(c, h) ==
    /\ channel[c][h] = "pending"
    /\ \/ /\ BackendByName(asked[c][h]) # NoBackend
          /\ Granted(user[c], asked[c][h])
          /\ channel' = [channel EXCEPT ![c][h] = "opening"]
       \/ channel' = [channel EXCEPT ![c][h] = "ending"]
    /\ UNCHANGED <<slots, asked, reached, connVars, online>>

\* Registry.Open and Accept, of which either may fail.
OpenBackend(c, h) ==
    /\ channel[c][h] = "opening"
    /\ \/ /\ BackendByName(asked[c][h]) \in online
          /\ phase[c] = "tunnel"
          /\ channel' = [channel EXCEPT ![c][h] = "streaming"]
          /\ reached' = [reached EXCEPT ![c][h] = BackendByName(asked[c][h])]
       \/ /\ channel' = [channel EXCEPT ![c][h] = "ending"]
          /\ UNCHANGED reached
    /\ UNCHANGED <<slots, asked, connVars, online>>

\* Mutant of EndStream: the bridge waits for both sides without a bound.
EndStream_WaitsForBoth(c, h) ==
    /\ channel[c][h] = "streaming"
    /\ phase[c] = "closing" => reached[c][h] \notin online
    /\ channel' = [channel EXCEPT ![c][h] = "ending"]
    /\ reached' = [reached EXCEPT ![c][h] = NoBackend]
    /\ UNCHANGED <<slots, asked, connVars, online>>

\* The bridge is over: either side closed, or the connection has.
EndStream(c, h) ==
    /\ channel[c][h] = "streaming"
    /\ channel' = [channel EXCEPT ![c][h] = "ending"]
    /\ reached' = [reached EXCEPT ![c][h] = NoBackend]
    /\ UNCHANGED <<slots, asked, connVars, online>>

\* Mutant of FreeSlot: an ended channel keeps its slot.
FreeSlot_Leaks(c, h) ==
    /\ channel[c][h] = "ending"
    /\ channel' = [channel EXCEPT ![c][h] = "none"]
    /\ asked' = [asked EXCEPT ![c][h] = NoName]
    /\ UNCHANGED <<slots, reached, connVars, online>>

\* forward returns and the deferred receive frees the slot.
FreeSlot(c, h) ==
    /\ channel[c][h] = "ending"
    /\ channel' = [channel EXCEPT ![c][h] = "none"]
    /\ asked' = [asked EXCEPT ![c][h] = NoName]
    /\ slots' = [slots EXCEPT ![c] = @ - 1]
    /\ UNCHANGED <<reached, connVars, online>>

\* The client goes away: chans is closed and handle returns, while the
\* goroutines of its channels find out for themselves.
Disconnect(c) == phase[c] = "tunnel" /\ Close(c)

\* The last goroutine of a connection is gone; its identity is reused.
Gone(c) ==
    /\ phase[c] \in {"dropped", "closing"}
    /\ \A h \in Channels : channel[c][h] = "none"
    /\ phase' = [phase EXCEPT ![c] = "none"]
    /\ user' = [user EXCEPT ![c] = NoUser]
    /\ keys' = [keys EXCEPT ![c] = {}]
    /\ tried' = [tried EXCEPT ![c] = {}]
    /\ proof' = [proof EXCEPT ![c] = NoKey]
    /\ deadline' = [deadline EXCEPT ![c] = "off"]
    /\ UNCHANGED <<channelVars, online>>

\* Agents come and go.
Availability(b) ==
    /\ online' = IF b \in online THEN online \ {b} ELSE online \cup {b}
    /\ UNCHANGED <<connVars, channelVars>>

-----------------------------------------------------------------------------
Handshake(c) ==
    \/ \E u \in Users, ks \in SUBSET Keys : Connect(c, u, ks)
    \/ TryNone(c) \/ \E k \in Keys : OfferKey(c, k)
    \/ GiveUp(c) \/ TooManyTries(c) \/ DeadlinePasses(c) \/ TimeOut(c)
    \/ Recheck(c)

Forward(c, h) ==
    \/ Authorise(c, h) \/ OpenBackend(c, h) \/ EndStream(c, h) \/ FreeSlot(c, h)

Next ==
    \/ \E c \in Conns :
        \/ Handshake(c) \/ Disconnect(c) \/ Gone(c)
        \/ \E h \in Channels :
            \/ \E n \in Names : NewChannel(c, h, n)
            \/ Forward(c, h)
    \/ \E b \in Backends : Availability(b)

\* Goroutines run, time passes, and when a connection is lost so are its
\* channels.  Clients are owed nothing and owe nothing: they need neither try a
\* method nor give up.
Fairness ==
    \A c \in Conns :
        /\ WF_vars(DeadlinePasses(c))
        /\ WF_vars(TooManyTries(c) \/ TimeOut(c))
        /\ WF_vars(Recheck(c))
        /\ WF_vars(Gone(c))
        /\ \A h \in Channels :
            /\ WF_vars(Authorise(c, h) \/ OpenBackend(c, h) \/ FreeSlot(c, h))
            /\ WF_vars(phase[c] = "closing" /\ EndStream(c, h))

SafeSpec == Init /\ [][Next]_vars
Spec == SafeSpec /\ Fairness

-----------------------------------------------------------------------------
(***************************************************************************)
(* Properties.                                                             *)
(***************************************************************************)

\* One open user must not remove the key requirement of the others: a
\* connection of a keyed user that may open channels has proved one of that
\* user's own keys (proxy.go:149).
KeyRequired ==
    \A c \in Conns :
        phase[c] = "tunnel" =>
            /\ user[c] \in JumpUsers
            /\ KeysOf[user[c]] # {} => proof[c] \in KeysOf[user[c]]

\* A stream runs to a backend its user was granted, under whichever of its
\* names it was asked for, and the name is one that the backend has
\* (proxy.go:189).
ReachesOnlyGranted ==
    \A c \in Conns, h \in Channels :
        channel[c][h] = "streaming" =>
            /\ reached[c][h] \in GrantsOf[user[c]]
            /\ asked[c][h] = reached[c][h] \/ asked[c][h] \in Aliases[reached[c][h]]

\* Every way out of forward gives its slot back, once, also when the
\* connection is lost below it (proxy.go:169).
SlotsMatchForwards ==
    \A c \in Conns :
        slots[c] = Cardinality({h \in Channels : channel[c][h] \in Forwarding})

\* README.md:78, "other jump users keep their own key requirements", and
\* openjump_test.go, "keyed user must still accept its own key": the second
\* check drops nobody who can sign with a key of the user he names.
KeyHoldersEnter ==
    \A c \in Conns :
        phase[c] = "dropped" =>
            user[c] \notin JumpUsers \/ keys[c] \cap KeysOf[user[c]] = {}

\* A client that comes has a tunnel in the end or is gone, wherever in the
\* handshake it stops: nothing it leaves undone keeps handle from returning,
\* not even on the way through the second check (proxy.go:141).
HandshakesEnd ==
    \A c \in Conns : phase[c] = "auth" ~> phase[c] \in {"tunnel", "none"}

\* A lost connection's goroutines all end, and with them their streams.
LostConnectionsEnd ==
    \A c \in Conns :
        phase[c] = "closing" ~> \A h \in Channels : channel[c][h] = "none"
=============================================================================
