------------------------------- MODULE Tunnel -------------------------------
(***************************************************************************)
(* A tunnelled stream from one end to the other: the SSH channel of a jump *)
(* user, the hub's bridge, a yamux stream, the agent's Serve loop and its  *)
(* bridge, and sshd.                                                       *)
(*                                                                         *)
(*   internal/proxy/proxy.go      forward from registry.Open on, bridge    *)
(*   internal/control/client.go   Serve, bridge                            *)
(*                                                                         *)
(* Either bridge is a pair of io.Copy goroutines.  They are the only ones  *)
(* who move data, a chunk per step: mid counts what the first of the two   *)
(* has passed on (the hub's for "up", the agent's for "down").  Of yamux:  *)
(* Close sends what was written and then the end, reading goes on after    *)
(* it; a peer that does not close within StreamCloseTimeout is reset; when *)
(* the session is lost, reads return what had arrived and then the end,    *)
(* and writes fail.  Streams of one session meet in its slots alone; those *)
(* not followed chunk by chunk are a count of slots taken.                 *)
(***************************************************************************)
EXTENDS Naturals, FiniteSets

CONSTANTS
    Streams,        \* identities of streams, reused when both ends are done
    Slots,          \* capacity of Serve's slots channel (64)
    Window,         \* chunks a yamux stream takes before they are read
    Chunks,         \* bound: chunks a sender has, per stream and direction
    MaxSessions     \* bound: sessions the agent registers, one after another

ASSUME BoundsAssumption ==
    /\ IsFiniteSet(Streams)
    /\ Slots \in Nat
    /\ Window \in Nat
    /\ MaxSessions \in Nat \ {0}
    /\ Chunks \in [Streams -> [{"up", "down"} -> Nat]]

Dirs == {"up", "down"}

VARIABLES
    client,     \* the jump user's end of the channel
    stalled,    \* <<t, d>>: its receiver (sshd, client) has stopped reading
    hub,        \* where the hub's bridge is: both copies, one left, returned
    finished,   \* <<t, d>>: the hub's copy of that direction has returned
    agent,      \* where the agent's end of a stream is
    sshd,       \* the agent's connection to sshd
    eof,        \* <<t, d>>: the receiver (sshd, client) has been told the end
    sent, mid, got, \* chunks written, passed on by the first copy, delivered
    cut,        \* <<t, d>>: the hub returned before that direction's end
    via,        \* the session of a stream, 0 for none
    session,    \* sessions the agent has registered so far
    alive,      \* the last of them has not been lost
    slots,      \* slots[s]: entries in the slots channel of session s's Serve
    others      \* others[s]: those of streams that are not followed here

dataVars == <<sent, mid, got>>
hubVars  == <<hub, finished, cut>>
linkVars == <<via, session, alive>>
slotVars == <<slots, others>>
vars == <<client, stalled, hubVars, agent, sshd, eof, dataVars, linkVars, slotVars>>

Nothing == [d \in Dirs |-> 0]

TypeOK ==
    /\ client \in [Streams -> {"none", "open", "eof", "gone"}]
    /\ stalled \subseteq Streams \X Dirs
    /\ hub \in [Streams -> {"none", "open", "half", "ended"}]
    /\ finished \subseteq Streams \X Dirs
    /\ agent \in [Streams -> {"none", "backlog", "dialing", "copying", "ended"}]
    /\ sshd \in [Streams -> {"none", "open", "closed"}]
    /\ eof \subseteq Streams \X Dirs
    /\ sent \in [Streams -> [Dirs -> Nat]]
    /\ mid \in [Streams -> [Dirs -> Nat]]
    /\ got \in [Streams -> [Dirs -> Nat]]
    /\ cut \subseteq Streams \X Dirs
    /\ via \in [Streams -> 0..MaxSessions]
    /\ session \in 1..MaxSessions
    /\ alive \in BOOLEAN
    /\ slots \in [1..MaxSessions -> Nat]
    /\ others \in [1..MaxSessions -> Nat]

Init ==
    /\ client = [t \in Streams |-> "none"]
    /\ stalled = {}
    /\ hub = [t \in Streams |-> "none"]
    /\ finished = {}
    /\ agent = [t \in Streams |-> "none"]
    /\ sshd = [t \in Streams |-> "none"]
    /\ eof = {}
    /\ sent = [t \in Streams |-> Nothing]
    /\ mid = [t \in Streams |-> Nothing]
    /\ got = [t \in Streams |-> Nothing]
    /\ cut = {}
    /\ via = [t \in Streams |-> 0]
    /\ session = 1
    /\ alive = TRUE
    /\ slots = [s \in 1..MaxSessions |-> 0]
    /\ others = [s \in 1..MaxSessions |-> 0]

LinkAlive(t) == alive /\ via[t] = session

Copying(t) == hub[t] \in {"open", "half"}

\* What the second copy has yet to read fills the stream's window.
WindowOpen(t, d) == mid[t][d] < got[t][d] + Window

-----------------------------------------------------------------------------
(***************************************************************************)
(* The jump user.                                                          *)
(***************************************************************************)

\* forward: the stream is opened, the channel accepted, the bridge started.
OpenStream(t) ==
    /\ client[t] = "none"
    /\ alive
    /\ client' = [client EXCEPT ![t] = "open"]
    /\ hub' = [hub EXCEPT ![t] = "open"]
    /\ agent' = [agent EXCEPT ![t] = "backlog"]
    /\ via' = [via EXCEPT ![t] = session]
    /\ UNCHANGED <<stalled, finished, sshd, eof, dataVars, cut, session, alive, slotVars>>

ClientSend(t) ==
    /\ client[t] = "open"
    /\ Copying(t)
    /\ sent[t]["up"] < Chunks[t]["up"]
    /\ sent' = [sent EXCEPT ![t]["up"] = @ + 1]
    /\ UNCHANGED <<client, stalled, hubVars, agent, sshd, eof, mid, got, linkVars, slotVars>>

\* It has no more to send, or is gone altogether.
ClientEnds(t, how) ==
    /\ \/ client[t] = "open" /\ how \in {"eof", "gone"}
       \/ client[t] = "eof" /\ how = "gone"
    /\ Copying(t)
    /\ client' = [client EXCEPT ![t] = how]
    /\ stalled' = IF how = "gone" THEN stalled \ {<<t, "down">>} ELSE stalled
    /\ UNCHANGED <<hubVars, agent, sshd, eof, dataVars, linkVars, slotVars>>

ClientStalls(t) ==
    /\ client[t] \in {"open", "eof"}
    /\ Copying(t)
    /\ stalled' = stalled \cup {<<t, "down">>}
    /\ UNCHANGED <<client, hubVars, agent, sshd, eof, dataVars, linkVars, slotVars>>
-----------------------------------------------------------------------------
(***************************************************************************)
(* The hub's bridge.                                                       *)
(***************************************************************************)

HubUp(t) ==
    /\ Copying(t)
    /\ <<t, "up">> \notin finished
    /\ LinkAlive(t)
    /\ mid[t]["up"] < sent[t]["up"]
    /\ WindowOpen(t, "up")
    /\ mid' = [mid EXCEPT ![t]["up"] = @ + 1]
    /\ UNCHANGED <<client, stalled, hubVars, agent, sshd, eof, sent, got, linkVars, slotVars>>

HubDown(t) ==
    /\ Copying(t)
    /\ <<t, "down">> \notin finished
    /\ got[t]["down"] < mid[t]["down"]
    /\ <<t, "down">> \notin stalled
    /\ client[t] # "gone"
    /\ got' = [got EXCEPT ![t]["down"] = @ + 1]
    /\ UNCHANGED <<client, stalled, hubVars, agent, sshd, eof, sent, mid, linkVars, slotVars>>

\* A copy returns.  The first of them starts the five seconds; the second
\* ends the bridge, which closes the channel and the stream.
CopyReturns(t, d) ==
    /\ Copying(t)
    /\ <<t, d>> \notin finished
    /\ finished' = finished \cup {<<t, d>>}
    /\ hub' = [hub EXCEPT ![t] = IF @ = "open" THEN "half" ELSE "ended"]
    /\ UNCHANGED <<client, stalled, agent, sshd, dataVars, cut, linkVars, slotVars>>

\* The client's channel has ended, or the stream takes no more.  A yamux
\* stream has no CloseWrite: the agent is told when the bridge returns.
HubUpEnds(t) ==
    /\ \/ client[t] # "open" /\ mid[t]["up"] = sent[t]["up"]
       \/ ~LinkAlive(t) /\ mid[t]["up"] < sent[t]["up"]
    /\ CopyReturns(t, "up")
    /\ UNCHANGED eof

\* The stream has ended, which the client's channel is told by CloseWrite, or
\* there is nobody left to write to.
HubDownEnds(t) ==
    \/ /\ \/ agent[t] = "ended" /\ got[t]["down"] = mid[t]["down"]
          \/ /\ ~LinkAlive(t)
             /\ <<t, "down">> \notin stalled \/ got[t]["down"] = mid[t]["down"]
       /\ CopyReturns(t, "down")
       /\ eof' = IF client[t] = "gone" THEN eof ELSE eof \cup {<<t, "down">>}
    \/ /\ client[t] = "gone"
       /\ got[t]["down"] < mid[t]["down"]
       /\ CopyReturns(t, "down")
       /\ UNCHANGED eof

\* Mutant of HubTimeout: the bridge waits for its second half.
HubTimeout_None(t) == FALSE /\ UNCHANGED vars

\* Five seconds after one half: the other is cut.
HubTimeout(t) ==
    /\ hub[t] = "half"
    /\ hub' = [hub EXCEPT ![t] = "ended"]
    /\ cut' = cut \cup (({t} \X Dirs) \ finished)
    /\ eof' = IF client[t] = "gone" THEN eof ELSE eof \cup {<<t, "down">>}
    /\ UNCHANGED <<client, stalled, finished, agent, sshd, dataVars, linkVars, slotVars>>
-----------------------------------------------------------------------------
(***************************************************************************)
(* The agent's Serve loop and its bridges.                                 *)
(***************************************************************************)

\* A slot, or the stream is closed at once.
AgentAccept(t) ==
    /\ agent[t] = "backlog"
    /\ LinkAlive(t)
    /\ \/ /\ slots[via[t]] < Slots
          /\ slots' = [slots EXCEPT ![via[t]] = @ + 1]
          /\ agent' = [agent EXCEPT ![t] = "dialing"]
       \/ /\ slots[via[t]] = Slots
          /\ agent' = [agent EXCEPT ![t] = "ended"]
          /\ UNCHANGED slots
    /\ UNCHANGED <<client, stalled, hubVars, sshd, eof, dataVars, linkVars, others>>

\* AcceptStream has failed before the stream's turn came: Serve has returned.
AgentDropped(t) ==
    /\ agent[t] = "backlog"
    /\ ~LinkAlive(t)
    /\ agent' = [agent EXCEPT ![t] = "ended"]
    /\ UNCHANGED <<client, stalled, hubVars, sshd, eof, dataVars, linkVars, slotVars>>

\* bridge returns, with whatever it has deferred.
BridgeReturns(t) ==
    /\ agent' = [agent EXCEPT ![t] = "ended"]
    /\ slots' = [slots EXCEPT ![via[t]] = @ - 1]
    /\ UNCHANGED <<client, stalled, hubVars, dataVars, linkVars, others>>

DialSshd(t) ==
    /\ agent[t] = "dialing"
    /\ sshd' = [sshd EXCEPT ![t] = "open"]
    /\ agent' = [agent EXCEPT ![t] = "copying"]
    /\ UNCHANGED <<client, stalled, hubVars, eof, dataVars, linkVars, slotVars>>

\* Mutant of DialFails: the slot is not given back.
DialFails_Leak(t) ==
    /\ agent[t] = "dialing"
    /\ agent' = [agent EXCEPT ![t] = "ended"]
    /\ UNCHANGED <<client, stalled, hubVars, sshd, eof, dataVars, linkVars, slotVars>>

\* Refused, or not within five seconds.
DialFails(t) ==
    /\ agent[t] = "dialing"
    /\ BridgeReturns(t)
    /\ UNCHANGED <<sshd, eof>>

\* The first copy, stream to sshd.  What had arrived is read even when the
\* session is gone.  A write waits for as long as sshd does not read.
AgentUp(t) ==
    /\ agent[t] = "copying"
    /\ <<t, "up">> \notin eof
    /\ got[t]["up"] < mid[t]["up"]
    /\ sshd[t] = "open"
    /\ <<t, "up">> \notin stalled
    /\ got' = [got EXCEPT ![t]["up"] = @ + 1]
    /\ UNCHANGED <<client, stalled, hubVars, agent, sshd, eof, sent, mid, linkVars, slotVars>>

\* The agent can read the end of the stream.
StreamEnded(t) ==
    \/ hub[t] = "ended" /\ got[t]["up"] = mid[t]["up"]
    \/ ~LinkAlive(t) /\ (<<t, "up">> \notin stalled \/ got[t]["up"] = mid[t]["up"])

\* Mutant of AgentUpEnds: the copy returns and sshd is not told.
AgentUpEnds_NoCloseWrite(t) == FALSE /\ UNCHANGED vars

\* Mutant of AgentUpEnds: the bridge returns when either of its copies does.
AgentUpEnds_Returns(t) ==
    /\ agent[t] = "copying"
    /\ <<t, "up">> \notin eof
    /\ StreamEnded(t)
    /\ sshd' = [sshd EXCEPT ![t] = "closed"]
    /\ eof' = eof \cup {<<t, "up">>}
    /\ BridgeReturns(t)

\* At the end of the stream sshd is told by CloseWrite; the bridge goes on.
AgentUpEnds(t) ==
    /\ agent[t] = "copying"
    /\ <<t, "up">> \notin eof
    /\ StreamEnded(t)
    /\ eof' = eof \cup {<<t, "up">>}
    /\ UNCHANGED <<client, stalled, hubVars, agent, sshd, dataVars, linkVars, slotVars>>

\* The second copy, sshd to stream.
AgentDown(t) ==
    /\ agent[t] = "copying"
    /\ LinkAlive(t)
    /\ mid[t]["down"] < sent[t]["down"]
    /\ WindowOpen(t, "down")
    /\ mid' = [mid EXCEPT ![t]["down"] = @ + 1]
    /\ UNCHANGED <<client, stalled, hubVars, agent, sshd, eof, sent, got, linkVars, slotVars>>

\* Mutant of AgentDownEnds: sshd's end is not the end, the other copy's is.
AgentDownEnds_WaitsForUp(t) ==
    /\ agent[t] = "copying"
    /\ <<t, "up">> \in eof
    /\ sshd' = [sshd EXCEPT ![t] = "closed"]
    /\ UNCHANGED eof
    /\ BridgeReturns(t)

\* sshd has closed, or the stream takes no more: the session is gone, or the
\* hub returned and has reset it.  The bridge returns.
AgentDownEnds(t) ==
    /\ agent[t] = "copying"
    /\ \/ sshd[t] = "closed" /\ mid[t]["down"] = sent[t]["down"]
       \/ ~LinkAlive(t) /\ mid[t]["down"] < sent[t]["down"]
       \/ hub[t] = "ended" /\ mid[t]["down"] < sent[t]["down"]
    /\ sshd' = [sshd EXCEPT ![t] = "closed"]
    /\ UNCHANGED eof
    /\ BridgeReturns(t)
-----------------------------------------------------------------------------
(***************************************************************************)
(* sshd, the session, and the reuse of identities.                         *)
(***************************************************************************)

SshdSend(t) ==
    /\ sshd[t] = "open"
    /\ sent[t]["down"] < Chunks[t]["down"]
    /\ sent' = [sent EXCEPT ![t]["down"] = @ + 1]
    /\ UNCHANGED <<client, stalled, hubVars, agent, sshd, eof, mid, got, linkVars, slotVars>>

SshdCloses(t) ==
    /\ sshd[t] = "open"
    /\ sshd' = [sshd EXCEPT ![t] = "closed"]
    /\ stalled' = stalled \ {<<t, "up">>}
    /\ UNCHANGED <<client, hubVars, agent, eof, dataVars, linkVars, slotVars>>

SshdStalls(t) ==
    /\ sshd[t] = "open"
    /\ stalled' = stalled \cup {<<t, "up">>}
    /\ UNCHANGED <<client, hubVars, agent, sshd, eof, dataVars, linkVars, slotVars>>

LinkLost ==
    /\ alive
    /\ alive' = FALSE
    /\ UNCHANGED <<client, stalled, hubVars, agent, sshd, eof, dataVars, via, session>>
    /\ UNCHANGED slotVars

\* The agent's run loop has registered again; its Serve makes a new channel
\* of slots, whatever the bridges of the old one still do.
Reconnect ==
    /\ ~alive
    /\ session < MaxSessions
    /\ session' = session + 1
    /\ alive' = TRUE
    /\ UNCHANGED <<client, stalled, hubVars, agent, sshd, eof, dataVars, via, slotVars>>

\* Another stream gets a slot of the session, or its bridge returns.
OtherTakes ==
    /\ alive
    /\ slots[session] < Slots
    /\ slots' = [slots EXCEPT ![session] = @ + 1]
    /\ others' = [others EXCEPT ![session] = @ + 1]
    /\ UNCHANGED <<client, stalled, hubVars, agent, sshd, eof, dataVars, linkVars>>

OtherReturns(s) ==
    /\ others[s] > 0
    /\ slots' = [slots EXCEPT ![s] = @ - 1]
    /\ others' = [others EXCEPT ![s] = @ - 1]
    /\ UNCHANGED <<client, stalled, hubVars, agent, sshd, eof, dataVars, linkVars>>

Recycle(t) ==
    /\ hub[t] = "ended"
    /\ agent[t] = "ended"
    /\ client' = [client EXCEPT ![t] = "none"]
    /\ stalled' = stalled \ ({t} \X Dirs)
    /\ hub' = [hub EXCEPT ![t] = "none"]
    /\ finished' = finished \ ({t} \X Dirs)
    /\ agent' = [agent EXCEPT ![t] = "none"]
    /\ sshd' = [sshd EXCEPT ![t] = "none"]
    /\ eof' = eof \ ({t} \X Dirs)
    /\ sent' = [sent EXCEPT ![t] = Nothing]
    /\ mid' = [mid EXCEPT ![t] = Nothing]
    /\ got' = [got EXCEPT ![t] = Nothing]
    /\ cut' = cut \ ({t} \X Dirs)
    /\ via' = [via EXCEPT ![t] = 0]
    /\ UNCHANGED <<session, alive, slotVars>>

HubStep(t) == HubUp(t) \/ HubDown(t) \/ HubUpEnds(t) \/ HubDownEnds(t) \/ HubTimeout(t)

AgentStep(t) ==
    \/ AgentAccept(t) \/ AgentDropped(t) \/ DialSshd(t) \/ DialFails(t)
    \/ AgentUp(t) \/ AgentUpEnds(t) \/ AgentDown(t) \/ AgentDownEnds(t)

Next ==
    \/ \E t \in Streams :
        \/ OpenStream(t) \/ ClientSend(t) \/ ClientStalls(t)
        \/ \E how \in {"eof", "gone"} : ClientEnds(t, how)
        \/ HubStep(t) \/ AgentStep(t)
        \/ SshdSend(t) \/ SshdCloses(t) \/ SshdStalls(t) \/ Recycle(t)
    \/ LinkLost \/ Reconnect
    \/ OtherTakes \/ \E s \in 1..MaxSessions : OtherReturns(s)

\* Goroutines that can go on do; reads of a session that is gone return, and
\* sshd, unless it has stopped reading, ends a connection whose input has ended.
Fairness == \A t \in Streams :
    /\ WF_vars(HubStep(t))
    /\ WF_vars(AgentStep(t))
    /\ WF_vars(<<t, "up">> \in eof \ stalled /\ SshdCloses(t))

Spec == Init /\ [][Next]_vars /\ Fairness
-----------------------------------------------------------------------------
(***************************************************************************)
(* Properties.                                                             *)
(***************************************************************************)

\* The bridges of a session, dialling or copying.
Bridges(s) == {t \in Streams : via[t] = s /\ agent[t] \in {"dialing", "copying"}}

\* A bridge holds exactly one slot of its own session's Serve, on every path
\* it returns by (Serve's deferred receive): none leaks, and none is given
\* back to the channel of a later session.
SlotsMatchBridges ==
    \A s \in 1..MaxSessions :
        /\ slots[s] = Cardinality(Bridges(s)) + others[s]
        /\ slots[s] <= Slots

\* The stream the two bridges make between them, as Pipe has it.
HasFinished ==
    {p \in Streams \X Dirs :
        IF p[2] = "up" THEN client[p[1]] \notin {"none", "open"}
                       ELSE sshd[p[1]] = "closed"}

Lost(t) == via[t] # 0 /\ ~LinkAlive(t)

\* Cut by the session's end, by the five seconds, or, downwards, as sshd was
\* never reached.
IsBroken ==
    {p \in Streams \X Dirs :
        \/ Lost(p[1])
        \/ p \in cut
        \/ p[2] = "down" /\ agent[p[1]] = "ended" /\ sshd[p[1]] = "none"}

Abstract == INSTANCE Pipe WITH fin <- HasFinished, broken <- IsBroken

\* However the two bridges, their five seconds and the session's end fall
\* together, neither end is told that a direction is complete while a part of
\* it is still on the way (bridge in proxy.go and in client.go).
IsPipe == Abstract!Spec

\* A forward gives its slot and its stream back: its bridge returns when the
\* jump user leaves, unless sshd does not read, which blocks the copy that
\* would notice; and when the session is lost, unless the jump user stays and
\* does not read (bridge's five seconds).
BridgesEnd ==
    \A t \in Streams :
        /\ client[t] = "gone" ~> (hub[t] \in {"none", "ended"} \/ <<t, "up">> \in stalled)
        /\ Lost(t) ~> (hub[t] \in {"none", "ended"} \/ <<t, "down">> \in stalled)

\* A jump user who is done sending is done for sshd too, though the hub has
\* no way to pass a half-close on, unless one of the two does not read
\* (bridge in proxy.go, CloseWrite).
SshdSeesEnd ==
    \A t \in Streams :
        (client[t] = "eof" /\ agent[t] = "copying")
            ~> \/ <<t, "up">> \in eof \/ agent[t] # "copying"
               \/ \E d \in Dirs : <<t, d>> \in stalled

\* A stream that the hub is done with, or that is lost, gives its slot at the
\* agent back, also when nobody reads what sshd sends, unless sshd itself
\* does not read (bridge in client.go).
SlotsReturn ==
    \A t \in Streams :
        (hub[t] = "ended" \/ Lost(t))
            ~> (agent[t] \in {"none", "ended"} \/ <<t, "up">> \in stalled)
=============================================================================
