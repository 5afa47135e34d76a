---------------------------- MODULE TunnelProofs ----------------------------
(***************************************************************************)
(* Theorems about the tunnelled streams, for any number of streams,        *)
(* sessions and slots and any window: a bridge holds one slot of its       *)
(* session, the two bridges together are a pipe, whose end means that all  *)
(* has arrived, and the five seconds cut one half of it at most.           *)
(***************************************************************************)
EXTENDS Tunnel, FiniteSetTheorems, TLAPS

\* How far the data of a direction is.
Counted(t) == \A d \in Dirs : got[t][d] <= mid[t][d] /\ mid[t][d] <= sent[t][d]

\* An identity is in use at both ends, or at none.
InUse(t) ==
    /\ via[t] <= session
    /\ client[t] = "none" =>
        /\ hub[t] = "none" /\ agent[t] = "none" /\ via[t] = 0
        /\ \A d \in Dirs : <<t, d>> \notin finished \cup eof \cup cut
    /\ client[t] # "none" => hub[t] # "none" /\ agent[t] # "none" /\ via[t] # 0

\* sshd is there from the agent's dialling on, and when the agent's bridge
\* returns it has been read to its end, or nobody is left who waits for it.
SshdShape(t) ==
    /\ agent[t] \in {"none", "backlog", "dialing"} => sshd[t] = "none" /\ <<t, "up">> \notin eof
    /\ agent[t] = "copying" => sshd[t] # "none"
    /\ agent[t] = "ended" =>
        \/ sshd[t] = "none"
        \/ /\ sshd[t] = "closed"
           /\ mid[t]["down"] = sent[t]["down"] \/ Lost(t) \/ hub[t] = "ended"

\* What it takes for a copy of the hub to return, and for its bridge.
HubShape(t) ==
    /\ <<t, "up">> \in finished =>
        Lost(t) \/ (client[t] # "open" /\ mid[t]["up"] = sent[t]["up"])
    /\ <<t, "down">> \in finished => <<t, "down">> \in eof \/ client[t] = "gone"
    /\ <<t, "down">> \in eof => <<t, "down">> \in finished \/ hub[t] = "ended"
    /\ hub[t] = "half" => \E d \in Dirs : <<t, d>> \in finished
    /\ hub[t] = "ended" => \A d \in Dirs : <<t, d>> \in finished \cup cut

Shape(t) == Counted(t) /\ InUse(t) /\ SshdShape(t) /\ HubShape(t)

IInv ==
    /\ TypeOK
    /\ SlotsMatchBridges
    /\ \A t \in Streams : Shape(t)

LEMMA InitHolds == Init => IInv
<1> SUFFICES ASSUME Init PROVE IInv
  OBVIOUS
<1>1. TypeOK
  BY BoundsAssumption DEF Init, TypeOK, Nothing
<1>2. SlotsMatchBridges
  <2>1. \A s \in 1..MaxSessions : Bridges(s) = {}
    BY DEF Init, Bridges
  <2> QED
    <3> SUFFICES ASSUME NEW s \in 1..MaxSessions
                 PROVE  slots[s] = Cardinality(Bridges(s)) + others[s] /\ slots[s] <= Slots
      BY DEF SlotsMatchBridges
    <3>1. Cardinality(Bridges(s)) = 0
      BY <2>1, FS_EmptySet
    <3> QED
      BY <3>1, BoundsAssumption DEF Init
<1>3. ASSUME NEW t \in Streams PROVE Shape(t)
  BY DEF Init, Shape, Counted, InUse, SshdShape, HubShape, Nothing, Dirs
<1> QED
  BY <1>1, <1>2, <1>3 DEF IInv

-----------------------------------------------------------------------------
(***************************************************************************)
(* The slots.                                                              *)
(***************************************************************************)

\* A bridge's session, and the slot it holds there.
LEMMA SlotHeld ==
  ASSUME IInv, NEW t \in Streams, agent[t] \in {"dialing", "copying"}
  PROVE  via[t] \in 1..MaxSessions /\ slots[via[t]] >= 1
<1>1. via[t] \in 1..MaxSessions
  BY BoundsAssumption DEF IInv, TypeOK, Shape, InUse
<1>2. t \in Bridges(via[t]) /\ IsFiniteSet(Bridges(via[t]))
  BY FS_Subset, BoundsAssumption DEF Bridges
<1>3. Cardinality(Bridges(via[t])) # 0 /\ Cardinality(Bridges(via[t])) \in Nat
  BY <1>2, FS_EmptySet, FS_CardinalityType
<1> QED
  BY <1>1, <1>3 DEF IInv, TypeOK, SlotsMatchBridges

\* Steps that neither start nor end a bridge leave the slots right.
LEMMA NoBridge ==
  ASSUME SlotsMatchBridges, UNCHANGED slotVars,
         \A s \in 1..MaxSessions : Bridges(s)' = Bridges(s)
  PROVE  SlotsMatchBridges'
BY DEF SlotsMatchBridges, slotVars

LEMMA SlotTaken ==
  ASSUME IInv, NEW t \in Streams, agent[t] = "backlog",
         slots[via[t]] < Slots,
         slots' = [slots EXCEPT ![via[t]] = @ + 1],
         agent' = [agent EXCEPT ![t] = "dialing"],
         UNCHANGED <<via, others>>
  PROVE  SlotsMatchBridges'
<1> DEFINE s == via[t]
<1>1. s \in 1..MaxSessions
  BY BoundsAssumption DEF IInv, TypeOK, Shape, InUse
<1>2. /\ \A r \in 1..MaxSessions : r # s => Bridges(r)' = Bridges(r)
      /\ Bridges(s)' = Bridges(s) \cup {t}
      /\ t \notin Bridges(s)
  BY DEF IInv, TypeOK, Bridges
<1>3. IsFiniteSet(Bridges(s))
  BY FS_Subset, BoundsAssumption DEF Bridges
<1>4. /\ Cardinality(Bridges(s)') = Cardinality(Bridges(s)) + 1
      /\ Cardinality(Bridges(s)) \in Nat
  BY <1>2, <1>3, FS_AddElement, FS_CardinalityType
<1>5. slots'[s] = slots[s] + 1 /\ \A r \in 1..MaxSessions : r # s => slots'[r] = slots[r]
  BY <1>1 DEF IInv, TypeOK
<1>6. /\ slots[s] = Cardinality(Bridges(s)) + others[s]
      /\ slots[s] \in Nat /\ others[s] \in Nat /\ Slots \in Nat
  BY <1>1, BoundsAssumption DEF IInv, TypeOK, SlotsMatchBridges
<1>7. ASSUME NEW r \in 1..MaxSessions
      PROVE  slots'[r] = Cardinality(Bridges(r)') + others'[r] /\ slots'[r] <= Slots
  <2>1. CASE r = s
    BY <2>1, <1>4, <1>5, <1>6
  <2>2. CASE r # s
    BY <2>2, <1>2, <1>5 DEF IInv, SlotsMatchBridges
  <2> QED
    BY <2>1, <2>2
<1> QED
  BY <1>7 DEF SlotsMatchBridges

LEMMA SlotGiven ==
  ASSUME IInv, NEW t \in Streams, agent[t] \in {"dialing", "copying"}, BridgeReturns(t)
  PROVE  SlotsMatchBridges'
<1> DEFINE s == via[t]
<1>1. s \in 1..MaxSessions /\ slots[s] >= 1
  BY SlotHeld
<1>2. /\ \A r \in 1..MaxSessions : r # s => Bridges(r)' = Bridges(r)
      /\ Bridges(s)' = Bridges(s) \ {t}
      /\ t \in Bridges(s)
  BY DEF IInv, TypeOK, Bridges, BridgeReturns, linkVars
<1>3. IsFiniteSet(Bridges(s))
  BY FS_Subset, BoundsAssumption DEF Bridges
<1>4. /\ Cardinality(Bridges(s)') = Cardinality(Bridges(s)) - 1
      /\ Cardinality(Bridges(s)) \in Nat
  BY <1>2, <1>3, FS_RemoveElement, FS_CardinalityType
<1>5. slots'[s] = slots[s] - 1 /\ \A r \in 1..MaxSessions : r # s => slots'[r] = slots[r]
  BY <1>1 DEF IInv, TypeOK, BridgeReturns
<1>6. /\ slots[s] = Cardinality(Bridges(s)) + others[s] /\ slots[s] <= Slots
      /\ slots[s] \in Nat /\ others[s] \in Nat /\ Slots \in Nat
  BY <1>1, BoundsAssumption DEF IInv, TypeOK, SlotsMatchBridges
<1>7. ASSUME NEW r \in 1..MaxSessions
      PROVE  slots'[r] = Cardinality(Bridges(r)') + others'[r] /\ slots'[r] <= Slots
  <2>1. CASE r = s
    BY <2>1, <1>4, <1>5, <1>6 DEF BridgeReturns, linkVars
  <2>2. CASE r # s
    BY <2>2, <1>2, <1>5 DEF IInv, SlotsMatchBridges, BridgeReturns
  <2> QED
    BY <2>1, <2>2
<1> QED
  BY <1>7 DEF SlotsMatchBridges

-----------------------------------------------------------------------------
(***************************************************************************)
(* The streams.  A step of one leaves the others alone, but for the loss   *)
(* of a session, which they keep.                                          *)
(***************************************************************************)

Frame(u) ==
    /\ UNCHANGED <<client[u], hub[u], agent[u], sshd[u], via[u]>>
    /\ UNCHANGED <<sent[u], mid[u], got[u]>>
    /\ \A d \in Dirs :
        /\ (<<u, d>> \in finished)' <=> <<u, d>> \in finished
        /\ (<<u, d>> \in eof)' <=> <<u, d>> \in eof
        /\ (<<u, d>> \in cut)' <=> <<u, d>> \in cut
    /\ session' >= session
    /\ Lost(u) => Lost(u)'

LEMMA FrameKeeps ==
  ASSUME NEW u \in Streams, TypeOK, session' \in Nat, Shape(u), Frame(u)
  PROVE  Shape(u)'
<1>1. via[u] \in Nat /\ session \in Nat
  BY BoundsAssumption DEF TypeOK
<1> QED
  BY <1>1 DEF Shape, Frame, Counted, InUse, SshdShape, HubShape, Dirs

\* What any one stream does leaves another's frame.
StreamStep(t) ==
    \/ OpenStream(t) \/ ClientSend(t) \/ ClientStalls(t) \/ SshdStalls(t)
    \/ \E how \in {"eof", "gone"} : ClientEnds(t, how)
    \/ HubStep(t) \/ AgentStep(t)
    \/ SshdSend(t) \/ SshdCloses(t) \/ Recycle(t)

LEMMA OthersFramed ==
  ASSUME TypeOK, NEW t \in Streams, StreamStep(t), NEW u \in Streams \ {t}
  PROVE  Frame(u)
<1> USE DEF TypeOK, Frame, Lost, LinkAlive, dataVars, hubVars, linkVars
<1>0. session \in Nat
  BY BoundsAssumption
<1>1. CASE OpenStream(t)
  BY <1>0, <1>1 DEF OpenStream
<1>2. CASE ClientSend(t) \/ ClientStalls(t) \/ SshdStalls(t) \/ SshdSend(t) \/ SshdCloses(t)
  BY <1>0, <1>2 DEF ClientSend, ClientStalls, SshdStalls, SshdSend, SshdCloses
<1>3. CASE \E how \in {"eof", "gone"} : ClientEnds(t, how)
  BY <1>0, <1>3 DEF ClientEnds
<1>4. CASE HubUp(t) \/ HubDown(t)
  BY <1>0, <1>4 DEF HubUp, HubDown
<1>5. CASE HubUpEnds(t) \/ HubDownEnds(t)
  BY <1>0, <1>5 DEF HubUpEnds, HubDownEnds, CopyReturns
<1>6. CASE HubTimeout(t)
  BY <1>0, <1>6 DEF HubTimeout
<1>7. CASE AgentAccept(t) \/ AgentDropped(t) \/ DialSshd(t) \/ DialFails(t)
  BY <1>0, <1>7 DEF AgentAccept, AgentDropped, DialSshd, DialFails, BridgeReturns
<1>8. CASE AgentUp(t) \/ AgentUpEnds(t) \/ AgentDown(t) \/ AgentDownEnds(t)
  BY <1>0, <1>8 DEF AgentUp, AgentUpEnds, AgentDown, AgentDownEnds, BridgeReturns
<1>9. CASE Recycle(t)
  BY <1>0, <1>9 DEF Recycle
<1> QED
  BY <1>1, <1>2, <1>3, <1>4, <1>5, <1>6, <1>7, <1>8, <1>9
     DEF StreamStep, HubStep, AgentStep

\* The stream itself keeps its shape, whichever end moves.
LEMMA UserKeeps ==
  ASSUME IInv, NEW t \in Streams,
         \/ OpenStream(t) \/ ClientSend(t) \/ ClientStalls(t) \/ SshdStalls(t)
         \/ \E how \in {"eof", "gone"} : ClientEnds(t, how)
  PROVE  Shape(t)'
<1> USE DEF IInv, TypeOK, Shape, Lost, LinkAlive, dataVars, hubVars, linkVars, Dirs
<1>0. session \in Nat
  BY BoundsAssumption
<1>1. CASE OpenStream(t)
  <2>1. /\ client'[t] = "open" /\ hub'[t] = "open" /\ agent'[t] = "backlog"
        /\ via'[t] = session /\ session # 0
        /\ UNCHANGED <<finished, sshd, eof, sent, mid, got, cut, session>>
    BY <1>1, BoundsAssumption DEF OpenStream
  <2>2. sshd[t] = "none" /\ \A d \in Dirs : <<t, d>> \notin finished \cup eof \cup cut
    BY <1>1 DEF OpenStream, InUse, SshdShape
  <2> QED
    BY <1>0, <2>1, <2>2 DEF Counted, InUse, SshdShape, HubShape
<1>2. CASE ClientSend(t)
  <2>1. /\ UNCHANGED <<client, hub, agent, sshd, via, session, alive, finished, eof, cut>>
        /\ UNCHANGED <<mid, got>> /\ client[t] = "open"
        /\ sent'[t]["up"] = sent[t]["up"] + 1 /\ sent'[t]["down"] = sent[t]["down"]
    BY <1>2 DEF ClientSend
  <2>2. \A d \in Dirs : got[t][d] \in Nat /\ mid[t][d] \in Nat /\ sent[t][d] \in Nat
    OBVIOUS
  <2> QED
    BY <1>0, <2>1, <2>2 DEF Counted, InUse, SshdShape, HubShape
<1>3. CASE ClientStalls(t) \/ SshdStalls(t)
  BY <1>0, <1>3 DEF ClientStalls, SshdStalls, Counted, InUse, SshdShape, HubShape
<1>4. ASSUME NEW how \in {"eof", "gone"}, ClientEnds(t, how)
      PROVE  Shape(t)'
  <2>1. /\ UNCHANGED <<hub, agent, sshd, via, session, alive, finished, eof, cut>>
        /\ UNCHANGED <<sent, mid, got>> /\ client[t] # "none"
        /\ client'[t] = how /\ (client[t] = "gone" => how = "gone")
    BY <1>4 DEF ClientEnds
  <2> QED
    BY <1>0, <2>1 DEF Counted, InUse, SshdShape, HubShape
<1> QED
  BY <1>1, <1>2, <1>3, <1>4

LEMMA HubKeeps ==
  ASSUME IInv, NEW t \in Streams, HubStep(t)
  PROVE  Shape(t)'
<1> USE DEF IInv, TypeOK, Shape, Lost, LinkAlive, dataVars, hubVars, linkVars, Dirs
<1>0. /\ session \in Nat
      /\ \A d \in Dirs : got[t][d] \in Nat /\ mid[t][d] \in Nat /\ sent[t][d] \in Nat
  BY BoundsAssumption
<1>1. CASE HubUp(t)
  <2>1. /\ UNCHANGED <<client, hub, agent, sshd, via, session, alive, finished, eof, cut>>
        /\ UNCHANGED <<sent, got>> /\ <<t, "up">> \notin finished
        /\ mid'[t]["up"] = mid[t]["up"] + 1 /\ mid'[t]["down"] = mid[t]["down"]
        /\ mid[t]["up"] < sent[t]["up"]
    BY <1>1 DEF HubUp
  <2> QED
    BY <1>0, <2>1 DEF Counted, InUse, SshdShape, HubShape
<1>2. CASE HubDown(t)
  <2>1. /\ UNCHANGED <<client, hub, agent, sshd, via, session, alive, finished, eof, cut>>
        /\ UNCHANGED <<sent, mid>> /\ got[t]["down"] < mid[t]["down"]
        /\ got'[t]["down"] = got[t]["down"] + 1 /\ got'[t]["up"] = got[t]["up"]
    BY <1>2 DEF HubDown
  <2> QED
    BY <1>0, <2>1 DEF Counted, InUse, SshdShape, HubShape
<1>3. ASSUME NEW d \in Dirs, CopyReturns(t, d)
      PROVE  /\ UNCHANGED <<client, agent, sshd, via, session, alive, cut, sent, mid, got>>
             /\ Copying(t) /\ hub'[t] \in {"half", "ended"}
             /\ <<t, d>> \notin finished /\ finished' = finished \cup {<<t, d>>}
             /\ hub'[t] = "ended" => hub[t] = "half"
  BY <1>3 DEF CopyReturns, Copying
<1>4. CASE HubUpEnds(t)
  <2>1. /\ UNCHANGED <<client, agent, sshd, via, session, alive, cut, sent, mid, got, eof>>
        /\ <<t, "up">> \notin finished /\ finished' = finished \cup {<<t, "up">>}
        /\ Copying(t) /\ hub'[t] \in {"half", "ended"}
        /\ hub'[t] = "ended" => hub[t] = "half"
    BY <1>3, <1>4 DEF HubUpEnds
  <2>2. client[t] # "none"
    BY <2>1 DEF Copying, InUse
  <2>3. Lost(t) \/ (client[t] # "open" /\ mid[t]["up"] = sent[t]["up"])
    BY <1>4, <2>2 DEF HubUpEnds, InUse
  <2>4. HubShape(t)'
    BY <2>1, <2>3 DEF HubShape, Copying
  <2>5. Counted(t)' /\ InUse(t)'
    BY <2>1, <2>2 DEF Counted, InUse
  <2>6. SshdShape(t)'
    BY <2>1 DEF SshdShape, Copying
  <2> QED
    BY <2>4, <2>5, <2>6
<1>5. CASE HubDownEnds(t)
  <2>1. /\ UNCHANGED <<client, agent, sshd, via, session, alive, cut, sent, mid, got>>
        /\ <<t, "down">> \notin finished /\ finished' = finished \cup {<<t, "down">>}
        /\ eof' = eof \cup {<<t, "down">>} \/ (client[t] = "gone" /\ eof' = eof)
        /\ Copying(t) /\ hub'[t] \in {"half", "ended"}
        /\ hub'[t] = "ended" => hub[t] = "half"
    BY <1>3, <1>5 DEF HubDownEnds
  <2>2. client[t] # "none"
    BY <2>1 DEF Copying, InUse
  <2>3. HubShape(t)'
    BY <2>1 DEF HubShape, Copying
  <2>4. Counted(t)' /\ InUse(t)'
    BY <2>1, <2>2 DEF Counted, InUse
  <2>5. SshdShape(t)'
    BY <2>1 DEF SshdShape, Copying
  <2> QED
    BY <2>3, <2>4, <2>5
<1>6. CASE HubTimeout(t)
  <2>1. /\ UNCHANGED <<client, finished, agent, sshd, via, session, alive, sent, mid, got>>
        /\ hub[t] = "half" /\ hub'[t] = "ended"
        /\ \A d \in Dirs : <<t, d>> \in finished \/ <<t, d>> \in cut'
        /\ <<t, "up">> \in eof' <=> <<t, "up">> \in eof
        /\ <<t, "down">> \in eof => <<t, "down">> \in eof'
    BY <1>6 DEF HubTimeout
  <2> QED
    BY <1>0, <2>1 DEF Counted, InUse, SshdShape, HubShape
<1> QED
  BY <1>1, <1>2, <1>4, <1>5, <1>6 DEF HubStep

LEMMA AgentKeeps ==
  ASSUME IInv, NEW t \in Streams, AgentStep(t) \/ SshdSend(t) \/ SshdCloses(t)
  PROVE  Shape(t)'
<1> USE DEF IInv, TypeOK, Shape, Lost, LinkAlive, dataVars, hubVars, linkVars, Dirs
<1>0. /\ session \in Nat
      /\ \A d \in Dirs : got[t][d] \in Nat /\ mid[t][d] \in Nat /\ sent[t][d] \in Nat
  BY BoundsAssumption
<1>1. UNCHANGED <<client[t], hub[t], via[t], session, alive, finished, cut>>
  BY DEF AgentStep, AgentAccept, AgentDropped, DialSshd, DialFails, BridgeReturns,
         AgentUp, AgentUpEnds, AgentDown, AgentDownEnds, SshdSend, SshdCloses
<1>2. /\ <<t, "down">> \in eof' <=> <<t, "down">> \in eof
      /\ agent[t] # "none" /\ agent'[t] # "none"
  BY DEF AgentStep, AgentAccept, AgentDropped, DialSshd, DialFails, BridgeReturns,
         AgentUp, AgentUpEnds, AgentDown, AgentDownEnds, SshdSend, SshdCloses, SshdShape
<1>3. client[t] # "none"
  BY <1>2 DEF InUse
<1>4. InUse(t)'
  BY <1>0, <1>1, <1>2, <1>3 DEF InUse
<1>5. CASE AgentAccept(t) \/ AgentDropped(t) \/ DialSshd(t) \/ DialFails(t)
  <2>1. UNCHANGED <<eof, sent, mid, got>>
    BY <1>5 DEF AgentAccept, AgentDropped, DialSshd, DialFails, BridgeReturns
  <2>2. SshdShape(t)'
    BY <1>5, <2>1 DEF SshdShape, AgentAccept, AgentDropped, DialSshd, DialFails, BridgeReturns
  <2> QED
    BY <1>1, <1>4, <2>1, <2>2 DEF Counted, HubShape
<1>6. CASE AgentUp(t)
  <2>1. /\ UNCHANGED <<agent, sshd, eof, sent, mid>> /\ got[t]["up"] < mid[t]["up"]
        /\ got'[t]["up"] = got[t]["up"] + 1 /\ got'[t]["down"] = got[t]["down"]
    BY <1>6 DEF AgentUp
  <2>2. Counted(t)'
    BY <1>0, <2>1 DEF Counted
  <2> QED
    BY <1>1, <1>4, <2>1, <2>2 DEF SshdShape, HubShape
<1>7. CASE AgentUpEnds(t)
  <2>1. UNCHANGED <<agent, sshd, sent, mid, got>> /\ agent[t] = "copying"
    BY <1>7 DEF AgentUpEnds
  <2> QED
    BY <1>1, <1>2, <1>4, <2>1 DEF Counted, SshdShape, HubShape
<1>8. CASE AgentDown(t)
  <2>1. /\ UNCHANGED <<agent, sshd, eof, sent, got>> /\ mid[t]["down"] < sent[t]["down"]
        /\ mid'[t]["down"] = mid[t]["down"] + 1 /\ mid'[t]["up"] = mid[t]["up"]
        /\ agent[t] = "copying"
    BY <1>8 DEF AgentDown
  <2>2. Counted(t)'
    BY <1>0, <2>1 DEF Counted
  <2> QED
    BY <1>1, <1>4, <2>1, <2>2 DEF SshdShape, HubShape
<1>9. CASE AgentDownEnds(t)
  <2>1. /\ UNCHANGED <<eof, sent, mid, got>>
        /\ agent'[t] = "ended" /\ sshd'[t] = "closed"
    BY <1>9 DEF AgentDownEnds, BridgeReturns
  <2>2. mid[t]["down"] = sent[t]["down"] \/ Lost(t) \/ hub[t] = "ended"
    BY <1>3, <1>9 DEF AgentDownEnds, InUse
  <2> QED
    BY <1>1, <1>4, <2>1, <2>2 DEF Counted, SshdShape, HubShape
<1>10. CASE SshdSend(t)
  <2>1. /\ UNCHANGED <<agent, sshd, eof, mid, got>> /\ sshd[t] = "open"
        /\ sent'[t]["down"] = sent[t]["down"] + 1 /\ sent'[t]["up"] = sent[t]["up"]
    BY <1>10 DEF SshdSend
  <2>2. Counted(t)'
    BY <1>0, <2>1 DEF Counted
  <2> QED
    BY <1>1, <1>4, <2>1, <2>2 DEF SshdShape, HubShape
<1>11. CASE SshdCloses(t)
  <2>1. /\ UNCHANGED <<agent, eof, sent, mid, got>> /\ sshd[t] = "open"
        /\ sshd'[t] = "closed"
    BY <1>11 DEF SshdCloses
  <2> QED
    BY <1>1, <1>4, <2>1 DEF Counted, SshdShape, HubShape
<1> QED
  BY <1>5, <1>6, <1>7, <1>8, <1>9, <1>10, <1>11 DEF AgentStep

LEMMA RecycleKeeps ==
  ASSUME IInv, NEW t \in Streams, Recycle(t)
  PROVE  Shape(t)'
<1> USE DEF IInv, TypeOK, Dirs
<1>1. /\ client'[t] = "none" /\ hub'[t] = "none" /\ agent'[t] = "none"
      /\ sshd'[t] = "none" /\ via'[t] = 0 /\ session' = session
      /\ sent'[t] = Nothing /\ mid'[t] = Nothing /\ got'[t] = Nothing
      /\ \A d \in Dirs : <<t, d>> \notin finished' \cup eof' \cup cut'
  BY DEF Recycle
<1> QED
  BY <1>1 DEF Shape, Counted, InUse, SshdShape, HubShape, Nothing

\* A lost session stays lost, and its successor has another number.
LEMMA SessionFrames ==
  ASSUME IInv, NEW u \in Streams,
         \/ LinkLost \/ Reconnect \/ OtherTakes
         \/ \E s \in 1..MaxSessions : OtherReturns(s)
  PROVE  Frame(u) /\ session' \in Nat
<1>1. session \in Nat /\ via[u] \in Nat /\ via[u] <= session
  BY BoundsAssumption DEF IInv, TypeOK, Shape, InUse
<1>2. CASE LinkLost
  BY <1>1, <1>2 DEF LinkLost, Frame, Lost, LinkAlive, dataVars, hubVars
<1>3. CASE Reconnect
  BY <1>1, <1>3 DEF Reconnect, Frame, Lost, LinkAlive, dataVars, hubVars
<1>4. CASE OtherTakes \/ \E s \in 1..MaxSessions : OtherReturns(s)
  BY <1>1, <1>4 DEF OtherTakes, OtherReturns, Frame, Lost, LinkAlive, dataVars, hubVars,
                    linkVars
<1> QED
  BY <1>2, <1>3, <1>4

-----------------------------------------------------------------------------
(***************************************************************************)
(* The invariant is inductive.                                             *)
(***************************************************************************)

SessionStep ==
    \/ LinkLost \/ Reconnect \/ OtherTakes
    \/ \E s \in 1..MaxSessions : OtherReturns(s)

LEMMA Steps == Next <=> (SessionStep \/ \E t \in Streams : StreamStep(t))
BY DEF Next, SessionStep, StreamStep

LEMMA SlotsKeep ==
  ASSUME IInv, Next
  PROVE  SlotsMatchBridges'
<1> USE DEF slotVars, linkVars, hubVars, dataVars
<1>1. ASSUME NEW t \in Streams, AgentAccept(t)
      PROVE  SlotsMatchBridges'
  <2>1. CASE slots[via[t]] < Slots
    <3>1. via[t] \in 1..MaxSessions
      BY <1>1, BoundsAssumption DEF AgentAccept, IInv, TypeOK, Shape, InUse
    <3>2. slots[via[t]] # Slots
      BY <2>1, <3>1, BoundsAssumption DEF IInv, TypeOK
    <3> QED
      BY <1>1, <2>1, <3>2, SlotTaken DEF AgentAccept
  <2>2. CASE ~(slots[via[t]] < Slots)
    <3>1. /\ agent[t] = "backlog" /\ agent' = [agent EXCEPT ![t] = "ended"]
          /\ UNCHANGED <<via, slots, others>>
      BY <1>1, <2>2 DEF AgentAccept
    <3>2. \A s \in 1..MaxSessions : Bridges(s)' = Bridges(s)
      BY <3>1 DEF IInv, TypeOK, Bridges
    <3> QED
      BY <3>1, <3>2, NoBridge DEF IInv
  <2> QED
    BY <2>1, <2>2
<1>2. ASSUME NEW t \in Streams, DialFails(t) \/ AgentDownEnds(t)
      PROVE  SlotsMatchBridges'
  BY <1>2, SlotGiven DEF DialFails, AgentDownEnds
<1>3. ASSUME NEW t \in Streams,
             \/ ClientSend(t) \/ ClientStalls(t)
             \/ SshdSend(t) \/ SshdCloses(t) \/ SshdStalls(t)
             \/ \E how \in {"eof", "gone"} : ClientEnds(t, how)
             \/ HubStep(t) \/ AgentUp(t) \/ AgentUpEnds(t) \/ AgentDown(t)
      PROVE  SlotsMatchBridges'
  <2>1. UNCHANGED <<agent, via, slots, others>>
    BY <1>3 DEF ClientSend, ClientStalls, SshdSend, SshdCloses, SshdStalls, ClientEnds,
         HubStep, HubUp, HubDown, HubUpEnds, HubDownEnds, CopyReturns, HubTimeout, AgentUp,
         AgentUpEnds, AgentDown
  <2> QED
    BY <2>1, NoBridge DEF IInv, Bridges
<1>4. ASSUME NEW t \in Streams,
             OpenStream(t) \/ AgentDropped(t) \/ DialSshd(t) \/ Recycle(t)
      PROVE  SlotsMatchBridges'
  <2>1. /\ UNCHANGED <<slots, others>>
        /\ \A u \in Streams \ {t} : UNCHANGED <<agent[u], via[u]>>
    BY <1>4 DEF OpenStream, AgentDropped, DialSshd, Recycle, IInv, TypeOK
  <2>2. \/ /\ agent[t] \notin {"dialing", "copying"}
           /\ agent'[t] \notin {"dialing", "copying"}
        \/ via'[t] = via[t] /\ agent[t] = "dialing" /\ agent'[t] = "copying"
    BY <1>4 DEF OpenStream, AgentDropped, DialSshd, Recycle, IInv, TypeOK, Shape, InUse
  <2>3. \A s \in 1..MaxSessions : Bridges(s)' = Bridges(s)
    BY <2>1, <2>2 DEF Bridges
  <2> QED
    BY <2>1, <2>3, NoBridge DEF IInv
<1>5. CASE LinkLost \/ Reconnect
  BY <1>5, NoBridge DEF LinkLost, Reconnect, IInv, Bridges
<1>6. CASE OtherTakes \/ \E s \in 1..MaxSessions : OtherReturns(s)
  <2>1. PICK s \in 1..MaxSessions :
          \/ /\ slots[s] < Slots
             /\ slots' = [slots EXCEPT ![s] = @ + 1]
             /\ others' = [others EXCEPT ![s] = @ + 1]
          \/ /\ others[s] > 0
             /\ slots' = [slots EXCEPT ![s] = @ - 1]
             /\ others' = [others EXCEPT ![s] = @ - 1]
    BY <1>6 DEF OtherTakes, OtherReturns, IInv, TypeOK
  <2>2. \A r \in 1..MaxSessions : Bridges(r)' = Bridges(r) /\ IsFiniteSet(Bridges(r))
    BY <1>6, FS_Subset, BoundsAssumption DEF OtherTakes, OtherReturns, Bridges
  <2>3. ASSUME NEW r \in 1..MaxSessions
        PROVE  slots'[r] = Cardinality(Bridges(r)') + others'[r] /\ slots'[r] <= Slots
    <3>1. /\ Cardinality(Bridges(r)') = Cardinality(Bridges(r))
          /\ Cardinality(Bridges(r)) \in Nat
      BY <2>2, FS_CardinalityType
    <3>2. slots[r] = Cardinality(Bridges(r)) + others[r] /\ slots[r] <= Slots
      BY DEF IInv, SlotsMatchBridges
    <3>3. /\ slots[r] \in Nat /\ others[r] \in Nat /\ Slots \in Nat
          /\ slots \in [1..MaxSessions -> Nat] /\ others \in [1..MaxSessions -> Nat]
      BY BoundsAssumption DEF IInv, TypeOK
    <3>4. \/ r # s /\ slots'[r] = slots[r] /\ others'[r] = others[r]
          \/ /\ slots[r] < Slots /\ slots'[r] = slots[r] + 1 /\ others'[r] = others[r] + 1
          \/ /\ others[r] > 0 /\ slots'[r] = slots[r] - 1 /\ others'[r] = others[r] - 1
      BY <2>1, <3>3
    <3> QED
      BY <3>1, <3>2, <3>3, <3>4
  <2> QED
    BY <2>3 DEF SlotsMatchBridges
<1> QED
  BY <1>1, <1>2, <1>3, <1>4, <1>5, <1>6 DEF Next, AgentStep

LEMMA TypeKeeps ==
  ASSUME IInv, Next
  PROVE  TypeOK'
<1> USE DEF TypeOK, slotVars, linkVars, hubVars, dataVars
<1>0. TypeOK
  BY DEF IInv
<1>1. ASSUME NEW t \in Streams, OpenStream(t) PROVE TypeOK'
  <2>1. /\ client' \in [Streams -> {"none", "open", "eof", "gone"}]
        /\ hub' \in [Streams -> {"none", "open", "half", "ended"}]
        /\ agent' \in [Streams -> {"none", "backlog", "dialing", "copying", "ended"}]
    BY <1>0, <1>1 DEF OpenStream
  <2>2. via' \in [Streams -> 0..MaxSessions]
    BY <1>0, <1>1, BoundsAssumption DEF OpenStream
  <2> QED
    BY <1>0, <1>1, <2>1, <2>2 DEF OpenStream
<1>2. ASSUME NEW t \in Streams, ClientSend(t) \/ SshdSend(t) PROVE TypeOK'
  <2>1. PICK d \in Dirs : sent' = [sent EXCEPT ![t][d] = @ + 1]
    BY <1>2 DEF ClientSend, SshdSend, Dirs
  <2>2. sent' \in [Streams -> [Dirs -> Nat]]
    BY <1>0, <2>1
  <2> QED
    BY <1>0, <1>2, <2>2 DEF ClientSend, SshdSend
<1>3. ASSUME NEW t \in Streams, ClientStalls(t) \/ SshdStalls(t) PROVE TypeOK'
  <2>1. stalled' \subseteq Streams \X Dirs
    BY <1>0, <1>3 DEF ClientStalls, SshdStalls, Dirs
  <2> QED
    BY <1>0, <1>3, <2>1 DEF ClientStalls, SshdStalls
<1>4. ASSUME NEW t \in Streams, NEW how \in {"eof", "gone"}, ClientEnds(t, how)
      PROVE  TypeOK'
  BY <1>0, <1>4 DEF ClientEnds
<1>5. ASSUME NEW t \in Streams, HubUp(t) \/ AgentDown(t) PROVE TypeOK'
  <2>1. PICK d \in Dirs : mid' = [mid EXCEPT ![t][d] = @ + 1]
    BY <1>5 DEF HubUp, AgentDown, Dirs
  <2>2. mid' \in [Streams -> [Dirs -> Nat]]
    BY <1>0, <2>1
  <2> QED
    BY <1>0, <1>5, <2>2 DEF HubUp, AgentDown
<1>6. ASSUME NEW t \in Streams, HubDown(t) \/ AgentUp(t) PROVE TypeOK'
  <2>1. PICK d \in Dirs : got' = [got EXCEPT ![t][d] = @ + 1]
    BY <1>6 DEF HubDown, AgentUp, Dirs
  <2>2. got' \in [Streams -> [Dirs -> Nat]]
    BY <1>0, <2>1
  <2> QED
    BY <1>0, <1>6, <2>2 DEF HubDown, AgentUp
<1>7. ASSUME NEW t \in Streams, HubUpEnds(t) \/ HubDownEnds(t) PROVE TypeOK'
  <2>1. PICK d \in Dirs : CopyReturns(t, d)
    BY <1>7 DEF HubUpEnds, HubDownEnds, Dirs
  <2>2. eof' \subseteq Streams \X Dirs
    BY <1>0, <1>7 DEF HubUpEnds, HubDownEnds, Dirs
  <2> QED
    <3>1. hub' \in [Streams -> {"none", "open", "half", "ended"}]
      BY <1>0, <2>1 DEF CopyReturns
    <3>2. finished' \subseteq Streams \X Dirs
      BY <1>0, <2>1 DEF CopyReturns
    <3> QED
      BY <1>0, <2>1, <2>2, <3>1, <3>2 DEF CopyReturns
<1>8. ASSUME NEW t \in Streams, HubTimeout(t) PROVE TypeOK'
  <2>1. hub' \in [Streams -> {"none", "open", "half", "ended"}]
    BY <1>0, <1>8 DEF HubTimeout
  <2>2. cut' \subseteq Streams \X Dirs /\ eof' \subseteq Streams \X Dirs
    BY <1>0, <1>8 DEF HubTimeout, Dirs
  <2> QED
    BY <1>0, <1>8, <2>1, <2>2 DEF HubTimeout
<1>9. ASSUME NEW t \in Streams, AgentAccept(t) PROVE TypeOK'
  <2>1. via[t] \in 1..MaxSessions
    BY <1>9, BoundsAssumption DEF AgentAccept, IInv, Shape, InUse
  <2>2. slots' \in [1..MaxSessions -> Nat]
    <3>1. slots \in [1..MaxSessions -> Nat] /\ slots[via[t]] + 1 \in Nat
      BY <1>0, <2>1
    <3>2. slots' = [slots EXCEPT ![via[t]] = slots[via[t]] + 1] \/ slots' = slots
      BY <1>9 DEF AgentAccept
    <3> QED
      BY <3>1, <3>2
  <2>3. agent' \in [Streams -> {"none", "backlog", "dialing", "copying", "ended"}]
    BY <1>0, <1>9 DEF AgentAccept
  <2> QED
    BY <1>0, <1>9, <2>2, <2>3 DEF AgentAccept
<1>10. ASSUME NEW t \in Streams, AgentDropped(t) \/ DialSshd(t) \/ SshdCloses(t)
       PROVE  TypeOK'
  BY <1>0, <1>10 DEF AgentDropped, DialSshd, SshdCloses
<1>11. ASSUME NEW t \in Streams, DialFails(t) \/ AgentDownEnds(t) PROVE TypeOK'
  <2>1. slots[via[t]] \in Nat \ {0} /\ via[t] \in 1..MaxSessions
    BY <1>0, <1>11, SlotHeld DEF DialFails, AgentDownEnds
  <2>2. BridgeReturns(t) /\ sshd' \in [Streams -> {"none", "open", "closed"}]
    BY <1>0, <1>11 DEF DialFails, AgentDownEnds
  <2>3. slots[via[t]] - 1 \in Nat
    BY <2>1
  <2>4. slots' \in [1..MaxSessions -> Nat]
    BY <1>0, <2>1, <2>2, <2>3 DEF BridgeReturns
  <2>5. agent' \in [Streams -> {"none", "backlog", "dialing", "copying", "ended"}]
    BY <1>0, <2>2 DEF BridgeReturns
  <2>6. eof' = eof
    BY <1>11 DEF DialFails, AgentDownEnds
  <2> QED
    BY <1>0, <2>2, <2>4, <2>5, <2>6 DEF BridgeReturns
<1>12. ASSUME NEW t \in Streams, AgentUpEnds(t) PROVE TypeOK'
  <2>1. eof' \subseteq Streams \X Dirs
    BY <1>0, <1>12 DEF AgentUpEnds, Dirs
  <2> QED
    BY <1>0, <1>12, <2>1 DEF AgentUpEnds
<1>13. ASSUME NEW t \in Streams, Recycle(t) PROVE TypeOK'
  <2>1. Nothing \in [Dirs -> Nat]
    BY DEF Nothing
  <2>2. /\ sent' \in [Streams -> [Dirs -> Nat]]
        /\ mid' \in [Streams -> [Dirs -> Nat]]
        /\ got' \in [Streams -> [Dirs -> Nat]]
    BY <1>0, <1>13, <2>1 DEF Recycle
  <2>3. /\ client' \in [Streams -> {"none", "open", "eof", "gone"}]
        /\ hub' \in [Streams -> {"none", "open", "half", "ended"}]
        /\ agent' \in [Streams -> {"none", "backlog", "dialing", "copying", "ended"}]
        /\ sshd' \in [Streams -> {"none", "open", "closed"}]
        /\ via' \in [Streams -> 0..MaxSessions]
    BY <1>0, <1>13, BoundsAssumption DEF Recycle
  <2>4. /\ stalled' \subseteq Streams \X Dirs /\ finished' \subseteq Streams \X Dirs
        /\ eof' \subseteq Streams \X Dirs /\ cut' \subseteq Streams \X Dirs
    BY <1>0, <1>13 DEF Recycle
  <2> QED
    BY <1>0, <1>13, <2>2, <2>3, <2>4 DEF Recycle
<1>14. CASE LinkLost \/ Reconnect
  <2>1. session' \in 1..MaxSessions /\ alive' \in BOOLEAN
    <3>1. session \in 1..MaxSessions /\ MaxSessions \in Nat
      BY <1>0, BoundsAssumption
    <3>2. \/ session' = session /\ alive' = FALSE
          \/ session' = session + 1 /\ session < MaxSessions /\ alive' = TRUE
      BY <1>14 DEF LinkLost, Reconnect
    <3>3. session' \in 1..MaxSessions
      BY <3>1, <3>2
    <3>4. alive' \in BOOLEAN
      BY <3>2, Zenon
    <3> QED
      BY <3>3, <3>4
  <2> QED
    BY <1>0, <1>14, <2>1 DEF LinkLost, Reconnect
<1>15. CASE OtherTakes
  <2>1. slots' \in [1..MaxSessions -> Nat] /\ others' \in [1..MaxSessions -> Nat]
    <3>0. /\ slots \in [1..MaxSessions -> Nat] /\ others \in [1..MaxSessions -> Nat]
          /\ session \in 1..MaxSessions
      BY <1>0
    <3>1. slots[session] + 1 \in Nat /\ others[session] + 1 \in Nat
      <4>1. slots[session] \in Nat /\ others[session] \in Nat
        BY <3>0
      <4> QED
        BY <4>1
    <3>2. /\ slots' = [slots EXCEPT ![session] = slots[session] + 1]
          /\ others' = [others EXCEPT ![session] = others[session] + 1]
      BY <1>15 DEF OtherTakes
    <3> QED
      BY <3>0, <3>1, <3>2
  <2> QED
    BY <1>0, <1>15, <2>1 DEF OtherTakes
<1>16. ASSUME NEW s \in 1..MaxSessions, OtherReturns(s) PROVE TypeOK'
  <2>1. slots[s] = Cardinality(Bridges(s)) + others[s] /\ others[s] > 0
    BY <1>16 DEF OtherReturns, IInv, SlotsMatchBridges
  <2>2. Cardinality(Bridges(s)) \in Nat
    BY FS_Subset, FS_CardinalityType, BoundsAssumption DEF Bridges
  <2>3. others[s] \in Nat
    BY <1>0
  <2>4. slots[s] - 1 \in Nat /\ others[s] - 1 \in Nat
    BY <2>1, <2>2, <2>3
  <2>5. slots' \in [1..MaxSessions -> Nat] /\ others' \in [1..MaxSessions -> Nat]
    BY <1>0, <1>16, <2>4 DEF OtherReturns
  <2> QED
    BY <1>0, <1>16, <2>5 DEF OtherReturns
<1> QED
  BY <1>1, <1>2, <1>3, <1>4, <1>5, <1>6, <1>7, <1>8, <1>9, <1>10, <1>11, <1>12,
     <1>13, <1>14, <1>15, <1>16 DEF Next, HubStep, AgentStep

LEMMA NextKeeps == IInv /\ [Next]_vars => IInv'
<1> SUFFICES ASSUME IInv, [Next]_vars PROVE IInv'
  OBVIOUS
<1>1. CASE UNCHANGED vars
  BY <1>1 DEF vars, slotVars, linkVars, hubVars, dataVars, IInv, TypeOK, SlotsMatchBridges,
     Bridges, Shape, Counted, InUse, SshdShape, HubShape, Lost, LinkAlive
<1>2. CASE Next
  <2>1. TypeOK' /\ SlotsMatchBridges'
    BY <1>2, TypeKeeps, SlotsKeep
  <2>2. ASSUME NEW u \in Streams PROVE Shape(u)'
    <3>1. CASE SessionStep
      BY <3>1, SessionFrames, FrameKeeps DEF IInv, SessionStep
    <3>2. ASSUME NEW t \in Streams, t # u, StreamStep(t)
          PROVE  Shape(u)'
      <4>1. session' \in Nat
        BY <2>1, BoundsAssumption DEF TypeOK
      <4> QED
        BY <3>2, <4>1, OthersFramed, FrameKeeps DEF IInv
    <3>3. CASE StreamStep(u)
      BY <3>3, UserKeeps, HubKeeps, AgentKeeps, RecycleKeeps DEF StreamStep
    <3> QED
      BY <1>2, <3>1, <3>2, <3>3, Steps
  <2> QED
    BY <2>1, <2>2 DEF IInv
<1> QED
  BY <1>1, <1>2

LEMMA Invariance == Spec => []IInv
<1>1. Init => IInv
  BY InitHolds
<1>2. IInv /\ [Next]_vars => IInv'
  BY NextKeeps
<1> QED
  BY <1>1, <1>2, PTL DEF Spec

\* Every bridge of the agent holds one slot of its session's Serve and no slot
\* is held for nothing, by whichever path bridges return and however sessions
\* follow each other (Serve's deferred receive).
THEOREM SlotsAreHeld == Spec => []SlotsMatchBridges
<1>1. IInv => SlotsMatchBridges
  BY DEF IInv
<1> QED
  BY <1>1, Invariance, PTL

\* Streams, bridges, counters and sessions stay in their ranges: no slot is
\* given back that was not taken (Serve, bridge).
THEOREM TypeCorrect == Spec => []TypeOK
<1>1. IInv => TypeOK
  BY DEF IInv
<1> QED
  BY <1>1, Invariance, PTL

-----------------------------------------------------------------------------
(***************************************************************************)
(* The two bridges are a pipe.                                             *)
(***************************************************************************)

Fin(u, d) == IF d = "up" THEN client[u] \notin {"none", "open"} ELSE sshd[u] = "closed"

Broken(u, d) ==
    \/ Lost(u)
    \/ <<u, d>> \in cut
    \/ d = "down" /\ agent[u] = "ended" /\ sshd[u] = "none"

LEMMA Mapped ==
  ASSUME NEW u \in Streams, NEW d \in Dirs
  PROVE  /\ <<u, d>> \in HasFinished <=> Fin(u, d)
         /\ <<u, d>> \in IsBroken <=> Broken(u, d)
         /\ <<u, d>> \in HasFinished' <=> Fin(u, d)'
         /\ <<u, d>> \in IsBroken' <=> Broken(u, d)'
BY DEF HasFinished, IsBroken, Fin, Broken

LEMMA Pairs ==
  ASSUME NEW A, NEW B, A \subseteq Streams \X Dirs,
         \A u \in Streams, d \in Dirs : <<u, d>> \in A => <<u, d>> \in B
  PROVE  A \subseteq B
OBVIOUS

\* What does not move data is at most a break.
LEMMA IsBreak ==
  ASSUME UNCHANGED <<sent, got>>, IInv,
         \A u \in Streams, d \in Dirs :
            /\ Fin(u, d) => Fin(u, d)'
            /\ Broken(u, d) => Broken(u, d)'
            /\ <<u, d>> \in eof => <<u, d>> \in eof'
            /\ <<u, d>> \in eof' => <<u, d>> \in eof \/ Broken(u, d)',
         eof' \subseteq Streams \X Dirs
  PROVE  Abstract!Next
<1>1. HasFinished \subseteq HasFinished'
  BY Mapped, Pairs DEF HasFinished
<1>2. IsBroken \subseteq IsBroken'
  BY Mapped, Pairs DEF IsBroken
<1>3. eof \subseteq eof'
  BY Pairs DEF IInv, TypeOK
<1>4. eof' \ eof \subseteq IsBroken'
  BY Mapped
<1>5. /\ HasFinished' \in SUBSET (Streams \X Dirs)
      /\ IsBroken' \in SUBSET (Streams \X Dirs)
      /\ eof' \ eof \in SUBSET (Streams \X Dirs)
  BY DEF HasFinished, IsBroken
<1>6. Abstract!Break(IsBroken', HasFinished', eof' \ eof)
  BY <1>1, <1>2, <1>3, <1>4 DEF Abstract!Break
<1> QED
  BY <1>5, <1>6 DEF Abstract!Next

\* A stream that ends, breaks or tells at most as a pipe may.
Grows(u) == \A d \in Dirs :
    /\ Fin(u, d) => Fin(u, d)'
    /\ Broken(u, d) => Broken(u, d)'
    /\ <<u, d>> \in eof => <<u, d>> \in eof'
    /\ <<u, d>> \in eof' => <<u, d>> \in eof \/ Broken(u, d)'

LEMMA FrameGrows ==
  ASSUME NEW u \in Streams, Frame(u)
  PROVE  Grows(u)
BY DEF Frame, Grows, Fin, Broken

QuietStep(t) ==
    \/ OpenStream(t) \/ ClientStalls(t) \/ SshdStalls(t)
    \/ \E how \in {"eof", "gone"} : ClientEnds(t, how)
    \/ HubUp(t) \/ HubUpEnds(t) \/ HubTimeout(t)
    \/ AgentAccept(t) \/ AgentDropped(t) \/ DialSshd(t) \/ DialFails(t)
    \/ AgentDown(t) \/ AgentDownEnds(t) \/ SshdCloses(t)

LEMMA QuietGrows ==
  ASSUME IInv, NEW t \in Streams, QuietStep(t)
  PROVE  UNCHANGED <<sent, got>> /\ Grows(t)
<1> USE DEF Grows, Fin, Broken, Lost, LinkAlive, dataVars, hubVars, linkVars, TypeOK
<1>0. TypeOK /\ session # 0 /\ InUse(t) /\ SshdShape(t) /\ HubShape(t)
  <2>1. session \in 1..MaxSessions /\ MaxSessions \in Nat
    BY BoundsAssumption DEF IInv
  <2>2. session # 0
    BY <2>1
  <2>3. TypeOK
    BY DEF IInv
  <2>4. InUse(t) /\ SshdShape(t) /\ HubShape(t)
    BY DEF IInv, Shape
  <2> QED
    BY <2>2, <2>3, <2>4
<1>1. CASE OpenStream(t)
  <2>1. /\ UNCHANGED <<sent, got, sshd, eof, cut>>
        /\ client[t] = "none" /\ agent[t] = "none" /\ via[t] = 0
    BY <1>0, <1>1 DEF OpenStream, InUse
  <2> QED
    BY <1>0, <2>1 DEF InUse
<1>2. CASE ClientStalls(t) \/ SshdStalls(t) \/ HubUp(t) \/ AgentDown(t)
  BY <1>2 DEF ClientStalls, SshdStalls, HubUp, AgentDown
<1>3. ASSUME NEW how \in {"eof", "gone"}, ClientEnds(t, how)
      PROVE  UNCHANGED <<sent, got>> /\ Grows(t)
  <2>1. /\ UNCHANGED <<sent, got, sshd, eof, cut, via, session, alive, agent>>
        /\ client'[t] = how
    BY <1>0, <1>3 DEF ClientEnds
  <2> QED
    BY <2>1
<1>4. CASE HubUpEnds(t)
  BY <1>4 DEF HubUpEnds, CopyReturns
<1>5. CASE HubTimeout(t)
  <2>1. /\ UNCHANGED <<sent, got, client, agent, sshd, via, session, alive>>
        /\ cut \subseteq cut' /\ \A d \in Dirs : <<t, d>> \in finished \/ <<t, d>> \in cut'
        /\ <<t, "up">> \in eof' <=> <<t, "up">> \in eof
        /\ <<t, "down">> \in eof => <<t, "down">> \in eof'
        /\ client[t] = "gone" => eof' = eof
    BY <1>5 DEF HubTimeout
  <2>2. <<t, "down">> \in eof' => <<t, "down">> \in eof \/ <<t, "down">> \in cut'
    BY <1>0, <2>1 DEF HubShape, Dirs
  <2> QED
    BY <2>1, <2>2 DEF Dirs
<1>6. CASE AgentAccept(t) \/ AgentDropped(t) \/ DialSshd(t) \/ DialFails(t)
  <2>1. UNCHANGED <<sent, got, client, eof, cut, via, session, alive>>
    BY <1>6 DEF AgentAccept, AgentDropped, DialSshd, DialFails, BridgeReturns
  <2>2. agent[t] # "ended" /\ sshd[t] = "none"
    BY <1>0, <1>6 DEF AgentAccept, AgentDropped, DialSshd, DialFails, SshdShape
  <2> QED
    BY <2>1, <2>2
<1>7. CASE AgentDownEnds(t)
  <2>1. UNCHANGED <<sent, got, client, eof, cut, via, session, alive>>
    BY <1>7 DEF AgentDownEnds, BridgeReturns
  <2>2. agent[t] = "copying" /\ sshd'[t] = "closed"
    BY <1>0, <1>7 DEF AgentDownEnds
  <2> QED
    BY <2>1, <2>2
<1>8. CASE SshdCloses(t)
  <2>1. /\ UNCHANGED <<sent, got, client, eof, cut, via, session, alive, agent>>
        /\ sshd[t] = "open" /\ sshd'[t] = "closed"
    BY <1>0, <1>8 DEF SshdCloses
  <2> QED
    BY <2>1
<1> QED
  BY <1>1, <1>2, <1>3, <1>4, <1>5, <1>6, <1>7, <1>8 DEF QuietStep

LEMMA QuietIsBreak ==
  ASSUME IInv, TypeOK', NEW t \in Streams, QuietStep(t)
  PROVE  Abstract!Next
<1>1. StreamStep(t)
  BY DEF QuietStep, StreamStep, HubStep, AgentStep
<1>2. \A u \in Streams : Grows(u)
  BY <1>1, QuietGrows, OthersFramed, FrameGrows DEF IInv
<1> QED
  BY <1>2, QuietGrows, IsBreak DEF Grows, TypeOK

LEMMA SessionIsBreak ==
  ASSUME IInv, TypeOK', SessionStep
  PROVE  Abstract!Next
<1>1. \A u \in Streams : Grows(u)
  BY SessionFrames, FrameGrows DEF SessionStep
<1>2. UNCHANGED <<sent, got>>
  BY DEF SessionStep, LinkLost, Reconnect, OtherTakes, OtherReturns, dataVars
<1> QED
  BY <1>1, <1>2, IsBreak DEF Grows, TypeOK

LEMMA DataSteps ==
  ASSUME IInv, NEW t \in Streams,
         ClientSend(t) \/ SshdSend(t) \/ AgentUp(t) \/ HubDown(t)
  PROVE  Abstract!Next
<1> USE DEF dataVars, hubVars, linkVars
<1>1. /\ UNCHANGED <<client, sshd, agent, cut, via, session, alive, eof>>
      /\ HasFinished' = HasFinished /\ IsBroken' = IsBroken
  BY DEF ClientSend, SshdSend, AgentUp, HubDown, HasFinished, IsBroken, Lost, LinkAlive
<1>2. Counted(t) /\ HubShape(t) /\ TypeOK
  BY DEF IInv, Shape
<1>3. CASE ClientSend(t)
  <2>1. <<t, "up">> \notin HasFinished
    BY <1>3, Mapped DEF ClientSend, Fin, Dirs
  <2>2. Abstract!Send(t, "up")
    BY <1>1, <1>3, <2>1 DEF ClientSend, Abstract!Send
  <2> QED
    BY <2>2 DEF Abstract!Next, Dirs
<1>4. CASE SshdSend(t)
  <2>1. <<t, "down">> \notin HasFinished
    BY <1>4, Mapped DEF SshdSend, Fin, Dirs
  <2>2. Abstract!Send(t, "down")
    BY <1>1, <1>4, <2>1 DEF SshdSend, Abstract!Send
  <2> QED
    BY <2>2 DEF Abstract!Next, Dirs
<1>5. CASE AgentUp(t)
  <2>1. got[t]["up"] < sent[t]["up"]
    BY <1>2, <1>5 DEF AgentUp, Counted, TypeOK, Dirs
  <2>2. Abstract!Deliver(t, "up")
    BY <1>1, <1>5, <2>1 DEF AgentUp, Abstract!Deliver
  <2> QED
    BY <2>2 DEF Abstract!Next, Dirs
<1>6. CASE HubDown(t)
  <2>1. got[t]["down"] < sent[t]["down"]
    BY <1>2, <1>6 DEF HubDown, Counted, TypeOK, Dirs
  <2>2. <<t, "down">> \notin eof
    BY <1>2, <1>6 DEF HubDown, Copying, HubShape
  <2>3. Abstract!Deliver(t, "down")
    BY <1>1, <1>6, <2>1, <2>2 DEF HubDown, Abstract!Deliver
  <2> QED
    BY <2>3 DEF Abstract!Next, Dirs
<1> QED
  BY <1>3, <1>4, <1>5, <1>6

\* The receiver is told that there is no more: that was all, or it was cut.
LEMMA EndSteps ==
  ASSUME IInv, NEW t \in Streams, AgentUpEnds(t) \/ HubDownEnds(t)
  PROVE  [Abstract!Next]_(Abstract!vars)
<1> USE DEF dataVars, hubVars, linkVars
<1>1. /\ UNCHANGED <<client, sshd, agent, cut, via, session, alive, sent, got>>
      /\ HasFinished' = HasFinished /\ IsBroken' = IsBroken
  BY DEF AgentUpEnds, HubDownEnds, CopyReturns, HasFinished, IsBroken, Lost, LinkAlive
<1>2. Counted(t) /\ InUse(t) /\ SshdShape(t) /\ HubShape(t) /\ TypeOK
  BY DEF IInv, Shape
<1>3. \A d \in Dirs : got[t][d] \in Nat /\ mid[t][d] \in Nat /\ sent[t][d] \in Nat
  BY <1>2 DEF TypeOK
<1>4. CASE AgentUpEnds(t)
  <2>1. client[t] # "none" /\ via[t] # 0
    BY <1>2, <1>4 DEF AgentUpEnds, InUse
  <2>2. \/ Fin(t, "up") /\ got[t]["up"] = sent[t]["up"]
        \/ Broken(t, "up")
    BY <1>2, <1>4, <2>1 DEF AgentUpEnds, StreamEnded, HubShape, Fin, Broken, Lost, Dirs
  <2>3. eof' = eof \cup {<<t, "up">>}
    BY <1>4 DEF AgentUpEnds
  <2>4. Abstract!End(t, "up")
    BY <1>1, <2>2, <2>3, Mapped DEF Abstract!End, Dirs
  <2> QED
    BY <2>4 DEF Abstract!Next, Dirs
<1>5. CASE HubDownEnds(t) /\ eof' = eof
  BY <1>1, <1>5 DEF Abstract!vars
<1>6. CASE HubDownEnds(t) /\ eof' # eof
  <2>1. via[t] # 0 /\ hub[t] # "ended"
    BY <1>2, <1>6 DEF HubDownEnds, CopyReturns, Copying, InUse
  <2>2. /\ eof' = eof \cup {<<t, "down">>}
        /\ \/ agent[t] = "ended" /\ got[t]["down"] = mid[t]["down"]
           \/ ~LinkAlive(t)
    BY <1>6 DEF HubDownEnds
  <2>3. \/ Fin(t, "down") /\ got[t]["down"] = sent[t]["down"]
        \/ Broken(t, "down")
    BY <1>2, <2>1, <2>2 DEF SshdShape, Fin, Broken, Lost
  <2>4. Abstract!End(t, "down")
    BY <1>1, <2>2, <2>3, Mapped DEF Abstract!End, Dirs
  <2> QED
    BY <2>4 DEF Abstract!Next, Dirs
<1> QED
  BY <1>4, <1>5, <1>6

LEMMA RecycleIsReset ==
  ASSUME IInv, NEW t \in Streams, Recycle(t)
  PROVE  Abstract!Next
<1>1. /\ sent' = [sent EXCEPT ![t] = Abstract!Nothing]
      /\ got' = [got EXCEPT ![t] = Abstract!Nothing]
      /\ eof' = eof \ ({t} \X Dirs)
  BY DEF Recycle, Nothing, Abstract!Nothing
<1>2. /\ \A u \in Streams \ {t} : UNCHANGED <<client[u], sshd[u], agent[u], via[u]>>
      /\ client'[t] = "none" /\ sshd'[t] = "none" /\ agent'[t] = "none" /\ via'[t] = 0
      /\ UNCHANGED <<session, alive>> /\ cut' = cut \ ({t} \X Dirs)
  BY DEF Recycle, IInv, TypeOK
<1>3. ASSUME NEW u \in Streams, NEW d \in Dirs
      PROVE  /\ Fin(u, d)' <=> u # t /\ Fin(u, d)
             /\ Broken(u, d)' <=> u # t /\ Broken(u, d)
  BY <1>2 DEF Fin, Broken, Lost, LinkAlive
<1>4. HasFinished' = HasFinished \ ({t} \X Dirs)
  <2>1. HasFinished' \subseteq HasFinished \ ({t} \X Dirs)
    BY <1>3, Mapped, Pairs DEF HasFinished
  <2>2. HasFinished \ ({t} \X Dirs) \subseteq HasFinished'
    BY <1>3, Mapped, Pairs DEF HasFinished
  <2> QED
    BY <2>1, <2>2
<1>5. IsBroken' = IsBroken \ ({t} \X Dirs)
  <2>1. IsBroken' \subseteq IsBroken \ ({t} \X Dirs)
    BY <1>3, Mapped, Pairs DEF IsBroken
  <2>2. IsBroken \ ({t} \X Dirs) \subseteq IsBroken'
    BY <1>3, Mapped, Pairs DEF IsBroken
  <2> QED
    BY <2>1, <2>2
<1>6. Abstract!Reset(t)
  BY <1>1, <1>4, <1>5 DEF Abstract!Reset
<1> QED
  BY <1>6 DEF Abstract!Next

LEMMA InitIsPipe == Init => Abstract!Init
<1> SUFFICES ASSUME Init PROVE Abstract!Init
  OBVIOUS
<1>1. HasFinished = {}
  BY DEF Init, HasFinished, Dirs
<1>2. IsBroken = {}
  BY DEF Init, IsBroken, Lost
<1> QED
  BY <1>1, <1>2 DEF Init, Abstract!Init, Nothing, Abstract!Nothing

LEMMA StepIsPipe == IInv /\ IInv' /\ [Next]_vars => [Abstract!Next]_(Abstract!vars)
<1> SUFFICES ASSUME IInv, IInv', [Next]_vars PROVE [Abstract!Next]_(Abstract!vars)
  OBVIOUS
<1>1. CASE UNCHANGED vars
  BY <1>1 DEF vars, hubVars, linkVars, dataVars, Abstract!vars, HasFinished, IsBroken,
     Lost, LinkAlive
<1>2. CASE SessionStep
  BY <1>2, SessionIsBreak DEF IInv
<1>3. ASSUME NEW t \in Streams, StreamStep(t)
      PROVE  [Abstract!Next]_(Abstract!vars)
  BY <1>3, QuietIsBreak, DataSteps, EndSteps, RecycleIsReset
     DEF IInv, StreamStep, HubStep, AgentStep, QuietStep
<1> QED
  BY <1>1, <1>2, <1>3, Steps

\* The hub's bridge, yamux and the agent's bridge are together the pipe that
\* Pipe promises, for any window and any number of streams and sessions:
\* neither end is told that all has arrived while a part is on the way, and
\* nothing arrives after the end (bridge in proxy.go and in client.go).
THEOREM TunnelIsPipe == Spec => IsPipe
<1>1. Init => Abstract!Init
  BY InitIsPipe
<1>2. IInv /\ IInv' /\ [Next]_vars => [Abstract!Next]_(Abstract!vars)
  BY StepIsPipe
<1> QED
  BY <1>1, <1>2, Invariance, PTL DEF Spec, IsPipe, Abstract!Spec

-----------------------------------------------------------------------------
(***************************************************************************)
(* What the ends may rely on.  It is proved of the pipe, whose steps are   *)
(* few, and holds of whatever is one.                                      *)
(***************************************************************************)

\* An end that has been told that there is no more has everything, and the
\* other has said that it is done; or the direction was cut.
EndMeansWhole == \A t \in Streams, d \in Dirs :
    <<t, d>> \in eof =>
        \/ <<t, d>> \in IsBroken
        \/ <<t, d>> \in HasFinished /\ got[t][d] = sent[t][d]

LEMMA PipeKeepsWhole ==
  ASSUME TypeOK, TypeOK', EndMeansWhole, [Abstract!Next]_(Abstract!vars)
  PROVE  EndMeansWhole'
<1> USE DEF EndMeansWhole
<1>1. CASE UNCHANGED Abstract!vars
  BY <1>1 DEF Abstract!vars
<1>2. ASSUME NEW t \in Streams, NEW d \in Dirs, Abstract!Send(t, d)
      PROVE  EndMeansWhole'
  <2>1. /\ UNCHANGED <<got, HasFinished, eof, IsBroken>> /\ <<t, d>> \notin HasFinished
        /\ \A u \in Streams, e \in Dirs :
              <<u, e>> # <<t, d>> => sent'[u][e] = sent[u][e]
    BY <1>2 DEF Abstract!Send, TypeOK
  <2> QED
    BY <2>1
<1>3. ASSUME NEW t \in Streams, NEW d \in Dirs, Abstract!Deliver(t, d)
      PROVE  EndMeansWhole'
  <2>1. /\ UNCHANGED <<sent, HasFinished, eof, IsBroken>> /\ <<t, d>> \notin eof
        /\ \A u \in Streams, e \in Dirs :
              <<u, e>> # <<t, d>> => got'[u][e] = got[u][e]
    BY <1>3 DEF Abstract!Deliver, TypeOK
  <2> QED
    BY <2>1
<1>4. ASSUME NEW t \in Streams, NEW d \in Dirs, Abstract!Finish(t, d) \/ Abstract!End(t, d)
      PROVE  EndMeansWhole'
  BY <1>4 DEF Abstract!Finish, Abstract!End
<1>5. ASSUME NEW lost, NEW closed, NEW told, Abstract!Break(lost, closed, told)
      PROVE  EndMeansWhole'
  BY <1>5 DEF Abstract!Break
<1>6. ASSUME NEW t \in Streams, Abstract!Reset(t)
      PROVE  EndMeansWhole'
  <2>1. \A u \in Streams \ {t} : sent'[u] = sent[u] /\ got'[u] = got[u]
    BY <1>6 DEF Abstract!Reset, TypeOK
  <2>2. \A u \in Streams, d \in Dirs : <<u, d>> \in eof' => u # t /\ <<u, d>> \in eof
    BY <1>6 DEF Abstract!Reset
  <2>3. \A u \in Streams \ {t}, d \in Dirs :
          /\ <<u, d>> \in IsBroken => <<u, d>> \in IsBroken'
          /\ <<u, d>> \in HasFinished => <<u, d>> \in HasFinished'
    BY <1>6 DEF Abstract!Reset
  <2> QED
    BY <2>1, <2>2, <2>3
<1> QED
  BY <1>1, <1>2, <1>3, <1>4, <1>5, <1>6 DEF Abstract!Next

\* Whoever is told the end, sshd or the jump user, has all that was sent by
\* one who has finished, unless the session, the five seconds or a dial that
\* failed broke the direction: no short answer passes for a whole one (bridge
\* in proxy.go and in client.go).
THEOREM EndIsWhole == Spec => []EndMeansWhole
<1>1. Abstract!Init => EndMeansWhole
  BY DEF Abstract!Init, EndMeansWhole
<1>2. IInv => TypeOK
  BY DEF IInv
<1>3. TypeOK /\ TypeOK' /\ EndMeansWhole /\ [Abstract!Next]_(Abstract!vars)
        => EndMeansWhole'
  BY PipeKeepsWhole
<1> QED
  BY <1>1, <1>2, <1>3, Invariance, TunnelIsPipe, PTL DEF IsPipe, Abstract!Spec

-----------------------------------------------------------------------------
(***************************************************************************)
(* The five seconds.  IInv says when a copy may have returned; what is     *)
(* wanted here is also what it had done by then.                           *)
(***************************************************************************)

\* A copy that has returned with the session alive had passed on everything:
\* to the stream, or, unless the jump user left, to the channel.
UpPassedOn(t) ==
    <<t, "up">> \in finished /\ ~Lost(t) =>
        client[t] # "open" /\ mid[t]["up"] = sent[t]["up"]

DownPassedOn(t) ==
    <<t, "down">> \in finished /\ ~Lost(t) /\ client[t] # "gone" =>
        agent[t] = "ended" /\ got[t]["down"] = sent[t]["down"]

\* The five seconds cut what has not returned, once the other has.
CutShape(t) ==
    \A d \in Dirs : <<t, d>> \in cut =>
        /\ hub[t] = "ended"
        /\ <<t, d>> \notin finished
        /\ \A e \in Dirs \ {d} : <<t, e>> \in finished

Halves(t) ==
    /\ sshd[t] = "none" => sent[t]["down"] = 0
    /\ UpPassedOn(t)
    /\ DownPassedOn(t)
    /\ CutShape(t)

LEMMA FrameKeepsHalves ==
  ASSUME NEW u \in Streams, Halves(u), Frame(u)
  PROVE  Halves(u)'
BY DEF Halves, UpPassedOn, DownPassedOn, CutShape, Frame, Dirs

LEMMA UserKeepsHalves ==
  ASSUME IInv, NEW t \in Streams, Halves(t),
         \/ OpenStream(t) \/ ClientSend(t) \/ ClientStalls(t) \/ SshdStalls(t) \/ Recycle(t)
         \/ \E how \in {"eof", "gone"} : ClientEnds(t, how)
  PROVE  Halves(t)'
<1> USE DEF IInv, TypeOK, Lost, LinkAlive, dataVars, hubVars, linkVars, Dirs
<1>1. CASE OpenStream(t)
  <2>1. /\ \A d \in Dirs : <<t, d>> \notin finished' \cup cut'
        /\ UNCHANGED <<sshd, sent>>
    BY <1>1 DEF OpenStream, Shape, InUse
  <2> QED
    BY <2>1 DEF Halves, UpPassedOn, DownPassedOn, CutShape
<1>2. CASE ClientSend(t)
  <2>1. /\ UNCHANGED <<client, hub, agent, sshd, via, session, alive, finished, cut, got>>
        /\ client[t] = "open" /\ sent'[t]["down"] = sent[t]["down"]
    BY <1>2 DEF ClientSend
  <2> QED
    BY <2>1 DEF Halves, UpPassedOn, DownPassedOn, CutShape
<1>3. CASE ClientStalls(t) \/ SshdStalls(t)
  BY <1>3 DEF ClientStalls, SshdStalls, Halves, UpPassedOn, DownPassedOn, CutShape
<1>4. ASSUME NEW how \in {"eof", "gone"}, ClientEnds(t, how)
      PROVE  Halves(t)'
  <2>1. /\ UNCHANGED <<hub, agent, sshd, via, session, alive, finished, cut, sent, mid, got>>
        /\ client'[t] = how /\ (client[t] = "gone" => how = "gone")
    BY <1>4 DEF ClientEnds
  <2> QED
    BY <2>1 DEF Halves, UpPassedOn, DownPassedOn, CutShape
<1>5. CASE Recycle(t)
  <2>1. /\ \A d \in Dirs : <<t, d>> \notin finished' \cup cut'
        /\ sent'[t] = Nothing
    BY <1>5 DEF Recycle
  <2> QED
    BY <2>1 DEF Halves, UpPassedOn, DownPassedOn, CutShape, Nothing
<1> QED
  BY <1>1, <1>2, <1>3, <1>4, <1>5

LEMMA HubKeepsHalves ==
  ASSUME IInv, NEW t \in Streams, Halves(t), HubStep(t)
  PROVE  Halves(t)'
<1> USE DEF IInv, TypeOK, Lost, LinkAlive, dataVars, hubVars, linkVars, Dirs
<1>0. \A d \in Dirs : got[t][d] \in Nat /\ mid[t][d] \in Nat /\ sent[t][d] \in Nat
  OBVIOUS
<1>1. CASE HubUp(t)
  <2>1. /\ UNCHANGED <<client, hub, agent, sshd, via, session, alive, finished, cut>>
        /\ UNCHANGED <<sent, got>> /\ <<t, "up">> \notin finished
    BY <1>1 DEF HubUp
  <2> QED
    BY <2>1 DEF Halves, UpPassedOn, DownPassedOn, CutShape
<1>2. CASE HubDown(t)
  <2>1. /\ UNCHANGED <<client, hub, agent, sshd, via, session, alive, finished, cut>>
        /\ UNCHANGED <<sent, mid>> /\ <<t, "down">> \notin finished
    BY <1>2 DEF HubDown
  <2> QED
    BY <2>1 DEF Halves, UpPassedOn, DownPassedOn, CutShape
<1>3. ASSUME NEW d \in Dirs, CopyReturns(t, d)
      PROVE  /\ UNCHANGED <<client, agent, sshd, via, session, alive, cut, sent, mid, got>>
             /\ finished' = finished \cup {<<t, d>>}
             /\ via[t] # 0 /\ client[t] # "none" /\ hub[t] # "ended" /\ CutShape(t)'
  <2>1. /\ UNCHANGED <<client, agent, sshd, via, session, alive, cut, sent, mid, got>>
        /\ hub[t] \in {"open", "half"} /\ finished' = finished \cup {<<t, d>>}
    BY <1>3 DEF CopyReturns, Copying
  <2>2. \A e \in Dirs : <<t, e>> \notin cut
    BY <2>1 DEF Halves, CutShape
  <2>3. via[t] # 0 /\ client[t] # "none"
    BY <2>1 DEF Shape, InUse
  <2> QED
    BY <2>1, <2>2, <2>3 DEF CutShape
<1>4. CASE HubUpEnds(t)
  <2>1. CopyReturns(t, "up")
    BY <1>4 DEF HubUpEnds
  <2>2. Lost(t) \/ (client[t] # "open" /\ mid[t]["up"] = sent[t]["up"])
    BY <1>3, <1>4, <2>1 DEF HubUpEnds
  <2> QED
    BY <1>3, <2>1, <2>2 DEF Halves, UpPassedOn, DownPassedOn
<1>5. CASE HubDownEnds(t)
  <2>1. CopyReturns(t, "down")
    BY <1>5 DEF HubDownEnds
  <2>2. \/ agent[t] = "ended" /\ got[t]["down"] = mid[t]["down"]
        \/ Lost(t)
        \/ client[t] = "gone"
    BY <1>3, <1>5, <2>1 DEF HubDownEnds
  <2>3. agent[t] = "ended" /\ ~Lost(t) => mid[t]["down"] = sent[t]["down"]
    <3>1. Counted(t) /\ SshdShape(t) /\ hub[t] # "ended"
      BY <1>3, <2>1 DEF Shape
    <3> QED
      BY <1>0, <3>1 DEF Counted, SshdShape, Halves
  <2> QED
    BY <1>3, <2>1, <2>2, <2>3 DEF Halves, UpPassedOn, DownPassedOn
<1>6. CASE HubTimeout(t)
  <2>1. /\ UNCHANGED <<client, finished, agent, sshd, via, session, alive, sent, mid, got>>
        /\ hub[t] = "half" /\ hub'[t] = "ended"
        /\ cut' = cut \cup (({t} \X Dirs) \ finished)
    BY <1>6 DEF HubTimeout
  <2>2. \A d \in Dirs : <<t, d>> \notin cut
    BY <2>1 DEF Halves, CutShape
  <2>3. \E d \in Dirs : <<t, d>> \in finished
    BY <2>1 DEF Shape, HubShape
  <2>4. CutShape(t)'
    BY <2>1, <2>2, <2>3 DEF CutShape
  <2> QED
    BY <2>1, <2>4 DEF Halves, UpPassedOn, DownPassedOn
<1> QED
  BY <1>1, <1>2, <1>4, <1>5, <1>6 DEF HubStep

LEMMA AgentKeepsHalves ==
  ASSUME IInv, NEW t \in Streams, Halves(t), AgentStep(t) \/ SshdSend(t) \/ SshdCloses(t)
  PROVE  Halves(t)'
<1> USE DEF IInv, TypeOK, Lost, LinkAlive, dataVars, hubVars, linkVars, Dirs
<1>1. /\ UNCHANGED <<client, hub, via, session, alive, finished, cut>>
      /\ sent'[t]["up"] = sent[t]["up"] /\ mid'[t]["up"] = mid[t]["up"]
  BY DEF AgentStep, AgentAccept, AgentDropped, DialSshd, DialFails, BridgeReturns,
         AgentUp, AgentUpEnds, AgentDown, AgentDownEnds, SshdSend, SshdCloses
<1>2. UpPassedOn(t)' /\ CutShape(t)'
  BY <1>1 DEF Halves, UpPassedOn, CutShape
<1>3. agent[t] = "ended" => /\ ~AgentStep(t) /\ sshd[t] # "open"
                            /\ agent'[t] = "ended" /\ UNCHANGED <<sent, got>>
  <2>1. AgentStep(t) => agent[t] # "ended"
    BY DEF AgentStep, AgentAccept, AgentDropped, DialSshd, DialFails,
           AgentUp, AgentUpEnds, AgentDown, AgentDownEnds
  <2>2. agent[t] = "ended" => sshd[t] # "open"
    BY DEF Shape, SshdShape
  <2>3. SshdSend(t) \/ SshdCloses(t) => sshd[t] = "open"
    BY DEF SshdSend, SshdCloses
  <2> QED
    BY <2>1, <2>2, <2>3
<1>4. DownPassedOn(t)'
  BY <1>1, <1>3 DEF Halves, DownPassedOn
<1>5. sshd'[t] = "none" => sent'[t]["down"] = 0
  BY DEF Halves, AgentStep, AgentAccept, AgentDropped, DialSshd, DialFails, BridgeReturns,
         AgentUp, AgentUpEnds, AgentDown, AgentDownEnds, SshdSend, SshdCloses
<1> QED
  BY <1>2, <1>4, <1>5 DEF Halves

LEMMA HalvesKeep ==
  ASSUME IInv, [Next]_vars, \A t \in Streams : Halves(t)
  PROVE  \A t \in Streams : Halves(t)'
<1>1. CASE UNCHANGED vars
  BY <1>1 DEF vars, slotVars, linkVars, hubVars, dataVars, Halves, UpPassedOn,
     DownPassedOn, CutShape, Lost, LinkAlive
<1>2. CASE SessionStep
  BY <1>2, SessionFrames, FrameKeepsHalves DEF SessionStep
<1>3. ASSUME NEW t \in Streams, StreamStep(t), NEW u \in Streams
      PROVE  Halves(u)'
  <2>1. CASE u # t
    BY <1>3, <2>1, OthersFramed, FrameKeepsHalves DEF IInv
  <2>2. CASE u = t
    BY <1>3, <2>2, UserKeepsHalves, HubKeepsHalves, AgentKeepsHalves DEF StreamStep
  <2> QED
    BY <2>1, <2>2
<1> QED
  BY <1>1, <1>2, <1>3, Steps

\* The five seconds take at most one direction, and never for nothing: the
\* other has returned and, with the session alive, had passed on all that was
\* sent before its sender finished, unless it was the jump user who left.
SecondHalfOnly == \A t \in Streams, d, e \in Dirs :
    d # e /\ <<t, d>> \in cut =>
        /\ <<t, e>> \in finished \ cut
        /\ e = "up" /\ ~Lost(t) =>
             client[t] # "open" /\ mid[t]["up"] = sent[t]["up"]
        /\ e = "down" /\ ~Lost(t) /\ client[t] # "gone" =>
             agent[t] = "ended" /\ got[t]["down"] = sent[t]["down"]

\* The hub's time-out after one half has ended cuts the other half only: what
\* the half that ended carried has gone through (bridge in proxy.go).
THEOREM TimeoutCutsOneHalf == Spec => []SecondHalfOnly
<1>1. Init => \A t \in Streams : Halves(t)
  BY DEF Init, Halves, UpPassedOn, DownPassedOn, CutShape, Nothing, Dirs
<1>2. IInv /\ (\A t \in Streams : Halves(t)) /\ [Next]_vars
        => (\A t \in Streams : Halves(t))'
  BY HalvesKeep
<1>3. (\A t \in Streams : Halves(t)) => SecondHalfOnly
  BY DEF Halves, UpPassedOn, DownPassedOn, CutShape, SecondHalfOnly
<1> QED
  BY <1>1, <1>2, <1>3, Invariance, PTL DEF Spec
=============================================================================
