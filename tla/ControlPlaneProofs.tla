------------------------- MODULE ControlPlaneProofs -------------------------
(***************************************************************************)
(* Theorems about the control plane, for any number of agents, sessions,   *)
(* backends and slots.  IInv is the inductive invariant: type correctness, *)
(* the agreement of registry, handlers and slots, and what ties a claim,   *)
(* an open session and an opener's copy of a session to the handler.  What *)
(* an agent believes and what the registry offers come last.               *)
(***************************************************************************)
EXTENDS ControlPlane, FiniteSetTheorems, TLAPS

\* A session that has a handler, or waits for one, was dialled by an agent,
\* and what register() returned is what that agent's token resolves to.
ClaimInv ==
    \A s \in Sessions :
        /\ handler[s] # "none" => dialler[s] \in Agents
        /\ handler[s] \in {"answered", "serving"} =>
                claim[s] \in Backends /\ claim[s] = Assigned[dialler[s]]

\* The hub's end of a session is only open under a handler that has neither
\* refused it nor left it behind.
OpenInv ==
    \A s \in hubOpen : handler[s] \in {"register", "answered", "serving"}

\* An opener's copy is a session that was bound to its target: not one that
\* waits to be accepted under a reused identity.
OpenerInv ==
    \A c \in Clients :
        opener[c] # "idle" =>
            /\ target[c] \in Backends
            /\ held[c] \in Sessions
            /\ handler[held[c]] # "backlog"

IInv ==
    /\ TypeOK
    /\ ClaimInv
    /\ OpenInv
    /\ OpenerInv
    /\ RegistryMatchesHandlers
    /\ SlotsMatchHandlers
    /\ HeldIsBound
    /\ StreamReachesOwner

-----------------------------------------------------------------------------
(***************************************************************************)
(* Slots: counting the running handlers.                                   *)
(***************************************************************************)

RunningSet == {s \in Sessions : handler[s] \in Running}

\* No handler starts or ends: the number of slots in use stays right
\* (server.go ListenAndServe).
LEMMA SlotsKept ==
    ASSUME SlotsMatchHandlers, slots' = slots, RunningSet' = RunningSet
    PROVE  SlotsMatchHandlers'
BY DEF SlotsMatchHandlers, RunningSet

\* One handler starts and takes a slot (server.go:63).
LEMMA SlotTaken ==
    ASSUME SlotsMatchHandlers, NEW s \in Sessions, s \notin RunningSet,
           slots' = slots + 1, RunningSet' = RunningSet \cup {s}
    PROVE  SlotsMatchHandlers'
<1>1. IsFiniteSet(RunningSet)
  BY BoundsAssumption, FS_Subset, RunningSet \subseteq Sessions DEF RunningSet
<1>2. Cardinality(RunningSet \cup {s}) = Cardinality(RunningSet) + 1
  BY <1>1, FS_AddElement
<1> QED
  BY <1>2 DEF SlotsMatchHandlers, RunningSet

\* One handler ends and gives its slot back (server.go:65).
LEMMA SlotReturned ==
    ASSUME SlotsMatchHandlers, NEW s \in Sessions, s \in RunningSet,
           slots' = slots - 1, RunningSet' = RunningSet \ {s}
    PROVE  SlotsMatchHandlers' /\ slots > 0
<1>1. IsFiniteSet(RunningSet)
  BY BoundsAssumption, FS_Subset, RunningSet \subseteq Sessions DEF RunningSet
<1>2. Cardinality(RunningSet \ {s}) = Cardinality(RunningSet) - 1
  BY <1>1, FS_RemoveElement
<1>3. /\ Cardinality(RunningSet) \in Nat
      /\ Cardinality(RunningSet \ {s}) \in Nat
  BY <1>1, FS_CardinalityType, FS_RemoveElement
<1> QED
  BY <1>2, <1>3 DEF SlotsMatchHandlers, RunningSet

-----------------------------------------------------------------------------
(***************************************************************************)
(* The invariant holds initially and is preserved by every action.         *)
(***************************************************************************)

\* The empty hub satisfies the invariant (registry.go NewRegistry).
LEMMA InitIInv == Init => IInv
<1> SUFFICES ASSUME Init PROVE IInv
  OBVIOUS
<1>1. RunningSet = {}
  BY DEF Init, RunningSet, Running
<1>2. SlotsMatchHandlers
  BY <1>1, FS_EmptySet DEF SlotsMatchHandlers, RunningSet, Init
<1>3. TypeOK
  <2>1. /\ MinBackoff \in MinBackoff..MaxBackoff
        /\ 0 \in 0..ControlSlots
        /\ 0 \in 0..MaxFaults
    BY BoundsAssumption
  <2>2. backoff \in [Agents -> MinBackoff..MaxBackoff]
    BY <2>1 DEF Init
  <2>3. slots \in 0..ControlSlots /\ faults \in 0..MaxFaults
    BY <2>1 DEF Init
  <2> QED
    BY <2>2, <2>3 DEF Init, TypeOK, HandlerPcs, AgentPcs, OpenerPcs
<1> QED
  BY <1>2, <1>3, NamesAssumption
  DEF Init, IInv, ClaimInv, OpenInv, OpenerInv, RegistryMatchesHandlers,
      HeldIsBound, StreamReachesOwner

\* A step of the hub's handlers, notices and deadlines preserves the invariant.
LEMMA HandlerIInv ==
    ASSUME IInv, NEW s \in Sessions,
           HandlerStep(s) \/ HubNotice(s) \/ HubDeadline(s) \/ CutLink(s)
    PROVE  IInv'
<1> USE NamesAssumption, BoundsAssumption
<1>1. CASE Accept(s)
  <2>1. CASE slots < ControlSlots
    <3>1. SlotsMatchHandlers'
      <4>1. s \notin RunningSet /\ RunningSet' = RunningSet \cup {s} /\ slots' = slots + 1
        BY <1>1, <2>1 DEF Accept,
          RunningSet, Running, IInv, TypeOK
      <4> QED
        BY <4>1, SlotTaken DEF IInv
    <3>2. TypeOK'
      BY <1>1, <2>1 DEF Accept, IInv, TypeOK, HandlerPcs, agentVars, openerVars
    <3> QED
      BY <1>1, <2>1, <3>1, <3>2
      DEF Accept, IInv, TypeOK, ClaimInv, OpenInv, OpenerInv,
          RegistryMatchesHandlers, HeldIsBound, StreamReachesOwner, agentVars, openerVars
  <2>2. CASE slots >= ControlSlots
    <3>1. SlotsMatchHandlers'
      <4>1. RunningSet' = RunningSet /\ slots' = slots
        BY <1>1, <2>2 DEF Accept,
          RunningSet, Running, IInv, TypeOK
      <4> QED
        BY <4>1, SlotsKept DEF IInv
    <3>2. TypeOK'
      BY <1>1, <2>2 DEF Accept, IInv, TypeOK, HandlerPcs, agentVars, openerVars
    <3> QED
      BY <1>1, <2>2, <3>1, <3>2
      DEF Accept, IInv, TypeOK, ClaimInv, OpenInv, OpenerInv,
          RegistryMatchesHandlers, HeldIsBound, StreamReachesOwner, agentVars, openerVars
  <2> QED
    BY <1>1, <2>1, <2>2 DEF Accept
<1>2. CASE RegisterFail(s)
  <2>1. SlotsMatchHandlers'
    <3>1. RunningSet' = RunningSet /\ slots' = slots
      BY <1>2 DEF RegisterFail, CloseAtHub, agentVars, openerVars,
          RunningSet, Running, IInv, TypeOK
    <3> QED
      BY <3>1, SlotsKept DEF IInv
  <2>2. TypeOK'
    BY <1>2, <2>1 DEF RegisterFail, CloseAtHub, agentVars, openerVars,
          IInv, TypeOK, ClaimInv, HandlerPcs
  <2> QED
    BY <1>2, <2>1, <2>2
    DEF RegisterFail, CloseAtHub, agentVars, openerVars,
          IInv, TypeOK, ClaimInv, OpenInv, OpenerInv,
          RegistryMatchesHandlers, HeldIsBound, StreamReachesOwner
<1>3. CASE RegisterRefuse(s)
  <2>1. SlotsMatchHandlers'
    <3>1. RunningSet' = RunningSet /\ slots' = slots
      BY <1>3 DEF RegisterRefuse, CloseAtHub, ResolveToken, agentVars, openerVars,
          RunningSet, Running, IInv, TypeOK
    <3> QED
      BY <3>1, SlotsKept DEF IInv
  <2>2. TypeOK'
    BY <1>3, <2>1 DEF RegisterRefuse, CloseAtHub, ResolveToken, agentVars, openerVars,
          IInv, TypeOK, ClaimInv, HandlerPcs
  <2> QED
    BY <1>3, <2>1, <2>2
    DEF RegisterRefuse, CloseAtHub, ResolveToken, agentVars, openerVars,
          IInv, TypeOK, ClaimInv, OpenInv, OpenerInv,
          RegistryMatchesHandlers, HeldIsBound, StreamReachesOwner
<1>4. CASE RegisterAnswer(s)
  <2>1. SlotsMatchHandlers'
    <3>1. RunningSet' = RunningSet /\ slots' = slots
      BY <1>4 DEF RegisterAnswer, ResolveToken, agentVars, openerVars,
          RunningSet, Running, IInv, TypeOK
    <3> QED
      BY <3>1, SlotsKept DEF IInv
  <2>2. TypeOK'
    BY <1>4, <2>1 DEF RegisterAnswer, ResolveToken, agentVars, openerVars,
          IInv, TypeOK, ClaimInv, HandlerPcs
  <2> QED
    BY <1>4, <2>1, <2>2
    DEF RegisterAnswer, ResolveToken, agentVars, openerVars,
          IInv, TypeOK, ClaimInv, OpenInv, OpenerInv,
          RegistryMatchesHandlers, HeldIsBound, StreamReachesOwner
<1>5. CASE RegisterConn(s)
  <2>1. SlotsMatchHandlers'
    <3>1. RunningSet' = RunningSet /\ slots' = slots
      BY <1>5 DEF RegisterConn, CloseAtHub, agentVars, openerVars,
          RunningSet, Running, IInv, TypeOK
    <3> QED
      BY <3>1, SlotsKept DEF IInv
  <2>2. TypeOK'
    BY <1>5, <2>1 DEF RegisterConn, CloseAtHub, agentVars, openerVars,
          IInv, TypeOK, ClaimInv, HandlerPcs
  <2> QED
    BY <1>5, <2>1, <2>2
    DEF RegisterConn, CloseAtHub, agentVars, openerVars,
          IInv, TypeOK, ClaimInv, OpenInv, OpenerInv,
          RegistryMatchesHandlers, HeldIsBound, StreamReachesOwner
<1>6. CASE Unregister(s)
  <2>1. SlotsMatchHandlers'
    <3>1. RunningSet' = RunningSet /\ slots' = slots
      BY <1>6 DEF Unregister, netVars, agentVars, openerVars,
          RunningSet, Running, IInv, TypeOK
    <3> QED
      BY <3>1, SlotsKept DEF IInv
  <2>2. TypeOK'
    BY <1>6, <2>1 DEF Unregister, netVars, agentVars, openerVars,
          IInv, TypeOK, ClaimInv, HandlerPcs
  <2> QED
    BY <1>6, <2>1, <2>2
    DEF Unregister, netVars, agentVars, openerVars,
          IInv, TypeOK, ClaimInv, OpenInv, OpenerInv,
          RegistryMatchesHandlers, HeldIsBound, StreamReachesOwner
<1>7. CASE Return(s)
  <2>1. SlotsMatchHandlers' /\ slots > 0
    <3>1. s \in RunningSet /\ RunningSet' = RunningSet \ {s} /\ slots' = slots - 1
      BY <1>7 DEF Return, netVars, agentVars, openerVars,
          RunningSet, Running, IInv, TypeOK
    <3> QED
      BY <3>1, SlotReturned DEF IInv
  <2>2. TypeOK'
    BY <1>7, <2>1 DEF Return, netVars, agentVars, openerVars,
          IInv, TypeOK, ClaimInv, HandlerPcs
  <2> QED
    BY <1>7, <2>1, <2>2
    DEF Return, netVars, agentVars, openerVars,
          IInv, TypeOK, ClaimInv, OpenInv, OpenerInv,
          RegistryMatchesHandlers, HeldIsBound, StreamReachesOwner
<1>8. CASE HubNotice(s)
  <2>1. SlotsMatchHandlers'
    <3>1. RunningSet' = RunningSet /\ slots' = slots
      BY <1>8 DEF HubNotice, netVars, agentVars, openerVars,
          RunningSet, Running, IInv, TypeOK
    <3> QED
      BY <3>1, SlotsKept DEF IInv
  <2>2. TypeOK'
    BY <1>8, <2>1 DEF HubNotice, netVars, agentVars, openerVars,
          IInv, TypeOK, ClaimInv, HandlerPcs
  <2> QED
    BY <1>8, <2>1, <2>2
    DEF HubNotice, netVars, agentVars, openerVars,
          IInv, TypeOK, ClaimInv, OpenInv, OpenerInv,
          RegistryMatchesHandlers, HeldIsBound, StreamReachesOwner
<1>9. CASE HubDeadline(s)
  <2>1. SlotsMatchHandlers'
    <3>1. RunningSet' = RunningSet /\ slots' = slots
      BY <1>9 DEF HubDeadline, CloseAtHub, agentVars, openerVars,
          RunningSet, Running, IInv, TypeOK
    <3> QED
      BY <3>1, SlotsKept DEF IInv
  <2>2. TypeOK'
    BY <1>9, <2>1 DEF HubDeadline, CloseAtHub, agentVars, openerVars,
          IInv, TypeOK, ClaimInv, HandlerPcs
  <2> QED
    BY <1>9, <2>1, <2>2
    DEF HubDeadline, CloseAtHub, agentVars, openerVars,
          IInv, TypeOK, ClaimInv, OpenInv, OpenerInv,
          RegistryMatchesHandlers, HeldIsBound, StreamReachesOwner
<1>10. CASE CutLink(s)
  <2>1. SlotsMatchHandlers'
    <3>1. RunningSet' = RunningSet /\ slots' = slots
      BY <1>10 DEF CutLink, hubVars, agentVars, openerVars,
          RunningSet, Running, IInv, TypeOK
    <3> QED
      BY <3>1, SlotsKept DEF IInv
  <2>2. TypeOK'
    BY <1>10, <2>1 DEF CutLink, hubVars, agentVars, openerVars,
          IInv, TypeOK, ClaimInv, HandlerPcs
  <2> QED
    BY <1>10, <2>1, <2>2
    DEF CutLink, hubVars, agentVars, openerVars,
          IInv, TypeOK, ClaimInv, OpenInv, OpenerInv,
          RegistryMatchesHandlers, HeldIsBound, StreamReachesOwner
<1> QED
  BY <1>1, <1>2, <1>3, <1>4, <1>5, <1>6, <1>7, <1>8, <1>9, <1>10 DEF HandlerStep

\* A step of an agent preserves the invariant: it touches the hub's state only
\* when it dials, and then under an identity that nobody holds.
LEMMA AgentIInv ==
    ASSUME IInv, NEW a \in Agents,
           AgentStep(a) \/ SendRegister(a) \/ AgentStop(a)
    PROVE  IInv'
<1> USE NamesAssumption, BoundsAssumption
<1>1. CASE AgentStart(a)
  <2>1. SlotsMatchHandlers'
    <3>1. RunningSet' = RunningSet /\ slots' = slots
      BY <1>1 DEF AgentStart, hubVars, netVars, openerVars,
          RunningSet, Running, IInv, TypeOK
    <3> QED
      BY <3>1, SlotsKept DEF IInv
  <2>2. TypeOK'
    BY <1>1 DEF AgentStart, hubVars, netVars, openerVars, IInv, TypeOK, AgentPcs, HandlerPcs
  <2> QED
    BY <1>1, <2>1, <2>2
    DEF AgentStart, hubVars, netVars, openerVars,
          IInv, TypeOK, ClaimInv, OpenInv, OpenerInv,
          RegistryMatchesHandlers, HeldIsBound, StreamReachesOwner
<1>2. CASE Dial(a)
  <2>1. SlotsMatchHandlers'
    <3>1. RunningSet' = RunningSet /\ slots' = slots
      BY <1>2 DEF Dial, Free, openerVars,
          RunningSet, Running, IInv, TypeOK
    <3> QED
      BY <3>1, SlotsKept DEF IInv
  <2>2. TypeOK'
    BY <1>2 DEF Dial, Free, openerVars, IInv, TypeOK, AgentPcs, HandlerPcs
  <2> QED
    BY <1>2, <2>1, <2>2
    DEF Dial, Free, openerVars, IInv, TypeOK, ClaimInv, OpenInv, OpenerInv,
          RegistryMatchesHandlers, HeldIsBound, StreamReachesOwner
<1>3. CASE DialFail(a)
  <2>1. SlotsMatchHandlers'
    <3>1. RunningSet' = RunningSet /\ slots' = slots
      BY <1>3 DEF DialFail, hubVars, netVars, openerVars,
          RunningSet, Running, IInv, TypeOK
    <3> QED
      BY <3>1, SlotsKept DEF IInv
  <2>2. TypeOK'
    BY <1>3 DEF DialFail, hubVars, netVars, openerVars, IInv, TypeOK, AgentPcs, HandlerPcs
  <2> QED
    BY <1>3, <2>1, <2>2
    DEF DialFail, hubVars, netVars, openerVars,
          IInv, TypeOK, ClaimInv, OpenInv, OpenerInv,
          RegistryMatchesHandlers, HeldIsBound, StreamReachesOwner
<1>4. CASE ReadOk(a)
  <2>1. SlotsMatchHandlers'
    <3>1. RunningSet' = RunningSet /\ slots' = slots
      BY <1>4 DEF ReadOk, hubVars, netVars, openerVars,
          RunningSet, Running, IInv, TypeOK
    <3> QED
      BY <3>1, SlotsKept DEF IInv
  <2>2. TypeOK'
    BY <1>4 DEF ReadOk, hubVars, netVars, openerVars, IInv, TypeOK, AgentPcs, HandlerPcs
  <2> QED
    BY <1>4, <2>1, <2>2
    DEF ReadOk, hubVars, netVars, openerVars,
          IInv, TypeOK, ClaimInv, OpenInv, OpenerInv,
          RegistryMatchesHandlers, HeldIsBound, StreamReachesOwner
<1>5. CASE ConnectFail(a)
  <2>1. SlotsMatchHandlers'
    <3>1. RunningSet' = RunningSet /\ slots' = slots
      BY <1>5 DEF ConnectFail, CloseAtAgent, hubVars, openerVars,
          RunningSet, Running, IInv, TypeOK
    <3> QED
      BY <3>1, SlotsKept DEF IInv
  <2>2. TypeOK'
    BY <1>5 DEF ConnectFail, CloseAtAgent, hubVars, openerVars, IInv, TypeOK,
        AgentPcs, HandlerPcs
  <2> QED
    BY <1>5, <2>1, <2>2
    DEF ConnectFail, CloseAtAgent, hubVars, openerVars,
          IInv, TypeOK, ClaimInv, OpenInv, OpenerInv,
          RegistryMatchesHandlers, HeldIsBound, StreamReachesOwner
<1>6. CASE WakeBackoff(a)
  <2>1. SlotsMatchHandlers'
    <3>1. RunningSet' = RunningSet /\ slots' = slots
      BY <1>6 DEF WakeBackoff, hubVars, netVars, openerVars,
          RunningSet, Running, IInv, TypeOK
    <3> QED
      BY <3>1, SlotsKept DEF IInv
  <2>2. TypeOK'
    BY <1>6 DEF WakeBackoff, hubVars, netVars, openerVars, IInv, TypeOK, AgentPcs, HandlerPcs
  <2> QED
    BY <1>6, <2>1, <2>2
    DEF WakeBackoff, hubVars, netVars, openerVars,
          IInv, TypeOK, ClaimInv, OpenInv, OpenerInv,
          RegistryMatchesHandlers, HeldIsBound, StreamReachesOwner
<1>7. CASE ServeEnd(a)
  <2>1. SlotsMatchHandlers'
    <3>1. RunningSet' = RunningSet /\ slots' = slots
      BY <1>7 DEF ServeEnd, CloseAtAgent, hubVars, openerVars,
          RunningSet, Running, IInv, TypeOK
    <3> QED
      BY <3>1, SlotsKept DEF IInv
  <2>2. TypeOK'
    BY <1>7 DEF ServeEnd, CloseAtAgent, hubVars, openerVars, IInv, TypeOK,
        AgentPcs, HandlerPcs
  <2> QED
    BY <1>7, <2>1, <2>2
    DEF ServeEnd, CloseAtAgent, hubVars, openerVars,
          IInv, TypeOK, ClaimInv, OpenInv, OpenerInv,
          RegistryMatchesHandlers, HeldIsBound, StreamReachesOwner
<1>8. CASE WakePause(a)
  <2>1. SlotsMatchHandlers'
    <3>1. RunningSet' = RunningSet /\ slots' = slots
      BY <1>8 DEF WakePause, hubVars, netVars, openerVars,
          RunningSet, Running, IInv, TypeOK
    <3> QED
      BY <3>1, SlotsKept DEF IInv
  <2>2. TypeOK'
    BY <1>8 DEF WakePause, hubVars, netVars, openerVars, IInv, TypeOK, AgentPcs, HandlerPcs
  <2> QED
    BY <1>8, <2>1, <2>2
    DEF WakePause, hubVars, netVars, openerVars,
          IInv, TypeOK, ClaimInv, OpenInv, OpenerInv,
          RegistryMatchesHandlers, HeldIsBound, StreamReachesOwner
<1>9. CASE SendRegister(a)
  <2>1. SlotsMatchHandlers'
    <3>1. RunningSet' = RunningSet /\ slots' = slots
      BY <1>9 DEF SendRegister, hubVars, agentVars, openerVars,
          RunningSet, Running, IInv, TypeOK
    <3> QED
      BY <3>1, SlotsKept DEF IInv
  <2>2. TypeOK'
    BY <1>9 DEF SendRegister, hubVars, agentVars, openerVars, IInv, TypeOK,
        AgentPcs, HandlerPcs
  <2> QED
    BY <1>9, <2>1, <2>2
    DEF SendRegister, hubVars, agentVars, openerVars,
          IInv, TypeOK, ClaimInv, OpenInv, OpenerInv,
          RegistryMatchesHandlers, HeldIsBound, StreamReachesOwner
<1>10. CASE AgentStop(a)
  <2>1. SlotsMatchHandlers'
    <3>1. RunningSet' = RunningSet /\ slots' = slots
      BY <1>10 DEF AgentStop, hubVars, openerVars,
          RunningSet, Running, IInv, TypeOK
    <3> QED
      BY <3>1, SlotsKept DEF IInv
  <2>2. TypeOK'
    BY <1>10 DEF AgentStop, hubVars, openerVars, IInv, TypeOK, AgentPcs, HandlerPcs
  <2> QED
    BY <1>10, <2>1, <2>2
    DEF AgentStop, hubVars, openerVars,
          IInv, TypeOK, ClaimInv, OpenInv, OpenerInv,
          RegistryMatchesHandlers, HeldIsBound, StreamReachesOwner
<1> QED
  BY <1>1, <1>2, <1>3, <1>4, <1>5, <1>6, <1>7, <1>8, <1>9, <1>10 DEF AgentStep

\* A step of an opener preserves the invariant: what it copies is bound then,
\* and a live binding stays (registry.go Open).
LEMMA OpenerIInv ==
    ASSUME IInv, NEW c \in Clients, NEW b \in Backends,
           Lookup(c, b) \/ OpenStream(c) \/ LetGo(c)
    PROVE  IInv'
<1> USE NamesAssumption, BoundsAssumption
<1>1. SlotsMatchHandlers'
  <2>1. RunningSet' = RunningSet /\ slots' = slots
    BY DEF Lookup, OpenStream, LetGo, hubVars, RunningSet
  <2> QED
    BY <2>1, SlotsKept DEF IInv
<1>2. CASE Lookup(c, b)
  <2>1. conns[b] \in Sessions
    BY <1>2 DEF Lookup, IInv, TypeOK
  <2>2. handler[conns[b]] = "serving" /\ claim[conns[b]] = b
    BY <2>1 DEF IInv, RegistryMatchesHandlers
  <2> QED
    BY <1>1, <1>2, <2>1, <2>2
    DEF Lookup, hubVars, netVars, agentVars, OpenerPcs,
          IInv, TypeOK, ClaimInv, OpenInv, OpenerInv,
          RegistryMatchesHandlers, HeldIsBound, StreamReachesOwner
<1>3. CASE OpenStream(c)
  BY <1>1, <1>3
  DEF OpenStream, hubVars, netVars, agentVars, OpenerPcs,
          IInv, TypeOK, ClaimInv, OpenInv, OpenerInv,
          RegistryMatchesHandlers, HeldIsBound, StreamReachesOwner
<1>4. CASE LetGo(c)
  BY <1>1, <1>4
  DEF LetGo, hubVars, netVars, agentVars, OpenerPcs,
          IInv, TypeOK, ClaimInv, OpenInv, OpenerInv,
          RegistryMatchesHandlers, HeldIsBound, StreamReachesOwner
<1> QED
  BY <1>2, <1>3, <1>4

\* Starting the hub changes nothing else; stopping it empties everything the
\* invariant speaks of (cmd/sshhub/main.go).
LEMMA HubIInv ==
    ASSUME IInv, HubStart \/ HubStop
    PROVE  IInv'
<1> USE NamesAssumption, BoundsAssumption
<1>1. CASE HubStart
  <2>1. SlotsMatchHandlers'
    <3>1. RunningSet' = RunningSet /\ slots' = slots
      BY <1>1 DEF HubStart, RunningSet
    <3> QED
      BY <3>1, SlotsKept DEF IInv
  <2> QED
    BY <1>1, <2>1
    DEF HubStart, netVars, agentVars, openerVars,
          IInv, TypeOK, ClaimInv, OpenInv, OpenerInv,
          RegistryMatchesHandlers, HeldIsBound, StreamReachesOwner
<1>2. CASE HubStop
  <2>1. SlotsMatchHandlers'
    <3>1. RunningSet' = {}
      BY <1>2 DEF HubStop, RunningSet, Running
    <3> QED
      BY <1>2, <3>1, FS_EmptySet DEF HubStop, SlotsMatchHandlers, RunningSet
  <2>2. TypeOK'
    <3>1. /\ conns' \in [Backends -> Sessions \cup {NoSession}]
          /\ handler' \in [Sessions -> HandlerPcs]
          /\ claim' \in [Sessions -> Backends \cup {NoBackend}]
      BY <1>2 DEF HubStop, HandlerPcs
    <3>2. /\ opener' \in [Clients -> OpenerPcs]
          /\ target' \in [Clients -> Backends \cup {NoBackend}]
          /\ held' \in [Clients -> Sessions \cup {NoSession}]
      BY <1>2 DEF HubStop, OpenerPcs
    <3>3. slots' \in 0..ControlSlots /\ faults' \in 0..MaxFaults
      BY <1>2 DEF HubStop, IInv, TypeOK
    <3> QED
      BY <1>2, <3>1, <3>2, <3>3 DEF HubStop, agentVars, IInv, TypeOK
  <2> QED
    BY <1>2, <2>1, <2>2
    DEF HubStop, agentVars, IInv, TypeOK, ClaimInv, OpenInv, OpenerInv,
          RegistryMatchesHandlers, HeldIsBound, StreamReachesOwner
<1> QED
  BY <1>1, <1>2

\* A stuttering step preserves the invariant.
LEMMA StutterIInv == IInv /\ UNCHANGED vars => IInv'
<1> SUFFICES ASSUME IInv, UNCHANGED vars PROVE IInv'
  OBVIOUS
<1>1. SlotsMatchHandlers'
  <2>1. RunningSet' = RunningSet /\ slots' = slots
    BY DEF vars, hubVars, RunningSet
  <2> QED
    BY <2>1, SlotsKept DEF IInv
<1> QED
  BY <1>1 DEF vars, hubVars, netVars, agentVars, openerVars,
          IInv, TypeOK, ClaimInv, OpenInv, OpenerInv,
          RegistryMatchesHandlers, HeldIsBound, StreamReachesOwner

\* Every step of the control plane preserves the invariant.
LEMMA NextIInv == IInv /\ [Next]_vars => IInv'
<1> SUFFICES ASSUME IInv, [Next]_vars PROVE IInv'
  OBVIOUS
<1>1. ASSUME NEW s \in Sessions,
             HandlerStep(s) \/ HubNotice(s) \/ HubDeadline(s) \/ CutLink(s)
      PROVE  IInv'
  BY <1>1, HandlerIInv
<1>2. ASSUME NEW a \in Agents, AgentStep(a) \/ SendRegister(a) \/ AgentStop(a)
      PROVE  IInv'
  BY <1>2, AgentIInv
<1>3. ASSUME NEW c \in Clients, NEW b \in Backends, Lookup(c, b)
      PROVE  IInv'
  BY <1>3, OpenerIInv
<1>4. ASSUME NEW c \in Clients, OpenStream(c) \/ LetGo(c)
      PROVE  IInv'
  <2>1. target[c] \in Backends
    BY <1>4 DEF OpenStream, LetGo, IInv, OpenerInv
  <2> QED
    BY <1>4, <2>1, OpenerIInv
<1> QED
  BY <1>1, <1>2, <1>3, <1>4, HubIInv, StutterIInv DEF Next

-----------------------------------------------------------------------------
(***************************************************************************)
(* The theorems.                                                           *)
(***************************************************************************)

\* The inductive invariant is an invariant of the control plane.
THEOREM Invariance == SafeSpec => []IInv
<1> QED
  BY InitIInv, NextIInv, PTL DEF SafeSpec

\* Every variable keeps its type; in particular the accept loop never holds
\* more than ControlSlots slots (server.go:50).
THEOREM TypeCorrect == SafeSpec => []TypeOK
<1>1. IInv => TypeOK
  BY DEF IInv
<1> QED
  BY <1>1, Invariance, PTL

\* The registry and the handlers agree in every reachable state.
THEOREM RegistryCorrect == SafeSpec => []RegistryMatchesHandlers
<1>1. IInv => RegistryMatchesHandlers
  BY DEF IInv
<1> QED
  BY <1>1, Invariance, PTL

\* No path through a handler leaks a slot or returns one twice.
THEOREM SlotsCorrect == SafeSpec => []SlotsMatchHandlers
<1>1. IInv => SlotsMatchHandlers
  BY DEF IInv
<1> QED
  BY <1>1, Invariance, PTL

\* Using the session after the registry's lock is released is harmless: it is
\* the registered one for as long as it is open.
THEOREM HeldCorrect == SafeSpec => []HeldIsBound
<1>1. IInv => HeldIsBound
  BY DEF IInv
<1> QED
  BY <1>1, Invariance, PTL

\* The stream it opens ends at an agent that holds the backend's token.
THEOREM OpenCorrect == SafeSpec => []StreamReachesOwner
<1>1. IInv => StreamReachesOwner
  BY DEF IInv
<1> QED
  BY <1>1, Invariance, PTL

\* A session the hub still has open is never displaced while the hub runs:
\* of all steps only Unregister ends a binding, and it finds it closed.
LEMMA BindingStep ==
    ASSUME IInv, [Next]_vars, NEW b \in Backends, conns[b] \in hubOpen, hubUp'
    PROVE  conns'[b] = conns[b]
<1>1. conns[b] # NoSession
  BY NamesAssumption DEF IInv, TypeOK
<1>2. CASE HubStart \/ HubStop
  BY <1>2 DEF HubStart, HubStop
<1>3. ASSUME NEW s \in Sessions, RegisterConn(s)
      PROVE  conns'[b] = conns[b]
  BY <1>1, <1>3 DEF RegisterConn, IInv, TypeOK
<1>4. ASSUME NEW s \in Sessions, Unregister(s)
      PROVE  conns'[b] = conns[b]
  BY <1>4 DEF Unregister, IInv, TypeOK
<1>5. ASSUME NEW s \in Sessions,
             \/ Accept(s) \/ RegisterFail(s) \/ RegisterRefuse(s) \/ RegisterAnswer(s)
             \/ Return(s) \/ HubNotice(s) \/ HubDeadline(s) \/ CutLink(s)
      PROVE  conns' = conns
  BY <1>5 DEF Accept, RegisterFail, RegisterRefuse, RegisterAnswer, Return, HubNotice,
              HubDeadline, CutLink, hubVars
<1>6. ASSUME NEW a \in Agents, AgentStep(a) \/ SendRegister(a) \/ AgentStop(a)
      PROVE  conns' = conns
  BY <1>6 DEF AgentStep, AgentStart, Dial, DialFail, ReadOk, ConnectFail, WakeBackoff,
              ServeEnd, WakePause, SendRegister, AgentStop, hubVars
<1>7. ASSUME NEW c \in Clients,
             (\E d \in Backends : Lookup(c, d)) \/ OpenStream(c) \/ LetGo(c)
      PROVE  conns' = conns
  BY <1>7 DEF Lookup, OpenStream, LetGo, hubVars
<1>8. CASE UNCHANGED vars
  BY <1>8 DEF vars, hubVars
<1> QED
  BY <1>2, <1>3, <1>4, <1>5, <1>6, <1>7, <1>8 DEF Next, HandlerStep

\* A live session is never displaced from the registry by another one: a
\* binding only ends once its session is closed, or with the hub itself
\* (server.go:94, "must not silently displace or shadow the first").
LiveBindingKept ==
    [][\A b \in Backends :
        conns[b] \in hubOpen /\ hubUp' => conns'[b] = conns[b]]_vars

\* A second agent with the same token never displaces the first while the
\* first one's session is alive (server.go:94).
THEOREM NoDisplacement == SafeSpec => LiveBindingKept
<1>1. IInv /\ [Next]_vars =>
        [\A b \in Backends : conns[b] \in hubOpen /\ hubUp' => conns'[b] = conns[b]]_vars
  BY BindingStep
<1> QED
  BY <1>1, Invariance, PTL DEF SafeSpec, LiveBindingKept

-----------------------------------------------------------------------------
(***************************************************************************)
(* The control plane implements BackendDirectory.                          *)
(***************************************************************************)

\* The hub's end of a session dies, or was dead already.
LEMMA DieStep ==
    ASSUME NEW s \in Sessions, conns' = conns, hubOpen' = hubOpen \ {s}
    PROVE  [Directory!Next]_(Directory!vars)
<1>1. CASE s \in hubOpen
  BY <1>1 DEF Directory!Next, Directory!Die
<1>2. CASE s \notin hubOpen
  <2>1. hubOpen' = hubOpen
    BY <1>2
  <2> QED
    BY <2>1 DEF Directory!vars
<1> QED
  BY <1>1, <1>2

\* Each step of the control plane is a step of the directory or leaves it alone.
LEMMA DirectoryStep == IInv /\ [Next]_vars => [Directory!Next]_(Directory!vars)
<1> SUFFICES ASSUME IInv, [Next]_vars PROVE [Directory!Next]_(Directory!vars)
  OBVIOUS
<1>1. ASSUME NEW s \in Sessions, Accept(s)
      PROVE  [Directory!Next]_(Directory!vars)
  <2>1. CASE slots < ControlSlots
    <3>1. s \notin hubOpen /\ ~ Directory!IsBound(s)
      BY <1>1 DEF Accept, IInv, OpenInv, RegistryMatchesHandlers, Directory!IsBound
    <3>2. Directory!Arrive(s)
      BY <1>1, <2>1, <3>1, BoundsAssumption DEF Accept, Directory!Arrive, IInv, TypeOK
    <3> QED
      BY <3>2 DEF Directory!Next
  <2>2. CASE ~ (slots < ControlSlots)
    BY <1>1, <2>2 DEF Accept, Directory!vars
  <2> QED
    BY <2>1, <2>2
<1>2. ASSUME NEW s \in Sessions,
             RegisterFail(s) \/ RegisterRefuse(s) \/ HubNotice(s) \/ HubDeadline(s)
      PROVE  [Directory!Next]_(Directory!vars)
  BY <1>2, DieStep DEF RegisterFail, RegisterRefuse, HubNotice, HubDeadline, CloseAtHub
<1>3. ASSUME NEW s \in Sessions, RegisterAnswer(s)
      PROVE  [Directory!Next]_(Directory!vars)
  <2>1. CASE hubOpen' = hubOpen
    BY <1>3, <2>1 DEF RegisterAnswer, Directory!vars
  <2>2. CASE hubOpen' = hubOpen \ {s}
    BY <1>3, <2>2, DieStep DEF RegisterAnswer
  <2> QED
    BY <1>3, <2>1, <2>2 DEF RegisterAnswer
<1>4. ASSUME NEW s \in Sessions, RegisterConn(s)
      PROVE  [Directory!Next]_(Directory!vars)
  <2>1. CASE conns[claim[s]] = NoSession
    <3>1. claim[s] \in Backends /\ ~ Directory!IsBound(s)
      BY <1>4 DEF RegisterConn, IInv, ClaimInv, RegistryMatchesHandlers,
                  Directory!IsBound
    <3>2. Directory!Bind(claim[s], s)
      BY <1>4, <2>1, <3>1 DEF RegisterConn, Directory!Bind
    <3> QED
      BY <3>1, <3>2 DEF Directory!Next
  <2>2. CASE conns[claim[s]] # NoSession
    BY <1>4, <2>2, DieStep DEF RegisterConn, CloseAtHub
  <2> QED
    BY <2>1, <2>2
<1>5. ASSUME NEW s \in Sessions, Unregister(s)
      PROVE  [Directory!Next]_(Directory!vars)
  <2>1. claim[s] \in Backends /\ conns[claim[s]] = s
    BY <1>5 DEF Unregister, IInv, ClaimInv, RegistryMatchesHandlers
  <2>2. Directory!Drop(claim[s])
    BY <1>5, <2>1, NamesAssumption DEF Unregister, Directory!Drop
  <2> QED
    BY <2>1, <2>2 DEF Directory!Next
<1>6. ASSUME HubStop
      PROVE  [Directory!Next]_(Directory!vars)
  <2>1. Directory!Reset
    BY <1>6 DEF HubStop, Directory!Reset
  <2> QED
    BY <2>1 DEF Directory!Next
<1>7. ASSUME HubStart \/ \E s \in Sessions : Return(s) \/ CutLink(s)
      PROVE  UNCHANGED Directory!vars
  BY <1>7 DEF HubStart, Return, CutLink, hubVars, Directory!vars
<1>8. ASSUME NEW a \in Agents, AgentStep(a) \/ SendRegister(a) \/ AgentStop(a)
      PROVE  UNCHANGED Directory!vars
  BY <1>8 DEF AgentStep, AgentStart, Dial, DialFail, ReadOk, ConnectFail, WakeBackoff,
              ServeEnd, WakePause, SendRegister, AgentStop, hubVars, Directory!vars
<1>9. ASSUME NEW c \in Clients,
             (\E d \in Backends : Lookup(c, d)) \/ OpenStream(c) \/ LetGo(c)
      PROVE  UNCHANGED Directory!vars
  BY <1>9 DEF Lookup, OpenStream, LetGo, hubVars, Directory!vars
<1>10. CASE UNCHANGED vars
  BY <1>10 DEF vars, hubVars, Directory!vars
<1> QED
  BY <1>1, <1>2, <1>3, <1>4, <1>5, <1>6, <1>7, <1>8, <1>9, <1>10 DEF Next, HandlerStep

\* The safety of the directory holds of the control plane: the hub's registry
\* keeps what BackendDirectory promises, for every number of agents.
THEOREM Refinement == SafeSpec => DirectorySafety
<1>1. Init => Directory!Init
  BY DEF Init, Directory!Init
<1> QED
  BY <1>1, DirectoryStep, Invariance, PTL
  DEF SafeSpec, DirectorySafety, Directory!SafeSpec
-----------------------------------------------------------------------------
(***************************************************************************)
(* What the two ends know of each other.  The hub writes OK before it has  *)
(* decided, and a connection may be gone with only one end knowing.        *)
(***************************************************************************)

\* A connection that carries data is held at both ends, and its agent has an
\* OK to read exactly when the handler is past register().
LinkInv ==
    \A s \in Sessions :
        /\ s \in linkUp =>
            /\ dialler[s] \in Agents
            /\ cur[dialler[s]] = s
            /\ handler[s] = "backlog" \/ s \in hubOpen
            /\ reply[s] = "ok" <=> handler[s] \in {"answered", "serving"}
        /\ handler[s] \in {"backlog", "register"} => reply[s] = "none"

\* What an agent's loop holds is a connection it dialled itself.
LoopInv ==
    \A a \in Agents :
        /\ cur[a] # NoSession <=> agent[a] \in {"awaiting", "serving"}
        /\ cur[a] # NoSession => dialler[cur[a]] = a
        /\ agent[a] = "serving" => reply[cur[a]] = "ok"

LEMMA HandlerKeepsLinks ==
  ASSUME IInv, LinkInv, LoopInv, NEW s \in Sessions,
         HandlerStep(s) \/ HubNotice(s) \/ HubDeadline(s) \/ CutLink(s)
  PROVE  LinkInv' /\ LoopInv'
<1>1. /\ UNCHANGED <<dialler, cur, agent>>
      /\ linkUp' \subseteq linkUp
      /\ \A r \in Sessions \ {s} :
            /\ UNCHANGED <<handler[r], reply[r]>>
            /\ r \in linkUp' => r \in linkUp
            /\ r \in hubOpen' <=> r \in hubOpen
  BY DEF IInv, TypeOK, HandlerStep, Accept, RegisterFail, RegisterRefuse, RegisterAnswer,
         RegisterConn, Unregister, Return, HubNotice, HubDeadline, CutLink, CloseAtHub,
         agentVars, netVars, hubVars
<1>2. reply'[s] # reply[s] => handler[s] = "register"
  BY DEF HandlerStep, Accept, RegisterFail, RegisterRefuse, RegisterAnswer,
         RegisterConn, Unregister, Return, HubNotice, HubDeadline, CutLink, CloseAtHub,
         agentVars, netVars, hubVars
<1>3. LoopInv'
  <2>1. \A a \in Agents : cur[a] \in Sessions \cup {NoSession}
    BY DEF IInv, TypeOK
  <2>2. reply[s] = "ok" => reply'[s] = "ok"
    BY <1>2 DEF LinkInv
  <2> QED
    BY <1>1, <2>1, <2>2, NamesAssumption DEF LoopInv
<1>4. /\ s \in linkUp' =>
          /\ handler'[s] = "backlog" \/ s \in hubOpen'
          /\ reply'[s] = "ok" <=> handler'[s] \in {"answered", "serving"}
      /\ handler'[s] \in {"backlog", "register"} => reply'[s] = "none"
  <2> USE DEF IInv, TypeOK, LinkInv, CloseAtHub, agentVars, netVars, hubVars
  <2>1. CASE Accept(s) \/ RegisterFail(s) \/ RegisterRefuse(s) \/ RegisterConn(s)
    BY <2>1 DEF Accept, RegisterFail, RegisterRefuse, RegisterConn
  <2>2. CASE RegisterAnswer(s)
    BY <2>2 DEF RegisterAnswer
  <2>3. CASE Unregister(s) \/ Return(s)
    BY <2>3 DEF Unregister, Return, OpenInv
  <2>4. CASE HubNotice(s) \/ HubDeadline(s) \/ CutLink(s)
    BY <2>4 DEF HubNotice, HubDeadline, CutLink
  <2> QED
    BY <2>1, <2>2, <2>3, <2>4 DEF HandlerStep
<1>5. LinkInv'
  BY <1>1, <1>4 DEF LinkInv
<1> QED
  BY <1>3, <1>5

LEMMA AgentKeepsLinks ==
  ASSUME IInv, LinkInv, LoopInv, NEW a \in Agents,
         AgentStep(a) \/ SendRegister(a) \/ AgentStop(a)
  PROVE  LinkInv' /\ LoopInv'
<1> USE NamesAssumption DEF IInv, TypeOK
<1>1. CASE Dial(a)
  <2>1. PICK s \in Sessions :
          /\ Free(s)
          /\ handler' = [handler EXCEPT ![s] = "backlog"]
          /\ linkUp' = linkUp \cup {s}
          /\ dialler' = [dialler EXCEPT ![s] = a]
          /\ reply' = [reply EXCEPT ![s] = "none"]
          /\ cur' = [cur EXCEPT ![a] = s]
    BY <1>1 DEF Dial
  <2>2. /\ agent' = [agent EXCEPT ![a] = "awaiting"] /\ UNCHANGED hubOpen
        /\ cur[a] = NoSession
    BY <1>1 DEF Dial, LoopInv
  <2>3. \A r \in Sessions \ {s} :
          /\ UNCHANGED <<handler[r], reply[r], dialler[r]>>
          /\ r \in linkUp' => r \in linkUp /\ dialler[r] # a
    BY <2>1, <2>2 DEF LinkInv
  <2>4. LinkInv'
    BY <2>1, <2>2, <2>3 DEF LinkInv
  <2>5. \A x \in Agents \ {a} : cur[x] # s /\ UNCHANGED <<cur[x], agent[x]>>
    BY <2>1, <2>2 DEF Free
  <2>6. LoopInv'
    BY <2>1, <2>2, <2>3, <2>5 DEF LoopInv
  <2> QED
    BY <2>4, <2>6
<1>2. CASE ConnectFail(a) \/ ServeEnd(a) \/ AgentStop(a)
  <2>1. /\ UNCHANGED <<handler, hubOpen, dialler, reply>>
        /\ cur' = [cur EXCEPT ![a] = NoSession]
        /\ linkUp' = linkUp \ {cur[a]}
        /\ agent'[a] \notin {"awaiting", "serving"}
        /\ \A x \in Agents \ {a} : agent'[x] = agent[x]
    BY <1>2 DEF ConnectFail, ServeEnd, AgentStop, CloseAtAgent, hubVars, agentVars
  <2>2. \A r \in Sessions : r \in linkUp' => r \in linkUp /\ dialler[r] # a
    BY <2>1 DEF LinkInv
  <2>3. LinkInv'
    BY <2>1, <2>2 DEF LinkInv
  <2>4. LoopInv'
    BY <2>1 DEF LoopInv
  <2> QED
    BY <2>3, <2>4
<1>3. CASE \/ AgentStart(a) \/ DialFail(a) \/ ReadOk(a) \/ WakeBackoff(a) \/ WakePause(a)
           \/ SendRegister(a)
  <2>1. /\ UNCHANGED <<handler, hubOpen, linkUp, dialler, reply, cur>>
        /\ agent[a] \in {"awaiting", "serving"} <=> agent'[a] \in {"awaiting", "serving"}
        /\ agent'[a] = "serving" => agent[a] = "serving" \/ reply[cur[a]] = "ok"
        /\ \A x \in Agents \ {a} : agent'[x] = agent[x]
    BY <1>3 DEF AgentStart, DialFail, ReadOk, WakeBackoff, WakePause, SendRegister,
       hubVars, netVars, agentVars
  <2> QED
    BY <2>1 DEF LinkInv, LoopInv
<1> QED
  BY <1>1, <1>2, <1>3 DEF AgentStep

LEMMA NextKeepsLinks == IInv /\ LinkInv /\ LoopInv /\ [Next]_vars => LinkInv' /\ LoopInv'
<1> SUFFICES ASSUME IInv, LinkInv, LoopInv, [Next]_vars PROVE LinkInv' /\ LoopInv'
  OBVIOUS
<1>1. ASSUME NEW c \in Clients, (\E b \in Backends : Lookup(c, b)) \/ OpenStream(c) \/ LetGo(c)
      PROVE  LinkInv' /\ LoopInv'
  BY <1>1 DEF Lookup, OpenStream, LetGo, LinkInv, LoopInv, hubVars, netVars, agentVars
<1>2. CASE HubStart \/ UNCHANGED vars
  BY <1>2 DEF HubStart, LinkInv, LoopInv, vars, hubVars, netVars, agentVars
<1>3. CASE HubStop
  BY <1>3 DEF HubStop, LinkInv, LoopInv, agentVars
<1> QED
  BY <1>1, <1>2, <1>3, HandlerKeepsLinks, AgentKeepsLinks DEF Next

LEMMA LinksHold == SafeSpec => [](IInv /\ LinkInv /\ LoopInv)
<1>1. Init => LinkInv /\ LoopInv
  BY NamesAssumption DEF Init, LinkInv, LoopInv
<1> QED
  BY <1>1, NextKeepsLinks, Invariance, PTL DEF SafeSpec

\* An agent that serves need not be registered: its OK was written before the
\* hub decided.  But it sits there for nothing at most while its connection is
\* dead or registerConn has yet to run: over a live one it is the session its
\* backend is bound to (server.go:96, 147, client.go:18).
ServingIsRegistered ==
    \A a \in Agents :
        agent[a] = "serving" /\ cur[a] \in linkUp =>
            /\ cur[a] \in hubOpen
            /\ conns[Assigned[a]] = cur[a] \/ handler[cur[a]] = "answered"

\* The other way round: what the registry offers over a connection that is
\* alive has an agent of that backend at its end, which serves it or has the
\* OK to read; no agent has left it behind (registry.go:130, client.go:29).
BoundIsAttended ==
    \A b \in Backends :
        conns[b] \in linkUp =>
            \E a \in Agents :
                /\ Assigned[a] = b
                /\ cur[a] = conns[b]
                /\ agent[a] = "serving" \/ (agent[a] = "awaiting" /\ reply[cur[a]] = "ok")

\* An agent that serves over a live connection is registered, or about to be
\* told (handleConn, registerConn).
THEOREM ServingAgentsCount == SafeSpec => []ServingIsRegistered
<1>1. IInv /\ LinkInv /\ LoopInv => ServingIsRegistered
  <2> SUFFICES ASSUME IInv, LinkInv, LoopInv, NEW a \in Agents,
                      agent[a] = "serving", cur[a] \in linkUp
               PROVE  /\ cur[a] \in hubOpen
                      /\ conns[Assigned[a]] = cur[a] \/ handler[cur[a]] = "answered"
    BY DEF ServingIsRegistered
  <2>1. cur[a] \in Sessions /\ dialler[cur[a]] = a /\ reply[cur[a]] = "ok"
    BY NamesAssumption DEF LoopInv, IInv, TypeOK
  <2>2. cur[a] \in hubOpen /\ handler[cur[a]] \in {"answered", "serving"}
    BY <2>1 DEF LinkInv
  <2>3. claim[cur[a]] = Assigned[a] /\ Assigned[a] \in Backends
    BY <2>1, <2>2 DEF IInv, ClaimInv
  <2> QED
    BY <2>1, <2>2, <2>3 DEF IInv, RegistryMatchesHandlers
<1> QED
  BY <1>1, LinksHold, PTL

\* A backend that the registry offers over a live connection has its agent at
\* the other end (registerConn, Open, Connect).
THEOREM BoundHasItsAgent == SafeSpec => []BoundIsAttended
<1>1. IInv /\ LinkInv /\ LoopInv => BoundIsAttended
  <2> SUFFICES ASSUME IInv, LinkInv, LoopInv, NEW b \in Backends, conns[b] \in linkUp
               PROVE  \E a \in Agents :
                        /\ Assigned[a] = b
                        /\ cur[a] = conns[b]
                        /\ \/ agent[a] = "serving"
                           \/ agent[a] = "awaiting" /\ reply[cur[a]] = "ok"
    BY DEF BoundIsAttended
  <2> DEFINE s == conns[b]
             a == dialler[s]
  <2>1. s \in Sessions
    BY DEF IInv, TypeOK
  <2>2. handler[s] = "serving" /\ claim[s] = b
    BY <2>1 DEF IInv, RegistryMatchesHandlers
  <2>3. a \in Agents /\ cur[a] = s /\ reply[s] = "ok"
    BY <2>1, <2>2 DEF LinkInv
  <2>4. Assigned[a] = b
    BY <2>1, <2>2 DEF IInv, ClaimInv
  <2>5. agent[a] \in {"awaiting", "serving"}
    BY <2>1, <2>3, NamesAssumption DEF LoopInv
  <2> QED
    BY <2>3, <2>4, <2>5
<1> QED
  BY <1>1, LinksHold, PTL
=============================================================================
