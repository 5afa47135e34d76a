-------------------------- MODULE BackendDirectory --------------------------
(***************************************************************************)
(* What the hub's registry promises to the rest of the hub, with no agent, *)
(* network or handler in sight: a backend id is bound to at most one       *)
(* session, a binding is never replaced while its session is alive, and a  *)
(* binding whose session has died is eventually dropped.                   *)
(***************************************************************************)

CONSTANTS Backends, Sessions, NoSession

VARIABLES
    bound,      \* bound[b]: the session backend b is reachable over
    live        \* the sessions the hub has not seen die

vars == <<bound, live>>

IsBound(s) == \E b \in Backends : bound[b] = s

Init ==
    /\ bound = [b \in Backends |-> NoSession]
    /\ live = {}

\* A connection becomes a session; nothing can be bound to it yet.
Arrive(s) ==
    /\ s \notin live
    /\ ~ IsBound(s)
    /\ live' = live \cup {s}
    /\ UNCHANGED bound

Die(s) ==
    /\ s \in live
    /\ live' = live \ {s}
    /\ UNCHANGED bound

\* The session may have died before it is bound: the hub learns that later.
Bind(b, s) ==
    /\ bound[b] = NoSession
    /\ ~ IsBound(s)
    /\ bound' = [bound EXCEPT ![b] = s]
    /\ UNCHANGED live

\* The one way a binding ends while the hub runs.
Drop(b) ==
    /\ bound[b] # NoSession
    /\ bound[b] \notin live
    /\ bound' = [bound EXCEPT ![b] = NoSession]
    /\ UNCHANGED live

\* The hub process ends: the directory is kept in memory only.
Reset ==
    /\ bound' = [b \in Backends |-> NoSession]
    /\ live' = {}

Next ==
    \/ \E s \in Sessions : Arrive(s) \/ Die(s)
    \/ \E b \in Backends, s \in Sessions : Bind(b, s)
    \/ \E b \in Backends : Drop(b)
    \/ Reset

SafeSpec == Init /\ [][Next]_vars

Spec == SafeSpec /\ \A b \in Backends : WF_vars(Drop(b))
=============================================================================
