---------------------------- MODULE Destinations ----------------------------
(***************************************************************************)
(* What a destination name means under a configuration, and who is granted *)
(* it, as internal/config/config.go and internal/proxy/proxy.go ask.       *)
(*                                                                         *)
(* JumpAccess takes a configuration as it is, and assumes WellFormed of    *)
(* it; HubConfigProofs shows that of whatever a hub has loaded.            *)
(***************************************************************************)

CONSTANTS
    Backends,       \* configured backend ids
    Aliases,        \* Aliases[b]: the other names of backend b
    JumpUsers,      \* names of the configured jump users
    GrantsOf,       \* GrantsOf[u]: the backend ids they may reach
    Names,          \* destination names clients ask for
    NoBackend

\* What Config.Validate establishes of the parts used here.
WellFormed ==
    /\ Aliases \in [Backends -> SUBSET Names]
    /\ \A b, d \in Backends : d \notin Aliases[b]
    /\ \A b, d \in Backends : b # d => Aliases[b] \cap Aliases[d] = {}
    /\ GrantsOf \in [JumpUsers -> SUBSET Backends]
    /\ Backends \subseteq Names
    /\ NoBackend \notin Backends

\* Ids come before aliases; NoBackend is the code's nil.
BackendByName(n) ==
    IF n \in Backends THEN n
    ELSE IF \E b \in Backends : n \in Aliases[b]
         THEN CHOOSE b \in Backends : n \in Aliases[b] ELSE NoBackend

\* Mutant of Granted: the name is what is granted, unless it is an alias.
Granted_ByName(u, n) ==
    u \in JumpUsers /\ (n \notin Backends \/ n \in GrantsOf[u])

\* forward: the canonical id is what is granted, not the name asked for.
Granted(u, n) == u \in JumpUsers /\ BackendByName(n) \in GrantsOf[u]
=============================================================================
