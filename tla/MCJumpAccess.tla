---------------------------- MODULE MCJumpAccess ----------------------------
(* A small instance of JumpAccess for TLC. *)
EXTENDS JumpAccess, TLC

CONSTANTS b1, b2, alias, other, open, keyed, k1, k2

\* b1 has an alias; "other" names nothing.
AliasOfOne == b1 :> {alias} @@ b2 :> {}

\* An open user and one with a key, each with a grant of its own.
OpenAndKeyed == open :> {} @@ keyed :> {k1}
OneEach      == open :> {b1} @@ keyed :> {b2}
=============================================================================
