--------------------------- MODULE MCControlPlane ---------------------------
(* Small instances of ControlPlane for TLC. *)
EXTENDS ControlPlane, TLC

CONSTANTS a1, a2, m, b1, b2

\* An agent for each backend, and the stranger; each asks for a backend that
\* is another's.
OwnTokensAndStranger == a1 :> b1 @@ a2 :> b2 @@ m :> NoBackend
AskEachOtherAndOne == a1 :> b2 @@ a2 :> b1 @@ m :> b1

\* A duplicate: both agents have the token of b1, and one asks for b2.
SharedTwo == a1 :> b1 @@ a2 :> b1
AskTwo == a1 :> b1 @@ a2 :> b2

SessionSymmetry == Permutations(Sessions)
=============================================================================
