---------------------------- MODULE MCHubUpdate -----------------------------
(* Small instances of HubUpdate for TLC. *)
EXTENDS HubUpdate

\* A patch of an old release comes after a new one, and the last tag only
\* compares as a version: v0.9.0, v0.10.0, v0.9.1, v0.11.x.
OutOfOrder == <<<<0, 9, 0>>, <<0, 10, 0>>, <<0, 9, 1>>, <<0, 11, NotANumber>>>>
=============================================================================
