---------------------------- MODULE MCHubConfig -----------------------------
(* Small instances of HubConfig for TLC. *)
EXTENDS HubConfig, TLC

CONSTANTS i1, i2, alias

\* An alias that is no id, and one that is.
TwoNames == {alias, i2}
=============================================================================
