---------------------------- MODULE MCControlTLS ----------------------------
(* Small instances of ControlTLS for TLC. *)
EXTENDS ControlTLS

\* Every setting but a certificate without its key.
NoLoneCert == SUBSET Parts \ {{"cert"}}
=============================================================================
