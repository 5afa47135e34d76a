------------------------------ MODULE MCTunnel ------------------------------
(* A small instance of Tunnel for TLC. *)
EXTENDS Tunnel, TLC

CONSTANT t1

\* Either direction is longer than a window.
BothLong == t1 :> ("up" :> 2 @@ "down" :> 2)
=============================================================================
