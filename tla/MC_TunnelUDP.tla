---------------------------- MODULE MC_TunnelUDP -----------------------------
(* Two flows over channels of capacity one: one carries datagrams both     *)
(* ways, the other only comes and goes.                                    *)
EXTENDS TunnelUDP, TLC

CONSTANTS f1, f2

Sends == f1 :> 2 @@ f2 :> 0
Recvs == f1 :> 2 @@ f2 :> 0
=============================================================================
