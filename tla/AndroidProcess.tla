--------------------------- MODULE AndroidProcess ---------------------------
(***************************************************************************)
(* What the rest of the Android app knows of the engine in its process:    *)
(* whether internalsdk.Start has answered with the addresses of the local  *)
(* proxies.  Module AndroidEngine implements this; the VPN service (module *)
(* AndroidVpn) lives in this process.                                      *)
(***************************************************************************)

VARIABLE process  \* "down", "starting": Start has not answered, "answered"

StartProcess == process = "down" /\ process' = "starting"

Answer == process = "starting" /\ process' = "answered"

\* By a timeout of Start, a panic or the system.
Die == process # "down" /\ process' = "down"

ProcessInit == process = "down"

\* A process that is up answers Start or does not stay up.
ProcessSpec ==
    /\ ProcessInit /\ [][StartProcess \/ Answer \/ Die]_process
    /\ WF_process(Answer \/ (process = "starting" /\ Die))
=============================================================================
