------------------------------ MODULE TunnelUDP ------------------------------
(***************************************************************************)
(* internalsdk/ios/udp.go with its other half, ios/Tunnel/UDPConn.swift:   *)
(* UDP flows that bypass the proxies.  Connect dials an NWConnection and   *)
(* waits for its callback; OnReceive, OnWritten and OnClose run on a       *)
(* concurrent dispatch queue; idleTiming closes a flow that is idle.       *)
(*                                                                         *)
(* The dispatch queue may run several callbacks of a flow at once, so the  *)
(* calls of OnReceive are counted per place they have reached.  What the   *)
(* NWConnection itself does is external.                                   *)
(***************************************************************************)
EXTENDS Integers, FiniteSets

CONSTANTS Flows,     \* downstream UDP connections of the tunnel
          Cap,       \* capacity of the channels received and wrote
          MaxSends,  \* bound: datagrams sent by each flow
          MaxRecvs   \* bound: datagrams received by each flow

ASSUME BoundsAssumption ==
  Cap \in Nat \ {0} /\ MaxSends \in [Flows -> Nat] /\ MaxRecvs \in [Flows -> Nat]

VARIABLES
  conn,        \* Connect: "new", "select", "request", "spawn", "ok", "dns", "error"
  nw,          \* the NWConnection: "none", "preparing", "ready", "failed", "cancelled"
  cancel,      \* cancel() has been called on it
  dialed,      \* cb.dialSucceeded has been closed
  upstreams,   \* keys of h.upstreams
  dialingConns,
  onClose,     \* the OnClose callback: "none", "delete", "closeDown", "done"
  downClosed,  \* the downstream connection is closed
  idle,        \* idleTiming: "none", "select", "done"
  outstanding, \* receiveMessage requests without an answer
  onReceive,   \* calls of OnReceive at "request", "forward" and "notify"
  received, wrote,  \* values in the channels
  sending,     \* datagrams handed to the NWConnection without completion
  sends, recvs      \* bound counters

vars == <<conn, nw, cancel, dialed, upstreams, dialingConns, onClose, downClosed,
          idle, outstanding, onReceive, received, wrote, sending, sends, recvs>>

connect == <<conn, dialingConns>>
network == <<nw, dialed>>
loop == <<outstanding, onReceive, recvs>>
channels == <<received, wrote>>
closeCb == <<onClose, downClosed>>
sent == <<sending, sends>>

Init ==
  /\ conn = [f \in Flows |-> "new"]
  /\ nw = [f \in Flows |-> "none"]
  /\ cancel = [f \in Flows |-> FALSE]
  /\ dialed = [f \in Flows |-> FALSE]
  /\ upstreams = {}
  /\ dialingConns = 0
  /\ onClose = [f \in Flows |-> "none"]
  /\ downClosed = [f \in Flows |-> FALSE]
  /\ idle = [f \in Flows |-> "none"]
  /\ outstanding = [f \in Flows |-> 0]
  /\ onReceive = [f \in Flows |-> [s \in {"request", "forward", "notify"} |-> 0]]
  /\ received = [f \in Flows |-> 0]
  /\ wrote = [f \in Flows |-> 0]
  /\ sending = [f \in Flows |-> 0]
  /\ sends = [f \in Flows |-> 0]
  /\ recvs = [f \in Flows |-> 0]

-----------------------------------------------------------------------------
(* Mutated forms of the actions below: plausible slips in this code that   *)
(* the properties must notice.  No specification uses them.                *)

\* A dial that times out is not closed.
ConnectTimeout_NoClose(f) ==
  /\ conn[f] = "select"
  /\ conn' = [conn EXCEPT ![f] = "error"]
  /\ dialingConns' = dialingConns - 1
  /\ UNCHANGED <<network, cancel, upstreams, closeCb, idle, loop, channels, sent>>

\* OnReceive asks for the next datagram again after forwarding this one.
OnReceiveForward_AsksAgain(f) ==
  /\ onReceive[f]["forward"] > 0
  /\ onReceive' = [onReceive EXCEPT ![f]["forward"] = @ - 1, ![f]["notify"] = @ + 1]
  /\ outstanding' = [outstanding EXCEPT ![f] = @ + 1]
  /\ UNCHANGED <<cancel, connect, network, upstreams, closeCb, idle, recvs, channels, sent>>

\* idleTiming gives up without closing the upstream.
IdleTimeout_NoClose(f) ==
  /\ idle[f] = "select"
  /\ idle' = [idle EXCEPT ![f] = "done"]
  /\ UNCHANGED <<cancel, connect, network, upstreams, closeCb, loop, channels, sent>>

-----------------------------------------------------------------------------
(* Connect *)

\* Captured DNS traffic is handled internally.
ConnectDNS(f) ==
  /\ conn[f] = "new"
  /\ conn' = [conn EXCEPT ![f] = "dns"]
  /\ UNCHANGED <<dialingConns, network, cancel, upstreams, closeCb, idle, loop, channels, sent>>

\* The IP has no name, or the name does not resolve.
ConnectUnknown(f) ==
  /\ conn[f] = "new"
  /\ conn' = [conn EXCEPT ![f] = "error"]
  /\ UNCHANGED <<dialingConns, network, cancel, upstreams, closeCb, idle, loop, channels, sent>>

\* Dial; registering the callbacks starts the NWConnection.
ConnectDial(f) ==
  /\ conn[f] = "new"
  /\ conn' = [conn EXCEPT ![f] = "select"]
  /\ dialingConns' = dialingConns + 1
  /\ nw' = [nw EXCEPT ![f] = "preparing"]
  /\ UNCHANGED <<dialed, cancel, upstreams, closeCb, idle, loop, channels, sent>>

\* select: <-cb.dialSucceeded; the flow is registered under its raw downstream
ConnectRegister(f) ==
  /\ conn[f] = "select" /\ dialed[f]
  /\ conn' = [conn EXCEPT ![f] = "request"]
  /\ upstreams' = upstreams \cup {<<"raw", f>>}
  /\ UNCHANGED <<dialingConns, network, cancel, closeCb, idle, loop, channels, sent>>

\* The first datagram is requested.
ConnectRequest(f) ==
  /\ conn[f] = "request"
  /\ conn' = [conn EXCEPT ![f] = "spawn"]
  /\ outstanding' = [outstanding EXCEPT ![f] = @ + 1]
  /\ UNCHANGED <<dialingConns, network, cancel, upstreams, closeCb, idle, onReceive,
                 recvs, channels, sent>>

\* go cb.idleTiming(), and return.
ConnectSpawn(f) ==
  /\ conn[f] = "spawn"
  /\ conn' = [conn EXCEPT ![f] = "ok"]
  /\ dialingConns' = dialingConns - 1
  /\ idle' = [idle EXCEPT ![f] = "select"]
  /\ UNCHANGED <<network, cancel, upstreams, closeCb, loop, channels, sent>>

\* select: <-time.After(dialTimeout).  Nothing ever sends on dialFailed, so a
\* failed dial ends here too.
ConnectTimeout(f) ==
  /\ conn[f] = "select"
  /\ conn' = [conn EXCEPT ![f] = "error"]
  /\ cancel' = [cancel EXCEPT ![f] = TRUE]
  /\ dialingConns' = dialingConns - 1
  /\ UNCHANGED <<network, upstreams, closeCb, idle, loop, channels, sent>>

-----------------------------------------------------------------------------
(* The NWConnection and the callbacks *)

\* .ready: OnDialSucceeded
NwReady(f) ==
  /\ nw[f] = "preparing" /\ ~cancel[f]
  /\ nw' = [nw EXCEPT ![f] = "ready"]
  /\ dialed' = [dialed EXCEPT ![f] = TRUE]
  /\ UNCHANGED <<cancel, connect, upstreams, closeCb, idle, loop, channels, sent>>

\* .failed: OnError only logs.
NwFailed(f) ==
  /\ nw[f] \in {"preparing", "ready"}
  /\ nw' = [nw EXCEPT ![f] = "failed"]
  /\ UNCHANGED <<dialed, cancel, connect, upstreams, closeCb, idle, loop, channels, sent>>

\* .cancelled: OnClose is called.
NwCancelled(f) ==
  /\ cancel[f] /\ nw[f] \in {"preparing", "ready", "failed"}
  /\ nw' = [nw EXCEPT ![f] = "cancelled"]
  /\ onClose' = [onClose EXCEPT ![f] = "delete"]
  /\ UNCHANGED <<dialed, cancel, connect, upstreams, downClosed, idle, loop, channels, sent>>

\* delete(cb.h.upstreams, cb.downstream): cb.downstream is the wrapper that
\* newThreadLimitingUDPConn made, not the key the flow is registered under.
OnCloseDelete(f) ==
  /\ onClose[f] = "delete"
  /\ onClose' = [onClose EXCEPT ![f] = "closeDown"]
  /\ upstreams' = upstreams \ {<<"wrapped", f>>}
  /\ UNCHANGED <<downClosed, network, cancel, connect, idle, loop, channels, sent>>

\* cb.downstream.Close()
OnCloseDownstream(f) ==
  /\ onClose[f] = "closeDown"
  /\ onClose' = [onClose EXCEPT ![f] = "done"]
  /\ downClosed' = [downClosed EXCEPT ![f] = TRUE]
  /\ UNCHANGED <<network, cancel, connect, upstreams, idle, loop, channels, sent>>

\* A datagram arrives for an outstanding request: OnReceive is called.
RecvDone(f) ==
  /\ outstanding[f] > 0 /\ nw[f] = "ready" /\ recvs[f] < MaxRecvs[f]
  /\ outstanding' = [outstanding EXCEPT ![f] = @ - 1]
  /\ onReceive' = [onReceive EXCEPT ![f]["request"] = @ + 1]
  /\ recvs' = [recvs EXCEPT ![f] = @ + 1]
  /\ UNCHANGED <<network, cancel, connect, upstreams, closeCb, idle, channels, sent>>

\* The request fails: OnError only logs, nobody asks again.
RecvError(f) ==
  /\ outstanding[f] > 0
  /\ outstanding' = [outstanding EXCEPT ![f] = @ - 1]
  /\ UNCHANGED <<onReceive, recvs, network, cancel, connect, upstreams, closeCb, idle,
                 channels, sent>>

\* cb.upstream.ReceiveDatagram()
OnReceiveRequest(f) ==
  /\ onReceive[f]["request"] > 0
  /\ onReceive' = [onReceive EXCEPT ![f]["request"] = @ - 1, ![f]["forward"] = @ + 1]
  /\ outstanding' = [outstanding EXCEPT ![f] = @ + 1]
  /\ UNCHANGED <<recvs, network, cancel, connect, upstreams, closeCb, idle, channels, sent>>

\* cb.downstream.WriteFrom; if that fails, the upstream is closed.
OnReceiveForward(f) ==
  /\ onReceive[f]["forward"] > 0
  /\ onReceive' = [onReceive EXCEPT ![f]["forward"] = @ - 1, ![f]["notify"] = @ + 1]
  /\ \E ok \in IF downClosed[f] THEN {FALSE} ELSE BOOLEAN :
       cancel' = IF ok THEN cancel ELSE [cancel EXCEPT ![f] = TRUE]
  /\ UNCHANGED <<outstanding, recvs, network, connect, upstreams, closeCb, idle, channels, sent>>

\* cb.received <- nil
OnReceiveNotify(f) ==
  /\ onReceive[f]["notify"] > 0
  /\ received[f] < Cap
  /\ onReceive' = [onReceive EXCEPT ![f]["notify"] = @ - 1]
  /\ received' = [received EXCEPT ![f] = @ + 1]
  /\ UNCHANGED <<outstanding, recvs, wrote, network, cancel, connect, upstreams, closeCb,
                 idle, sent>>

-----------------------------------------------------------------------------
(* ReceiveTo and OnWritten *)

\* A datagram of a registered flow goes to its upstream (a flow without entry is
\* taken for a DNS query, which changes no state here).
ReceiveTo(f) ==
  /\ conn[f] = "ok" /\ ~downClosed[f]
  /\ <<"raw", f>> \in upstreams
  /\ sends[f] < MaxSends[f]
  /\ sends' = [sends EXCEPT ![f] = @ + 1]
  /\ sending' = [sending EXCEPT ![f] = @ + 1]
  /\ UNCHANGED <<network, cancel, connect, upstreams, closeCb, idle, loop, channels>>

\* The datagram has been sent: OnWritten, cb.wrote <- nil.
SendDone(f) ==
  /\ sending[f] > 0
  /\ nw[f] = "ready"
  /\ wrote[f] < Cap
  /\ sending' = [sending EXCEPT ![f] = @ - 1]
  /\ wrote' = [wrote EXCEPT ![f] = @ + 1]
  /\ UNCHANGED <<sends, received, connect, network, cancel, upstreams, closeCb, idle, loop>>

\* It has not: OnError.
SendError(f) ==
  /\ sending[f] > 0
  /\ sending' = [sending EXCEPT ![f] = @ - 1]
  /\ UNCHANGED <<sends, channels, connect, network, cancel, upstreams, closeCb, idle, loop>>

-----------------------------------------------------------------------------
(* idleTiming *)

\* <-cb.received or <-cb.wrote: the timer is reset.
IdleActivity(f) ==
  /\ idle[f] = "select"
  /\ \/ /\ received[f] > 0
        /\ received' = [received EXCEPT ![f] = @ - 1]
        /\ UNCHANGED wrote
     \/ /\ wrote[f] > 0
        /\ wrote' = [wrote EXCEPT ![f] = @ - 1]
        /\ UNCHANGED received
  /\ UNCHANGED <<connect, network, cancel, upstreams, closeCb, idle, loop, sent>>

\* <-t.C: close the upstream and stop.
IdleTimeout(f) ==
  /\ idle[f] = "select"
  /\ idle' = [idle EXCEPT ![f] = "done"]
  /\ cancel' = [cancel EXCEPT ![f] = TRUE]
  /\ UNCHANGED <<connect, network, upstreams, closeCb, loop, channels, sent>>

Next == \E f \in Flows :
  \/ ConnectDNS(f) \/ ConnectUnknown(f) \/ ConnectDial(f) \/ ConnectRegister(f)
  \/ ConnectRequest(f) \/ ConnectSpawn(f) \/ ConnectTimeout(f)
  \/ NwReady(f) \/ NwFailed(f) \/ NwCancelled(f)
  \/ OnCloseDelete(f) \/ OnCloseDownstream(f)
  \/ RecvDone(f) \/ RecvError(f)
  \/ OnReceiveRequest(f) \/ OnReceiveForward(f) \/ OnReceiveNotify(f)
  \/ ReceiveTo(f) \/ SendDone(f) \/ SendError(f)
  \/ IdleActivity(f) \/ IdleTimeout(f)

Spec == Init /\ [][Next]_vars

\* Time passes (both timeouts), goroutines and callbacks run, and a cancelled
\* NWConnection reports so.  A dial need not succeed and no data need arrive.
Fairness == \A f \in Flows :
  /\ WF_vars(ConnectRegister(f) \/ ConnectTimeout(f))
  /\ WF_vars(ConnectRequest(f) \/ ConnectSpawn(f))
  /\ WF_vars(NwCancelled(f))
  /\ WF_vars(OnCloseDelete(f) \/ OnCloseDownstream(f))
  /\ WF_vars(IdleTimeout(f))

FairSpec == Spec /\ Fairness
-----------------------------------------------------------------------------
(* Properties *)

\* The variables have the shapes the declarations above give them; the channels
\* never hold more than their capacity.
TypeOK ==
  /\ conn \in [Flows -> {"new", "select", "request", "spawn", "ok", "dns", "error"}]
  /\ nw \in [Flows -> {"none", "preparing", "ready", "failed", "cancelled"}]
  /\ cancel \in [Flows -> BOOLEAN]
  /\ dialed \in [Flows -> BOOLEAN]
  /\ upstreams \in SUBSET ({"raw", "wrapped"} \X Flows)
  /\ dialingConns \in Int
  /\ onClose \in [Flows -> {"none", "delete", "closeDown", "done"}]
  /\ downClosed \in [Flows -> BOOLEAN]
  /\ idle \in [Flows -> {"none", "select", "done"}]
  /\ outstanding \in [Flows -> Nat]
  /\ onReceive \in [Flows -> [{"request", "forward", "notify"} -> Nat]]
  /\ received \in [Flows -> 0..Cap]
  /\ wrote \in [Flows -> 0..Cap]
  /\ sending \in [Flows -> Nat]
  /\ \A f \in Flows : sends[f] \in 0..MaxSends[f] /\ recvs[f] \in 0..MaxRecvs[f]

\* However callbacks overlap, a flow never asks for two datagrams at a time: a
\* request is outstanding, or one call of OnReceive is about to make it.
OneReceiveAtATime ==
  \A f \in Flows : outstanding[f] + onReceive[f]["request"] <= 1

\* A Connect that failed has no entry, no idle timer and no live upstream: it
\* cannot be resurrected by a callback that comes late (OnDialSucceeded after
\* the timeout).
FailedConnectIsDead ==
  \A f \in Flows : conn[f] = "error" =>
    /\ <<"raw", f>> \notin upstreams
    /\ idle[f] = "none"
    /\ nw[f] # "none" => cancel[f]

\* A flow that was dialed is closed in the end: by the dial timeout if the dial
\* failed or was late, else by idleTiming, even if the NWConnection failed
\* without a word.
FlowCloses == \A f \in Flows : (conn[f] = "select") ~> downClosed[f]
=============================================================================
