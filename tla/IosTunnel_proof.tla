------------------------- MODULE IosTunnel_proof --------------------------
(* Safety of the UDP handler for any number of flows, any traffic and any  *)
(* capacity of the channels, and of the configuration the app writes and   *)
(* the extension reads, for any number of versions.                        *)
EXTENDS TunnelUDP, IosConfig, TLAPS

(***************************************************************************)
(* The strengthening says how far Connect has come when something of a     *)
(* flow exists.                                                            *)
(***************************************************************************)

\* Datagrams are requested, the flow is registered and idleTiming runs only once
\* Connect has come that far; before the dial there is no NWConnection.
ConnectOrder ==
  \A f \in Flows :
    /\ conn[f] \in {"new", "select", "request", "dns", "error"} =>
         outstanding[f] = 0 /\ onReceive[f]["request"] = 0
    /\ <<"raw", f>> \in upstreams => conn[f] \in {"request", "spawn", "ok"}
    /\ idle[f] # "none" => conn[f] = "ok"
    /\ conn[f] = "new" => nw[f] = "none"

IInv == TypeOK /\ ConnectOrder /\ OneReceiveAtATime /\ FailedConnectIsDead

-----------------------------------------------------------------------------
(* Every action keeps the variables in their types and the channels within *)
(* their capacity.                                                         *)
LEMMA TypeStep == TypeOK /\ [Next]_vars => TypeOK'
<1> SUFFICES ASSUME TypeOK, [Next]_vars PROVE TypeOK'
  OBVIOUS
<1> USE BoundsAssumption DEF TypeOK, BoundsAssumption, connect, network, loop, channels, closeCb, sent
<1>1. ASSUME NEW f \in Flows, ConnectDNS(f) PROVE TypeOK'
  BY <1>1 DEF ConnectDNS
<1>2. ASSUME NEW f \in Flows, ConnectUnknown(f) PROVE TypeOK'
  BY <1>2 DEF ConnectUnknown
<1>3. ASSUME NEW f \in Flows, ConnectDial(f) PROVE TypeOK'
  BY <1>3 DEF ConnectDial
<1>4. ASSUME NEW f \in Flows, ConnectRegister(f) PROVE TypeOK'
  BY <1>4 DEF ConnectRegister
<1>5. ASSUME NEW f \in Flows, ConnectRequest(f) PROVE TypeOK'
  BY <1>5 DEF ConnectRequest
<1>6. ASSUME NEW f \in Flows, ConnectSpawn(f) PROVE TypeOK'
  BY <1>6 DEF ConnectSpawn
<1>7. ASSUME NEW f \in Flows, ConnectTimeout(f) PROVE TypeOK'
  BY <1>7 DEF ConnectTimeout
<1>8. ASSUME NEW f \in Flows, NwReady(f) PROVE TypeOK'
  BY <1>8 DEF NwReady
<1>9. ASSUME NEW f \in Flows, NwFailed(f) PROVE TypeOK'
  BY <1>9 DEF NwFailed
<1>10. ASSUME NEW f \in Flows, NwCancelled(f) PROVE TypeOK'
  BY <1>10 DEF NwCancelled
<1>11. ASSUME NEW f \in Flows, OnCloseDelete(f) PROVE TypeOK'
  BY <1>11 DEF OnCloseDelete
<1>12. ASSUME NEW f \in Flows, OnCloseDownstream(f) PROVE TypeOK'
  BY <1>12 DEF OnCloseDownstream
<1>13. ASSUME NEW f \in Flows, RecvDone(f) PROVE TypeOK'
  BY <1>13 DEF RecvDone
<1>14. ASSUME NEW f \in Flows, RecvError(f) PROVE TypeOK'
  BY <1>14 DEF RecvError
<1>15. ASSUME NEW f \in Flows, OnReceiveRequest(f) PROVE TypeOK'
  BY <1>15 DEF OnReceiveRequest
<1>16. ASSUME NEW f \in Flows, OnReceiveForward(f) PROVE TypeOK'
  BY <1>16 DEF OnReceiveForward
<1>17. ASSUME NEW f \in Flows, OnReceiveNotify(f) PROVE TypeOK'
  BY <1>17 DEF OnReceiveNotify
<1>18. ASSUME NEW f \in Flows, ReceiveTo(f) PROVE TypeOK'
  BY <1>18 DEF ReceiveTo
<1>19. ASSUME NEW f \in Flows, SendDone(f) PROVE TypeOK'
  BY <1>19 DEF SendDone
<1>20. ASSUME NEW f \in Flows, SendError(f) PROVE TypeOK'
  BY <1>20 DEF SendError
<1>21. ASSUME NEW f \in Flows, IdleActivity(f) PROVE TypeOK'
  <2>1. CASE received[f] > 0 /\ received' = [received EXCEPT ![f] = @ - 1] /\ UNCHANGED wrote
    BY <1>21, <2>1 DEF IdleActivity
  <2>2. CASE wrote[f] > 0 /\ wrote' = [wrote EXCEPT ![f] = @ - 1] /\ UNCHANGED received
    BY <1>21, <2>2 DEF IdleActivity
  <2> QED BY <1>21, <2>1, <2>2 DEF IdleActivity
<1>22. ASSUME NEW f \in Flows, IdleTimeout(f) PROVE TypeOK'
  BY <1>22 DEF IdleTimeout
<1>23. CASE UNCHANGED vars
  BY <1>23 DEF vars
<1> QED
  BY <1>1, <1>2, <1>3, <1>4, <1>5, <1>6, <1>7, <1>8, <1>9, <1>10, <1>11, <1>12, <1>13, <1>14, <1>15, <1>16, <1>17, <1>18, <1>19, <1>20, <1>21, <1>22, <1>23 DEF Next

(* No callback, however late, undoes what Connect has decided, and each    *)
(* request for a datagram replaces the one before it.                      *)
LEMMA FlowStep ==
  ASSUME IInv, TypeOK', [Next]_vars
  PROVE  ConnectOrder' /\ OneReceiveAtATime' /\ FailedConnectIsDead'
<1> DEFINE Goal == ConnectOrder' /\ OneReceiveAtATime' /\ FailedConnectIsDead'
<1>typed. /\ conn \in [Flows -> {"new", "select", "request", "spawn", "ok", "dns", "error"}]
          /\ nw \in [Flows -> {"none", "preparing", "ready", "failed", "cancelled"}]
          /\ cancel \in [Flows -> BOOLEAN] /\ idle \in [Flows -> {"none", "select", "done"}]
          /\ outstanding \in [Flows -> Nat]
          /\ onReceive \in [Flows -> [{"request", "forward", "notify"} -> Nat]]
  BY DEF IInv, TypeOK
<1> USE DEF IInv, connect, network, loop, channels, closeCb, sent
<1>1. ASSUME NEW f \in Flows, ConnectDNS(f) PROVE Goal
  BY <1>1, <1>typed DEF ConnectDNS, ConnectOrder, OneReceiveAtATime, FailedConnectIsDead
<1>2. ASSUME NEW f \in Flows, ConnectUnknown(f) PROVE Goal
  BY <1>2, <1>typed DEF ConnectUnknown, ConnectOrder, OneReceiveAtATime, FailedConnectIsDead
<1>3. ASSUME NEW f \in Flows, ConnectDial(f) PROVE Goal
  BY <1>3, <1>typed DEF ConnectDial, ConnectOrder, OneReceiveAtATime, FailedConnectIsDead
<1>4. ASSUME NEW f \in Flows, ConnectRegister(f) PROVE Goal
  BY <1>4, <1>typed DEF ConnectRegister, ConnectOrder, OneReceiveAtATime, FailedConnectIsDead
<1>5. ASSUME NEW f \in Flows, ConnectRequest(f) PROVE Goal
  <2>0. conn[f] = "request" /\ outstanding[f] = 0 /\ onReceive[f]["request"] = 0
    BY <1>5 DEF ConnectRequest, ConnectOrder
  <2>1. /\ conn'[f] = "spawn" /\ outstanding'[f] = 1
        /\ \A g \in Flows \ {f} : conn'[g] = conn[g] /\ outstanding'[g] = outstanding[g]
        /\ UNCHANGED <<onReceive, upstreams, idle, nw, cancel>>
    BY <1>5, <1>typed, <2>0 DEF ConnectRequest
  <2>2. ConnectOrder' /\ FailedConnectIsDead'
    BY <2>0, <2>1 DEF ConnectOrder, FailedConnectIsDead
  <2>3. OneReceiveAtATime'
    BY <2>0, <2>1 DEF OneReceiveAtATime
  <2> QED BY <2>2, <2>3
<1>6. ASSUME NEW f \in Flows, ConnectSpawn(f) PROVE Goal
  BY <1>6, <1>typed DEF ConnectSpawn, ConnectOrder, OneReceiveAtATime, FailedConnectIsDead
<1>7. ASSUME NEW f \in Flows, ConnectTimeout(f) PROVE Goal
  BY <1>7, <1>typed DEF ConnectTimeout, ConnectOrder, OneReceiveAtATime, FailedConnectIsDead
<1>8. ASSUME NEW f \in Flows, NwReady(f) PROVE Goal
  BY <1>8, <1>typed DEF NwReady, ConnectOrder, OneReceiveAtATime, FailedConnectIsDead
<1>9. ASSUME NEW f \in Flows, NwFailed(f) PROVE Goal
  BY <1>9, <1>typed DEF NwFailed, ConnectOrder, OneReceiveAtATime, FailedConnectIsDead
<1>10. ASSUME NEW f \in Flows, NwCancelled(f) PROVE Goal
  BY <1>10, <1>typed DEF NwCancelled, ConnectOrder, OneReceiveAtATime, FailedConnectIsDead
<1>11. ASSUME NEW f \in Flows, OnCloseDelete(f) PROVE Goal
  BY <1>11, <1>typed DEF OnCloseDelete, ConnectOrder, OneReceiveAtATime, FailedConnectIsDead
<1>12. ASSUME NEW f \in Flows, OnCloseDownstream(f) PROVE Goal
  BY <1>12, <1>typed DEF OnCloseDownstream, ConnectOrder, OneReceiveAtATime, FailedConnectIsDead
<1>13. ASSUME NEW f \in Flows, RecvDone(f) PROVE Goal
  BY <1>13, <1>typed DEF RecvDone, ConnectOrder, OneReceiveAtATime, FailedConnectIsDead
<1>14. ASSUME NEW f \in Flows, RecvError(f) PROVE Goal
  BY <1>14, <1>typed DEF RecvError, ConnectOrder, OneReceiveAtATime, FailedConnectIsDead
<1>15. ASSUME NEW f \in Flows, OnReceiveRequest(f) PROVE Goal
  BY <1>15, <1>typed DEF OnReceiveRequest, ConnectOrder, OneReceiveAtATime, FailedConnectIsDead
<1>16. ASSUME NEW f \in Flows, OnReceiveForward(f) PROVE Goal
  BY <1>16, <1>typed DEF OnReceiveForward, ConnectOrder, OneReceiveAtATime, FailedConnectIsDead
<1>17. ASSUME NEW f \in Flows, OnReceiveNotify(f) PROVE Goal
  BY <1>17, <1>typed DEF OnReceiveNotify, ConnectOrder, OneReceiveAtATime, FailedConnectIsDead
<1>18. ASSUME NEW f \in Flows, ReceiveTo(f) PROVE Goal
  BY <1>18, <1>typed DEF ReceiveTo, ConnectOrder, OneReceiveAtATime, FailedConnectIsDead
<1>19. ASSUME NEW f \in Flows, SendDone(f) PROVE Goal
  BY <1>19, <1>typed DEF SendDone, ConnectOrder, OneReceiveAtATime, FailedConnectIsDead
<1>20. ASSUME NEW f \in Flows, SendError(f) PROVE Goal
  BY <1>20, <1>typed DEF SendError, ConnectOrder, OneReceiveAtATime, FailedConnectIsDead
<1>21. ASSUME NEW f \in Flows, IdleActivity(f) PROVE Goal
  BY <1>21, <1>typed DEF IdleActivity, ConnectOrder, OneReceiveAtATime, FailedConnectIsDead
<1>22. ASSUME NEW f \in Flows, IdleTimeout(f) PROVE Goal
  BY <1>22, <1>typed DEF IdleTimeout, ConnectOrder, OneReceiveAtATime, FailedConnectIsDead
<1>23. CASE UNCHANGED vars
  BY <1>23 DEF vars, ConnectOrder, OneReceiveAtATime, FailedConnectIsDead
<1> QED
  BY <1>1, <1>2, <1>3, <1>4, <1>5, <1>6, <1>7, <1>8, <1>9, <1>10, <1>11, <1>12, <1>13, <1>14, <1>15, <1>16, <1>17, <1>18, <1>19, <1>20, <1>21, <1>22, <1>23 DEF Next

-----------------------------------------------------------------------------
(* The invariant holds in every reachable state.                           *)
THEOREM Invariance == Spec => []IInv
<1>1. Init => IInv
  BY BoundsAssumption DEF Init, IInv, TypeOK, ConnectOrder, OneReceiveAtATime,
     FailedConnectIsDead, BoundsAssumption
<1>2. IInv /\ [Next]_vars => IInv'
  BY TypeStep, FlowStep DEF IInv
<1> QED BY <1>1, <1>2, PTL DEF Spec

(* Types of the handler's variables; no channel is ever over its capacity. *)
THEOREM TypeCorrect == Spec => []TypeOK
<1>1. IInv => TypeOK
  BY DEF IInv
<1> QED BY <1>1, Invariance, PTL

(* A flow never asks for two datagrams at a time.                          *)
THEOREM ReceivesOneByOne == Spec => []OneReceiveAtATime
<1>1. IInv => OneReceiveAtATime
  BY DEF IInv
<1> QED BY <1>1, Invariance, PTL

(* What comes after a failed Connect does not bring its flow to life.      *)
THEOREM FailedStaysDead == Spec => []FailedConnectIsDead
<1>1. IInv => FailedConnectIsDead
  BY DEF IInv
<1> QED BY <1>1, Invariance, PTL

-----------------------------------------------------------------------------
(***************************************************************************)
(* The configuration on iOS.  Where the app and the extension are; the     *)
(* places at which the app has begun an update.                            *)
(***************************************************************************)
Updating == {"fetch", "truncate", "fill", "etag", "result", "ips", "notify"}

PlacesOK ==
  /\ latest \in 2..MaxVersion /\ etag \in 0..latest /\ fetched \in 0..latest
  /\ app \in Updating \cup {"off", "idle", "user", "userFill", "open", "init"}
  /\ net \in {"off", "user", "open", "up", "clear", "connected", "reread", "rewrite"}
  /\ needs \in BOOLEAN /\ told \in BOOLEAN /\ astray \in BOOLEAN

\* While a version is saved the etag is that of an older one, and the etag of the last
\* version stands for its file at every moment.
EtagInv ==
  /\ app \in {"truncate", "fill", "etag"} => etag < fetched
  /\ app = "init" => file = Empty
  /\ app = "etag" /\ ~astray => file = fetched
  /\ etag = latest /\ ~astray => file = latest

\* The file has changed, or its proxies have, and the extension will be told.
Pending == needs \/ app \in {"fill", "etag"}

\* The app remembers that the extension has to be told until it has told it, and has
\* what it tells it ready by then; once nothing is pending, all that the extension has
\* read is of the file there is, unless it is about to read it again.
TunnelInv ==
  /\ needs => app \in Updating
  /\ app \in {"ips", "notify"} => needs
  /\ ~astray /\ app \in {"fetch", "result", "ips", "notify", "truncate"} => proxies = file
  /\ ~astray /\ app = "notify" => ips = file
  /\ ~astray /\ ~Pending =>
       /\ ips = file
       /\ net \in {"user", "open", "up"} => routes = file
       /\ net \in {"connected", "reread", "rewrite"} /\ ~told => routes = file
       /\ net = "up" \/ (net = "connected" /\ ~told) => dialers = file

ConfigInv == PlacesOK /\ EtagInv /\ TunnelInv

LEMMA ConfigStart == ConfigInit => ConfigInv
<1> USE ConfigAssumption DEF ConfigAssumption, ConfigInit, Empty
<1>1. ConfigInit => PlacesOK
  <2>1. ConfigInit => latest \in 2..MaxVersion /\ etag \in 0..latest /\ fetched \in 0..latest
    OBVIOUS
  <2>2. ConfigInit => needs \in BOOLEAN /\ told \in BOOLEAN /\ astray \in BOOLEAN
    OBVIOUS
  <2> QED BY <2>1, <2>2 DEF PlacesOK
<1>2. ConfigInit => EtagInv
  BY DEF EtagInv
<1>3. ConfigInit => TunnelInv
  BY DEF TunnelInv, Updating
<1> QED BY <1>1, <1>2, <1>3 DEF ConfigInv

LEMMA ConfigInductive == ConfigInv /\ [ConfigNext]_configVars => ConfigInv'
<1> SUFFICES ASSUME ConfigInv, [ConfigNext]_configVars PROVE ConfigInv'
  OBVIOUS
<1> USE ConfigAssumption
    DEF ConfigAssumption, ConfigInv, PlacesOK, EtagInv, TunnelInv, Pending, Updating, Empty,
        Embedded, disk, session, local, extension, history, Connected
<1>1. CASE Release
  BY <1>1 DEF Release
<1>2. CASE AppStart \/ StartVPN \/ Configure
  BY <1>2 DEF AppStart, StartVPN, Configure
<1>3. CASE AppDies
  <2>1. PlacesOK'
    <3>1. astray' \in BOOLEAN
      BY <1>3 DEF AppDies
    <3>2. UNCHANGED <<latest, etag, net, told>>
      BY <1>3 DEF AppDies
    <3>3. app' = "off" /\ fetched' = 0 /\ needs' = FALSE
      BY <1>3 DEF AppDies
    <3>4. /\ latest' \in 2..MaxVersion /\ etag' \in 0..latest' /\ fetched' \in 0..latest'
      BY <3>2, <3>3
    <3>5. /\ needs' \in BOOLEAN
          /\ net' \in {"off", "user", "open", "up", "clear", "connected", "reread", "rewrite"}
      BY <3>2, <3>3
    <3>6. told' \in BOOLEAN
      BY <3>2
    <3> QED BY <3>1, <3>3, <3>4, <3>5, <3>6
  <2>2. EtagInv'
    BY <1>3 DEF AppDies
  <2>3. TunnelInv'
    BY <1>3 DEF AppDies
  <2> QED BY <2>1, <2>2, <2>3
<1>4. CASE UserTruncate \/ UserFill \/ GeoTruncate \/ GeoFill
  BY <1>4 DEF UserTruncate, UserFill, GeoTruncate, GeoFill
<1>5. CASE Open
  BY <1>5 DEF Open
<1>6. CASE InitFile
  BY <1>6 DEF InitFile
<1>7. CASE FetchNothing \/ FetchNew
  BY <1>7 DEF FetchNothing, FetchNew
<1>8. CASE SaveTruncate \/ SaveFill
  BY <1>8 DEF SaveTruncate, SaveFill
<1>9. CASE SaveFails \/ ConfigureFails
  <2>1. PlacesOK'
    BY <1>9 DEF SaveFails, ConfigureFails
  <2>2. EtagInv'
    BY <1>9 DEF SaveFails, ConfigureFails
  <2>3. TunnelInv'
    BY <1>9 DEF SaveFails, ConfigureFails
  <2> QED BY <2>1, <2>2, <2>3
<1>10. CASE SaveEtag
  <2>1. PlacesOK'
    <3>1. etag' \in 0..latest
      BY <1>10 DEF SaveEtag
    <3>2. needs' \in BOOLEAN /\ astray' \in BOOLEAN
      BY <1>10 DEF SaveEtag
    <3> QED BY <1>10, <3>1, <3>2 DEF SaveEtag
  <2>2. EtagInv'
    BY <1>10 DEF SaveEtag
  <2>3. TunnelInv'
    BY <1>10 DEF SaveEtag
  <2> QED BY <2>1, <2>2, <2>3
<1>11. CASE Result
  BY <1>11 DEF Result
<1>12. CASE WriteIps
  BY <1>12 DEF WriteIps
<1>13. CASE Notify
  BY <1>13 DEF Notify
<1>14. CASE NetStart \/ NetReadUser \/ NetUp \/ NetStop
  <2>1. PlacesOK'
    BY <1>14 DEF NetStart, NetReadUser, NetUp, NetStop
  <2>2. EtagInv'
    BY <1>14 DEF NetStart, NetReadUser, NetUp, NetStop
  <2>3. TunnelInv'
    BY <1>14 DEF NetStart, NetReadUser, NetUp, NetStop
  <2> QED BY <2>1, <2>2, <2>3
<1>15. CASE NetOpen
  BY <1>15 DEF NetOpen
<1>16. CASE HandleMessage \/ NetReread
  <2>1. PlacesOK'
    BY <1>16 DEF HandleMessage, NetReread
  <2>2. EtagInv'
    BY <1>16 DEF HandleMessage, NetReread
  <2>3. TunnelInv'
    BY <1>16 DEF HandleMessage, NetReread
  <2> QED BY <2>1, <2>2, <2>3
<1>17. CASE NetClear
  BY <1>17 DEF NetClear
<1>18. CASE UNCHANGED configVars
  BY <1>18 DEF configVars
<1> QED
  BY <1>1, <1>2, <1>3, <1>4, <1>5, <1>6, <1>7, <1>8, <1>9, <1>10, <1>11, <1>12, <1>13, <1>14,
     <1>15, <1>16, <1>17, <1>18 DEF ConfigNext, ConfigureStep, NetStep

LEMMA ConfigAlways == ConfigSpec => []ConfigInv
  BY ConfigStart, ConfigInductive, PTL DEF ConfigSpec

\* "config unchanged" (ios/config.go) is true: when the server would answer 304 to the next
\* fetch, the file has the server's version, but for the exceptions that the property names
\* (failed writes, a death between two of them, versions without proxies), for any number of
\* versions and of updates.
THEOREM UnchangedIsTrue == ConfigSpec => []UnchangedIsCurrent
<1>1. ConfigInv => UnchangedIsCurrent
  BY DEF ConfigInv, EtagInv, UnchangedIsCurrent
<1> QED BY ConfigAlways, <1>1, PTL

\* Between updates a connected extension dials the proxies in the file and excludes their
\* addresses from the tunnel (VpnHelper.swift, PacketTunnelProvider.swift, ios.go), with the
\* same exceptions and that of an update during its start.
THEOREM TunnelFollows == ConfigSpec => []TunnelIsUpToDate
<1>1. ConfigInv => TunnelIsUpToDate
  BY DEF ConfigInv, TunnelInv, Pending, Updating, TunnelIsUpToDate
<1> QED BY ConfigAlways, <1>1, PTL
=============================================================================
