----------------------------- MODULE AndroidVpn -----------------------------
(***************************************************************************)
(* Switching the VPN on and off on Android: the switch and the activity's  *)
(* check on resume (vpn_model.go, MainActivity.kt), the broadcast and the  *)
(* commands they send, LanternVpnService with its threads and its          *)
(* provider, and the device shared by them all (tun.go).  The service runs *)
(* in the engine's process (module AndroidProcess): its threads need the   *)
(* addresses Start has answered with and die with the process.  The status *)
(* and the split tunnelling setting are persistent; the system remembers   *)
(* whether the service is started, and restarts it.                        *)
(***************************************************************************)
EXTENDS Naturals, Sequences, AndroidProcess

CONSTANTS Threads,   \* slots for the threads of the service
          NoThread,
          MaxEvents  \* bound: what the user and the system do

ASSUME VpnAssumption == NoThread \notin Threads /\ MaxEvents \in Nat

VARIABLES status,     \* "/vpn_status"
          split,      \* version of the split tunnelling setting
          granted,    \* the user granted the permissions; consented to the VPN
          dialog,     \* what the system asks the user
          switch,     \* who is in SwitchVPN: the switch, the check on resume
          toService,  \* commands on their way to the service
          broadcasts, \* disconnect broadcasts on their way
          service,    \* the instance of the service and the system's record
          thread,     \* slot -> a thread in LanternVpnService.run
          currentIPP, \* whose device StopTun2Socks would stop
          events,     \* bound counter
          mishaps     \* history: what has come in between

vars == <<process, status, split, granted, dialog, switch, toService, broadcasts, service,
          thread, currentIPP, events, mishaps>>
rest == <<process, events>>
appSide == <<status, split, granted, dialog, switch>>
serviceSide == <<toService, broadcasts, service, thread, currentIPP>>

Switchers == {"switch", "resume"}
NotSwitching == [at |-> "idle", on |-> FALSE]
NoInstance == [exists |-> FALSE, started |-> FALSE, provider |-> 0]

\* One of a dead instance has the provider that had; a stopped one is closing;
\* the interface of one is gone once another's is established.  `least` is a
\* history: the setting there was when it was started.
NoRun == [at |-> "idle", split |-> 0, least |-> 0, dead |-> FALSE, closing |-> FALSE, cut |-> FALSE]

Running(t) == thread[t].at # "idle"
HasInterface(t) == thread[t].at \in {"device", "serving"}
DeviceRuns == \E t \in Threads : thread[t].at = "serving" /\ ~thread[t].closing /\ ~thread[t].cut

Up == process # "down"
Event == events < MaxEvents /\ events' = events + 1
Mishap(what) == mishaps' = mishaps \cup what

\* No command and no thread is on its way to switch the VPN on or off.
Settled ==
    /\ broadcasts = 0 /\ toService = << >>
    /\ \A t \in Threads : ~Running(t)

\* Nothing is on its way.
Quiet ==
    /\ Up /\ dialog = "none" /\ broadcasts = 0 /\ toService = << >>
    /\ \A s \in Switchers : switch[s].at = "idle"
    /\ \A t \in Threads : thread[t].at \in {"idle", "serving"}
                          /\ ~thread[t].closing /\ ~thread[t].cut

-----------------------------------------------------------------------------
(* vpn_model.go and MainActivity.                                          *)

Goto(s, at) == switch' = [switch EXCEPT ![s].at = at]
SwitchDone(s) == switch' = [switch EXCEPT ![s] = NotSwitching]

\* The switch shows whatever is not disconnected as on.
Toggle ==
    /\ Up /\ switch["switch"].at = "idle" /\ dialog = "none" /\ Event
    /\ switch' = [switch EXCEPT !["switch"] = [at |-> "delay", on |-> status = "disconnected"]]
    /\ UNCHANGED <<process, status, split, granted, dialog, serviceSide, mishaps>>

\* While ads load the status is shown five seconds early.
ConnectingDelay ==
    /\ switch["switch"].at = "delay"
    /\ \/ UNCHANGED status
       \/ /\ status # "connected"
          /\ status' = IF switch["switch"].on THEN "connecting" ELSE "disconnecting"
    /\ Goto("switch", "save")
    /\ UNCHANGED <<rest, mishaps, split, granted, dialog, serviceSide>>

\* Another switch is under way, or what `s` decided by is no longer so.
Crossed(s) ==
    IF \/ \E r \in Switchers \ {s} : switch[r].at \notin {"idle", "delay", "check"}
       \/ s = "resume" /\ (switch[s].on # service.started \/ broadcasts > 0 \/ toService # << >>)
    THEN {"crossed"} ELSE {}

\* The activity resumes and asks whether the service is started.
OnResume ==
    /\ Up /\ switch["resume"].at = "idle" /\ Event
    /\ switch' = [switch EXCEPT !["resume"] = [at |-> "check", on |-> service.started]]
    /\ UNCHANGED <<process, status, split, granted, dialog, serviceSide, mishaps>>

IsConnectedToVpn == status \in {"connected", "disconnecting"}

\* With that answer, which may be old, the VPN is switched to match the status.
CheckVPNStatus ==
    /\ switch["resume"].at = "check"
    /\ IF IsConnectedToVpn = switch["resume"].on THEN SwitchDone("resume")
       ELSE Goto("resume", "save")
    /\ UNCHANGED <<rest, mishaps, status, split, granted, dialog, serviceSide>>

SwitchVPN(s) ==
    /\ switch[s].at = "save"
    /\ status' = IF switch[s].on THEN "connecting" ELSE "disconnecting"
    /\ Goto(s, IF switch[s].on THEN "on" ELSE "off")
    /\ Mishap(Crossed(s))
    /\ UNCHANGED <<rest, split, granted, dialog, serviceSide>>

\* Permissions are asked for first, then consent; the status stays "connecting".
SwitchLanternOn(s) ==
    /\ switch[s].at = "on"
    /\ IF granted.permissions /\ granted.consent THEN Goto(s, "status") /\ UNCHANGED dialog
       ELSE /\ dialog' = IF granted.permissions THEN "consent" ELSE "permissions"
            /\ SwitchDone(s)
    /\ UNCHANGED <<rest, mishaps, status, split, granted, serviceSide>>

\* The broadcast is sent and the status is "disconnected" at once.
SwitchLanternOff(s) ==
    /\ switch[s].at = "off"
    /\ broadcasts' = broadcasts + 1
    /\ Goto(s, "status")
    /\ UNCHANGED <<rest, mishaps, status, split, granted, dialog, toService, service, thread,
                   currentIPP>>

UpdateStatus(s) ==
    /\ switch[s].at = "status"
    /\ status' = IF switch[s].on THEN "connected" ELSE "disconnected"
    /\ IF switch[s].on THEN Goto(s, "start") ELSE SwitchDone(s)
    /\ UNCHANGED <<rest, mishaps, split, granted, dialog, serviceSide>>

\* The system notes that the service is started and delivers the command later.
StartVpnService(s) ==
    /\ switch[s].at = "start"
    /\ service' = [service EXCEPT !.started = TRUE]
    /\ toService' = Append(toService, "connect")
    /\ SwitchDone(s)
    /\ Mishap((IF process = "answered" THEN {} ELSE {"unready"})
              \cup (IF Settled THEN {} ELSE {"quick"}))
    /\ UNCHANGED <<rest, status, split, granted, dialog, broadcasts, thread, currentIPP>>

\* Denied, nothing happens; else the VPN is switched on again.
OnRequestPermissionsResult ==
    /\ dialog = "permissions" /\ switch["switch"].at = "idle"
    /\ dialog' = "none"
    /\ \/ UNCHANGED <<granted, switch, mishaps>>
       \/ /\ granted' = [granted EXCEPT !.permissions = TRUE]
          /\ switch' = [switch EXCEPT !["switch"] = [at |-> "on", on |-> TRUE]]
          /\ Mishap(Crossed("switch"))
    /\ UNCHANGED <<rest, status, split, serviceSide>>

\* mutant: the status is set as if the user had consented
OnActivityResult_Connected ==
    /\ dialog = "consent" /\ switch["switch"].at = "idle"
    /\ dialog' = "none" /\ status' = "connected"
    /\ \/ UNCHANGED <<granted, switch, mishaps>>
       \/ /\ granted' = [granted EXCEPT !.consent = TRUE]
          /\ switch' = [switch EXCEPT !["switch"] = [at |-> "start", on |-> TRUE]]
          /\ Mishap(Crossed("switch"))
    /\ UNCHANGED <<rest, split, serviceSide>>

\* Denied, the status is "disconnected"; else "connected", and the service is started.
OnActivityResult ==
    /\ dialog = "consent" /\ switch["switch"].at = "idle"
    /\ dialog' = "none"
    /\ \/ status' = "disconnected" /\ UNCHANGED <<granted, switch, mishaps>>
       \/ /\ granted' = [granted EXCEPT !.consent = TRUE]
          /\ switch' = [switch EXCEPT !["switch"] = [at |-> "start", on |-> TRUE]]
          /\ Mishap(Crossed("switch"))
          /\ status' = "connected"
    /\ UNCHANGED <<rest, split, serviceSide>>

\* The user turns split tunnelling on or off: the setting has a new version.
SetSplitTunneling ==
    /\ Up /\ Event
    /\ split' = split + 1
    /\ UNCHANGED <<process, mishaps, status, granted, dialog, switch, serviceSide>>

\* One app is allowed or denied, in a transaction that reads and writes it.
UpdateAppData ==
    /\ Up /\ Event
    /\ split' = split + 1
    /\ UNCHANGED <<process, mishaps, status, granted, dialog, switch, serviceSide>>

-----------------------------------------------------------------------------
(* The service.                                                            *)

\* Only a started service is told.
OnReceive ==
    /\ broadcasts > 0
    /\ broadcasts' = broadcasts - 1
    /\ toService' = IF service.started THEN Append(toService, "disconnect") ELSE toService
    /\ UNCHANGED <<rest, mishaps, appSide, service, thread, currentIPP>>

\* The switch and the apps allowed as the database has them now.
AppsAllowedAccess == split

\* The provider keeps the split tunnelling setting it was made with.
Provider == IF service.provider = 0 THEN AppsAllowedAccess ELSE service.provider

\* mutant: the device is forgotten and not closed
Closed_Keep == thread

\* StopTun2Socks: the device registered now, and only it, is told to close.
Closed == IF currentIPP = NoThread THEN thread ELSE [thread EXCEPT ![currentIPP].closing = TRUE]
StopTun2Socks(th) == thread' = th /\ currentIPP' = NoThread

\* A stop that misses a device on its way.
Misses == IF \E t \in Threads : thread[t].at \in {"run", "provider", "establish", "device"}
          THEN {"early"} ELSE {}

\* A disconnect stops the device and the service; a connect starts a thread.
OnStartCommand ==
    /\ Up /\ toService # << >>
    /\ toService' = Tail(toService)
    /\ IF Head(toService) = "disconnect"
       THEN /\ StopTun2Socks(Closed)
            /\ service' = [exists |-> TRUE, started |-> FALSE, provider |-> Provider]
            /\ Mishap(Misses)
       ELSE \E t \in Threads :
            /\ ~Running(t)
            /\ thread' = [thread EXCEPT ![t] = [NoRun EXCEPT !.at = "run", !.least = split]]
            /\ service' = [service EXCEPT !.exists = TRUE]
            /\ IF service.exists THEN Mishap({"kept"}) ELSE UNCHANGED mishaps
            /\ UNCHANGED currentIPP
    /\ UNCHANGED <<rest, appSide, broadcasts>>

At(t, at) == thread' = [thread EXCEPT ![t].at = at]

\* Without the addresses of a Start that has answered the thread ends.
CheckStarted(t) ==
    /\ thread[t].at = "run"
    /\ At(t, IF process = "answered" THEN "provider" ELSE "finally")
    /\ UNCHANGED <<rest, mishaps, appSide, toService, broadcasts, service, currentIPP>>

GetOrInitProvider(t) ==
    /\ thread[t].at = "provider"
    /\ IF thread[t].dead THEN At(t, "establish") /\ UNCHANGED service
       ELSE /\ service' = [service EXCEPT !.provider = Provider]
            /\ thread' = [thread EXCEPT ![t].at = "establish", ![t].split = Provider]
    /\ UNCHANGED <<rest, mishaps, appSide, toService, broadcasts, currentIPP>>

\* The system's interface; the one before it is cut.  The system binds to the
\* service for as long as there is one.
CreateBuilder(t) ==
    /\ thread[t].at = "establish"
    /\ IF granted.consent
       THEN /\ thread' = [u \in Threads |->
                 IF u = t THEN [thread[u] EXCEPT !.at = "device"]
                 ELSE IF HasInterface(u) THEN [thread[u] EXCEPT !.cut = TRUE] ELSE thread[u]]
            /\ service' = [service EXCEPT !.exists = TRUE]
       ELSE At(t, "finally") /\ UNCHANGED service
    /\ UNCHANGED <<rest, mishaps, appSide, toService, broadcasts, currentIPP>>

Tun2Socks(t) ==
    /\ thread[t].at = "device"
    /\ currentIPP' = t
    /\ At(t, "serving")
    /\ UNCHANGED <<rest, mishaps, appSide, toService, broadcasts, service>>

\* Start returns: the device was told to close or its interface is gone.
Tun2SocksReturns(t) ==
    /\ thread[t].at = "serving" /\ (thread[t].closing \/ thread[t].cut)
    /\ At(t, "finally")
    /\ UNCHANGED <<rest, mishaps, appSide, toService, broadcasts, service, currentIPP>>

DeviceFails(t) ==
    /\ thread[t].at = "serving" /\ Event
    /\ At(t, "finally") /\ Mishap({"failed"})
    /\ UNCHANGED <<process, appSide, toService, broadcasts, service, currentIPP>>

\* Whatever ended the thread, it stops the device there is and the service it
\* belonged to.
Finally(t) ==
    /\ thread[t].at = "finally"
    /\ StopTun2Socks([Closed EXCEPT ![t] = NoRun])
    /\ service' = IF thread[t].dead THEN service
                  ELSE [service EXCEPT !.started = FALSE, !.provider = Provider]
    /\ UNCHANGED <<rest, mishaps, appSide, toService, broadcasts>>

\* mutant: the provider is kept for the next instance
OnDestroy_Shared ==
    /\ service.exists /\ ~service.started /\ toService = << >>
    /\ \A t \in Threads : ~HasInterface(t) \/ thread[t].cut
    /\ StopTun2Socks([t \in Threads |-> IF ~Running(t) \/ thread[t].dead THEN Closed[t]
         ELSE [Closed[t] EXCEPT !.dead = TRUE, !.split = IF @ = 0 THEN Provider ELSE @]])
    /\ service' = [NoInstance EXCEPT !.provider = Provider]
    /\ Mishap(Misses)
    /\ UNCHANGED <<rest, appSide, toService, broadcasts>>

\* An instance neither started nor bound is destroyed.
OnDestroy ==
    /\ service.exists /\ ~service.started /\ toService = << >>
    /\ \A t \in Threads : ~HasInterface(t) \/ thread[t].cut
    /\ StopTun2Socks([t \in Threads |-> IF ~Running(t) \/ thread[t].dead THEN Closed[t]
         ELSE [Closed[t] EXCEPT !.dead = TRUE, !.split = IF @ = 0 THEN Provider ELSE @]])
    /\ service' = NoInstance
    /\ Mishap(Misses)
    /\ UNCHANGED <<rest, appSide, toService, broadcasts>>

\* Another VPN was given consent: the interface is gone, the service told.
OnRevoke ==
    /\ granted.consent /\ \E t \in Threads : HasInterface(t) /\ ~thread[t].cut
    /\ Event
    /\ granted' = [granted EXCEPT !.consent = FALSE]
    /\ StopTun2Socks([t \in Threads |-> IF HasInterface(t) THEN [Closed[t] EXCEPT !.cut = TRUE]
                                        ELSE Closed[t]])
    /\ service' = [service EXCEPT !.started = FALSE, !.provider = Provider]
    /\ Mishap({"revoked"} \cup Misses)
    /\ UNCHANGED <<process, status, split, dialog, switch, toService, broadcasts>>

-----------------------------------------------------------------------------
(* The process of both.                                                    *)

\* The process ends; the system goes on remembering a started service.
ProcessDies ==
    /\ Die /\ Event
    /\ switch' = [s \in Switchers |-> NotSwitching]
    /\ thread' = [t \in Threads |-> NoRun] /\ currentIPP' = NoThread
    /\ service' = [NoInstance EXCEPT !.started = service.started]
    /\ dialog' = "none" /\ toService' = << >> /\ broadcasts' = 0
    /\ Mishap({"died"})
    /\ UNCHANGED <<status, split, granted>>

\* A started service is brought back, without a command; the status is kept.
InitVpnModel ==
    /\ StartProcess
    /\ service' = [service EXCEPT !.exists = service.started]
    /\ UNCHANGED <<appSide, toService, broadcasts, thread, currentIPP, events, mishaps>>

StartAnswered ==
    /\ Answer
    /\ UNCHANGED <<appSide, serviceSide, events, mishaps>>

Init ==
    /\ ProcessInit /\ events = 0 /\ mishaps = {}
    /\ status = "disconnected" /\ split = 1
    /\ \E p \in BOOLEAN, c \in BOOLEAN : granted = [permissions |-> p, consent |-> c]
    /\ dialog = "none" /\ broadcasts = 0 /\ toService = << >>
    /\ switch = [s \in Switchers |-> NotSwitching]
    /\ service = NoInstance
    /\ thread = [t \in Threads |-> NoRun] /\ currentIPP = NoThread

SwitchStep(s) ==
    \/ SwitchVPN(s) \/ SwitchLanternOn(s) \/ SwitchLanternOff(s)
    \/ UpdateStatus(s) \/ StartVpnService(s)

ThreadStep(t) ==
    \/ CheckStarted(t) \/ GetOrInitProvider(t) \/ CreateBuilder(t) \/ Tun2Socks(t)
    \/ Tun2SocksReturns(t) \/ DeviceFails(t) \/ Finally(t)

VpnNext ==
    \/ Toggle \/ ConnectingDelay \/ OnResume \/ CheckVPNStatus
    \/ SetSplitTunneling \/ UpdateAppData
    \/ OnRequestPermissionsResult \/ OnActivityResult
    \/ OnReceive \/ OnStartCommand \/ OnDestroy \/ OnRevoke
    \/ \E s \in Switchers : SwitchStep(s)
    \/ \E t \in Threads : ThreadStep(t)

Next == InitVpnModel \/ StartAnswered \/ ProcessDies \/ VpnNext

Spec == Init /\ [][Next]_vars

-----------------------------------------------------------------------------
(* Properties.                                                             *)

\* What may come in between (`mishaps`):
\*   early    a stop while a thread was on its way to its device
\*   quick    switched on while the last stop was under way
\*   crossed  the switch and the check on resume at once, or the check decided
\*            by what was no longer so, or a dialog was answered meanwhile
\*   kept     a connect for an instance of the service that existed
\*   unready  switched on before Start had answered
\*   failed, revoked, died: the device, the user's consent, the process

\* Who has switched the VPN off has no device and no thread that may yet make
\* one, in every order of the switch, the broadcast, the commands, the threads
\* and the system, other than a stop too early for the device (tun.go:94), a
\* thread that stopped the service switched on again (LanternVpnService.kt:99),
\* and a check on resume that switched on meanwhile.
OffMeansOff ==
    Quiet /\ status = "disconnected" /\ mishaps \cap {"early", "quick", "crossed"} = {}
    => \A t \in Threads : ~Running(t)

\* A status "connected" is a device that serves, unless the threads of the last
\* device stopped the new one (LanternVpnService.kt:99), or the device ended by
\* itself, of which the status does not hear.
ConnectedMeansDevice ==
    /\ Quiet /\ status = "connected"
    /\ mishaps \cap {"quick", "unready", "failed", "revoked", "died"} = {}
    => DeviceRuns

\* "New split tunneling settings will be applied next time you reconnect."
\* (lib/features/account/split_tunneling.dart:93): a device has the setting of
\* its connect or a later one, unless the service outlived the last connection.
SplitApplied ==
    mishaps \cap {"kept"} = {}
    => \A t \in Threads : HasInterface(t) => thread[t].split >= thread[t].least
=============================================================================
