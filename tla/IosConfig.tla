------------------------------ MODULE IosConfig ------------------------------
(***************************************************************************)
(* The configuration of the iOS client (internalsdk/ios/config.go, ios.go, *)
(* ios/Runner/Lantern/Core/Vpn/VpnHelper.swift,                            *)
(* ios/Tunnel/PacketTunnelProvider.swift).  The app fetches proxies.yaml,  *)
(* saves it with its etag in a directory that it shares with the network   *)
(* extension, writes the addresses to exclude from the tunnel, and sends   *)
(* the extension a message; the extension reads routes and proxies when it *)
(* starts and at every message.  Nothing locks the files: os.WriteFile     *)
(* truncates, then writes, and openConfig writes too.                      *)
(*                                                                         *)
(* A file's content is a number: nothing, the embedded configuration or a  *)
(* version of the server.  global.yaml, which only the app touches, is the *)
(* change of global in Result.                                             *)
(***************************************************************************)
EXTENDS Naturals

CONSTANTS
  MaxVersion,   \* bound: the last version the server releases
  Blank,        \* versions that list no proxies
  MaxFaults     \* bound: failed writes and deaths of the app

Empty == 0      \* a truncated file, or no etag
Embedded == 1
Versions == 2..MaxVersion
Contents == {Empty, Embedded} \cup Versions

ASSUME ConfigAssumption ==
  /\ MaxVersion \in Nat /\ MaxVersion >= 2
  /\ Blank \subseteq Versions /\ 2 \notin Blank
  /\ MaxFaults \in Nat

VARIABLES
  latest,      \* the server's version
  file, etag,  \* proxies.yaml and proxies.yaml.etag
  user,        \* userconfig.yaml has been written
  ips,         \* excluded IPs: of this content's proxies
  app,         \* the app: "off", "idle" or a place in configure
  configured,  \* hasConfiguredThisSession
  queued,      \* the user has asked for the VPN before that
  geo,         \* configure's goroutine: "none", "waiting", "writing"
  proxies, fetched, needs,   \* configure's proxies, bytes and VPNNeedsReconfiguring
  net,         \* the extension: "off", "connected" or a place in its start or reconfigure
  routes, dialers,           \* what it excludes, whose proxies it dials
  told,        \* a message to the extension is on its way
  astray,      \* history: something has happened that the code does not recover from
  faults       \* bound counter

configVars == <<latest, file, etag, user, ips, app, configured, queued, geo, proxies, fetched,
          needs, net, routes, dialers, told, astray, faults>>
disk == <<file, etag, user, ips>>
session == <<configured, queued>>
local == <<proxies, fetched, needs>>
extension == <<net, routes, dialers, told>>
history == <<astray, faults>>

Connected == net \in {"connected", "reread", "rewrite"}
NoProxies(content) == content = Empty \/ content \in Blank

ConfigInit ==
  /\ latest = 2
  /\ file = Empty /\ etag = Empty /\ user = FALSE /\ ips = Empty    \* ensureFilesExist
  /\ app = "off" /\ configured = FALSE /\ queued = FALSE /\ geo = "none"
  /\ proxies = Empty /\ fetched = Empty /\ needs = FALSE
  /\ net = "off" /\ routes = Empty /\ dialers = Empty /\ told = FALSE
  /\ astray = FALSE /\ faults = 0

-----------------------------------------------------------------------------
(* Mutated forms of the actions below: plausible slips in this code that   *)
(* the properties must notice.  No specification uses them.                *)

\* saveEtag comes before saveConfig.
FetchNew_EtagFirst ==
  /\ app = "fetch" /\ etag # latest
  /\ app' = "truncate" /\ fetched' = latest /\ etag' = latest
  /\ UNCHANGED <<latest, file, user, ips, session, geo, proxies, needs, extension, history>>

\* The message only changes the routes.
HandleMessage_RoutesOnly ==
  /\ net = "connected" /\ told
  /\ told' = FALSE /\ routes' = ips
  /\ UNCHANGED <<latest, disk, app, session, geo, local, net, dialers, history>>

-----------------------------------------------------------------------------
(* The server and the app's process *)

Release ==
  /\ latest < MaxVersion
  /\ latest' = latest + 1
  /\ UNCHANGED <<disk, app, session, geo, local, extension, history>>

\* performAppSetUp fetches at once.
AppStart ==
  /\ app = "off"
  /\ app' = "user" /\ configured' = FALSE /\ queued' = FALSE
  /\ UNCHANGED <<latest, disk, geo, local, extension, history>>

\* The user or the system ends it; an update that is under way is not taken up again.
AppDies ==
  /\ app # "off" /\ faults < MaxFaults
  /\ faults' = faults + 1
  /\ app' = "off" /\ geo' = "none"
  /\ proxies' = Empty /\ fetched' = Empty /\ needs' = FALSE
  /\ astray' = (astray \/ needs \/ app \in {"fill", "etag"})
  /\ UNCHANGED <<latest, disk, session, extension>>

\* startVPN before the first configuration puts another fetch into the queue.
StartVPN ==
  /\ app # "off" /\ ~configured /\ ~queued
  /\ queued' = TRUE
  /\ UNCHANGED <<latest, disk, app, configured, geo, local, extension, history>>

\* The timer fetches only while the VPN is connected.
Configure ==
  /\ app = "idle" /\ (queued \/ Connected)
  /\ app' = "user" /\ queued' = FALSE
  /\ UNCHANGED <<latest, disk, configured, geo, local, extension, history>>

-----------------------------------------------------------------------------
(* configure *)

UserTruncate ==
  /\ app = "user"
  /\ app' = "userFill" /\ user' = FALSE
  /\ UNCHANGED <<latest, file, etag, ips, session, geo, local, extension, history>>

UserFill ==
  /\ app = "userFill"
  /\ app' = "open" /\ user' = TRUE
  /\ UNCHANGED <<latest, file, etag, ips, session, geo, local, extension, history>>

\* The file is read; if it has content, the goroutine for the country starts.
Open ==
  /\ app = "open"
  /\ IF file = Empty
     THEN app' = "init" /\ UNCHANGED <<proxies, needs, geo>>
     ELSE /\ app' = "fetch" /\ proxies' = file /\ needs' = FALSE
          /\ geo' = IF geo = "none" THEN "waiting" ELSE geo
  /\ UNCHANGED <<latest, disk, session, fetched, extension, history>>

\* An empty file is initialized from the embedded one; the etag stays.
InitFile ==
  /\ app = "init"
  /\ app' = "fetch" /\ file' = Embedded /\ proxies' = Embedded /\ needs' = TRUE
  /\ geo' = IF geo = "none" THEN "waiting" ELSE geo
  /\ UNCHANGED <<latest, etag, user, ips, session, fetched, extension, history>>

\* A write of userconfig.yaml or of the embedded file fails, and configure with it; the
\* first fetch of a session is repeated at once.
ConfigureFails ==
  /\ app \in {"user", "userFill", "init"} /\ faults < MaxFaults
  /\ faults' = faults + 1
  /\ app' = IF configured THEN "idle" ELSE "user"
  /\ UNCHANGED <<latest, disk, session, geo, local, extension, astray>>

\* The goroutine knows the country, or a minute is over, and rewrites userconfig.yaml.
GeoTruncate ==
  /\ geo = "waiting"
  /\ geo' = "writing" /\ user' = FALSE
  /\ UNCHANGED <<latest, file, etag, ips, app, session, local, extension, history>>

GeoFill ==
  /\ geo = "writing"
  /\ geo' = "none" /\ user' = TRUE
  /\ UNCHANGED <<latest, file, etag, ips, app, session, local, extension, history>>

\* 304, or the request fails or cannot be parsed: only logged.
FetchNothing ==
  /\ app = "fetch"
  /\ app' = "result"
  /\ UNCHANGED <<latest, disk, session, geo, local, extension, history>>

\* The server has another version than the etag's.
FetchNew ==
  /\ app = "fetch" /\ etag # latest
  /\ app' = "truncate" /\ fetched' = latest
  /\ UNCHANGED <<latest, disk, session, geo, proxies, needs, extension, history>>

SaveTruncate ==
  /\ app = "truncate"
  /\ app' = "fill" /\ file' = Empty
  /\ UNCHANGED <<latest, etag, user, ips, session, geo, local, extension, history>>

SaveFill ==
  /\ app = "fill"
  /\ app' = "etag" /\ file' = fetched
  /\ UNCHANGED <<latest, etag, user, ips, session, geo, local, extension, history>>

\* Opening or writing the file fails; the etag is saved all the same.
SaveFails ==
  /\ app \in {"truncate", "fill"} /\ faults < MaxFaults
  /\ app' = "etag" /\ faults' = faults + 1 /\ astray' = TRUE
  /\ UNCHANGED <<latest, disk, session, geo, local, extension>>

\* The new proxies replace the old ones, unless there are none.
SaveEtag ==
  /\ app = "etag"
  /\ app' = "result"
  /\ \/ etag' = fetched /\ UNCHANGED faults
     \/ /\ faults < MaxFaults /\ faults' = faults + 1
        /\ etag' \in {etag, Empty}
  /\ IF NoProxies(fetched)
     THEN astray' = TRUE /\ UNCHANGED <<proxies, needs>>
     ELSE proxies' = fetched /\ needs' = TRUE /\ UNCHANGED astray
  /\ UNCHANGED <<latest, file, user, ips, session, geo, fetched, extension>>

Result ==
  /\ app = "result"
  /\ \E globalChanged \in BOOLEAN :
       /\ needs' = (needs \/ globalChanged)
       /\ app' = IF needs' THEN "ips" ELSE "idle"
       /\ configured' = (configured \/ ~needs')
  /\ UNCHANGED <<latest, disk, queued, geo, proxies, fetched, extension, history>>

WriteIps ==
  /\ app = "ips"
  /\ app' = "notify" /\ ips' = proxies
  /\ UNCHANGED <<latest, file, etag, user, session, geo, local, extension, history>>

\* messageNetEx sends nothing unless the VPN is connected: an extension that is starting
\* misses it.
Notify ==
  /\ app = "notify"
  /\ app' = "idle" /\ configured' = TRUE /\ needs' = FALSE
  /\ told' = (told \/ Connected)
  /\ astray' = (astray \/ ~(Connected \/ net = "off"))
  /\ UNCHANGED <<latest, disk, queued, geo, proxies, fetched, net, routes, dialers, faults>>

-----------------------------------------------------------------------------
(* The extension *)

\* By the user or on demand.
NetStart ==
  /\ net = "off"
  /\ net' = "user" /\ routes' = ips
  /\ UNCHANGED <<latest, disk, app, session, geo, local, dialers, told, history>>

NetReadUser ==
  /\ net = "user"
  /\ net' = IF user THEN "open" ELSE "off"
  /\ UNCHANGED <<latest, disk, app, session, geo, local, routes, dialers, told, history>>

\* loadDialers: without dialers the start fails.
NetOpen ==
  /\ net = "open"
  /\ IF NoProxies(file)
     THEN net' = (IF file = Empty THEN "clear" ELSE "off") /\ UNCHANGED dialers
     ELSE net' = "up" /\ dialers' = file
  /\ UNCHANGED <<latest, disk, app, session, geo, local, routes, told, history>>

NetUp ==
  /\ net = "up"
  /\ net' = "connected"
  /\ UNCHANGED <<latest, disk, app, session, geo, local, routes, dialers, told, history>>

\* To openConfig without embedded content an empty file is a reason to write an empty one.
NetClear ==
  /\ net \in {"clear", "rewrite"}
  /\ file' = Empty /\ dialers' = Empty
  /\ net' = IF net = "clear" THEN "off" ELSE "connected"
  /\ astray' = (astray \/ file # Empty)
  /\ UNCHANGED <<latest, etag, user, ips, app, session, geo, local, routes, told, faults>>

HandleMessage ==
  /\ net = "connected" /\ told
  /\ net' = "reread" /\ told' = FALSE /\ routes' = ips
  /\ UNCHANGED <<latest, disk, app, session, geo, local, dialers, history>>

\* reconfigure
NetReread ==
  /\ net = "reread"
  /\ IF file = Empty THEN net' = "rewrite" /\ UNCHANGED dialers
     ELSE net' = "connected" /\ dialers' = file
  /\ UNCHANGED <<latest, disk, app, session, geo, local, routes, told, history>>

\* The user stops the VPN, or the system the process.
NetStop ==
  /\ net # "off"
  /\ net' = "off" /\ dialers' = Empty /\ told' = FALSE
  /\ UNCHANGED <<latest, disk, app, session, geo, local, routes, history>>

-----------------------------------------------------------------------------
ConfigureStep ==
  \/ UserTruncate \/ UserFill \/ Open \/ InitFile \/ FetchNothing \/ FetchNew
  \/ SaveTruncate \/ SaveFill \/ SaveEtag \/ Result \/ WriteIps \/ Notify

NetStep == HandleMessage \/ NetReread \/ NetClear

ConfigNext ==
  \/ Release \/ AppStart \/ AppDies \/ StartVPN \/ Configure
  \/ ConfigureStep \/ ConfigureFails \/ SaveFails \/ GeoTruncate \/ GeoFill
  \/ NetStart \/ NetReadUser \/ NetOpen \/ NetUp \/ NetStep \/ NetStop

ConfigSpec == ConfigInit /\ [][ConfigNext]_configVars

-----------------------------------------------------------------------------
(* Properties *)

\* "config unchanged" is true: when the server would answer 304 to the next fetch, the file
\* has the server's version.  The exceptions are failed writes, a death between truncating
\* the file and telling the extension, an extension that has written an empty file over a
\* new one, and versions without proxies.
UnchangedIsCurrent ==
  app \in {"off", "idle"} /\ ~astray /\ etag = latest => file = latest

\* Between updates, a connected extension dials the proxies in the file and excludes their
\* addresses from the tunnel, with one more exception: an update during its start.
TunnelIsUpToDate ==
  app = "idle" /\ net = "connected" /\ ~told /\ ~astray => dialers = file /\ routes = dialers

\* Empty proxies of the config server are ignored.
BlankIsIgnored == file \notin Blank
=============================================================================
