--------------------------- MODULE AndroidEngine ---------------------------
(***************************************************************************)
(* The Go side of the Android app in one process: internalsdk.Start and    *)
(* the goroutine it runs once (android.go), the check of the features that *)
(* goroutine makes, the Replica server it may start (replica.go), and the  *)
(* ads the session model decides to show (session_model.go).  What the     *)
(* session keeps in its database (`db`) survives the process.              *)
(*                                                                         *)
(* Module AndroidVpn has the VPN service of the same process, for which    *)
(* the engine is what module AndroidProcess says.                          *)
(***************************************************************************)
EXTENDS Naturals, FiniteSets

CONSTANTS MaxBoots,  \* bound: starts of the process
          MaxIncidents  \* bound: what users, the servers and the system do

ASSUME EngineAssumption == {MaxBoots, MaxIncidents} \subseteq Nat

VARIABLES db,       \* persistent paths of the session
          engine,   \* this process: Start, run, the features, the Replica server
          ads,      \* caller -> its checkAdsEnabled
          boots, incidents, \* bound counters; the Replica server of a boot has its number
          checkedAsPro,  \* history: the ads were checked since the user became pro
          history        \* what came in between

engineVars == <<db, engine, ads, boots, incidents, checkedAsPro, history>>

\* What is shown: none is the empty string.
Ads == {"none", "interstitial", "appOpen"}
\* Who checks the ads: the check of the features, and the VPN switch.
Callers == {"features", "vpn"}

Down == [up |-> FALSE, start |-> "none", run |-> "none", http |-> FALSE, dns |-> FALSE,
         replica |-> "none", features |-> "none", wanted |-> FALSE]
NoCheck == [at |-> "idle", asPro |-> FALSE, put |-> "none"]

Incident == incidents < MaxIncidents /\ incidents' = incidents + 1

-----------------------------------------------------------------------------
(* checkAdsEnabled reads one path after another and then writes.           *)

BeginAdsCheck(c) ==
    /\ ads' = [ads EXCEPT ![c] = [NoCheck EXCEPT !.at = "pro", !.asPro = db.pro]]
    /\ history' = IF \E d \in Callers : ads[d].at # "idle"
                  THEN history \cup {"overlap"} ELSE history

AdsWill(c, put) == ads' = [ads EXCEPT ![c].at = "write", ![c].put = put]
AdsGoOn(c, at) == ads' = [ads EXCEPT ![c].at = at]

\* mutant: the level of the user is not asked for
AdsReadPro_Never(c) == ads[c].at = "pro" /\ AdsGoOn(c, "perm")

AdsReadPro(c) ==
    /\ ads[c].at = "pro"
    /\ IF db.pro THEN AdsWill(c, "none") ELSE AdsGoOn(c, "perm")

AdsReadPermission(c) ==
    /\ ads[c].at = "perm"
    /\ IF db.allPerms THEN AdsGoOn(c, "inter") ELSE AdsWill(c, "none")

AdsReadInterstitial(c) ==
    /\ ads[c].at = "inter"
    /\ IF db.interstitial THEN AdsWill(c, "interstitial") ELSE AdsGoOn(c, "app")

\* With neither kind enabled nothing is written: what was shown goes on.
AdsReadAppOpen(c) ==
    /\ ads[c].at = "app"
    /\ IF db.appOpen THEN AdsWill(c, "appOpen") ELSE ads' = [ads EXCEPT ![c] = NoCheck]

AdsWrite(c) ==
    /\ ads[c].at = "write"
    /\ db' = [db EXCEPT !.showAds = ads[c].put]
    /\ checkedAsPro' = (checkedAsPro \/ ads[c].asPro)
    /\ ads' = [ads EXCEPT ![c] = NoCheck]
    /\ UNCHANGED <<engine, boots, incidents, history>>

CheckAdsEnabled(c) ==
    \/ /\ AdsReadPro(c) \/ AdsReadPermission(c) \/ AdsReadInterstitial(c) \/ AdsReadAppOpen(c)
       /\ UNCHANGED <<db, engine, boots, checkedAsPro, incidents, history>>
    \/ AdsWrite(c)

\* The VPN is switched on with all that it needs granted; who switched it waits
\* for the check.
HasAllNetworkPermission ==
    /\ engine.up /\ ads["vpn"].at = "idle" /\ Incident
    /\ db' = [db EXCEPT !.allPerms = TRUE]
    /\ BeginAdsCheck("vpn")
    /\ UNCHANGED <<engine, boots, checkedAsPro>>

\* A purchase, a redeemed code, a change of user: the ads are not checked.
SetProUser == \E pro \in BOOLEAN :
    /\ engine.up /\ Incident
    /\ db' = [db EXCEPT !.pro = pro]
    /\ checkedAsPro' = FALSE
    /\ ads' = [c \in Callers |-> [ads[c] EXCEPT !.asPro = FALSE]]
    /\ UNCHANGED <<engine, boots, history>>

-----------------------------------------------------------------------------
(* internalsdk.Start waits for what `run` starts.                          *)

\* LanternService.run calls Start, which runs `run` once per process.
StartLanternService ==
    /\ ~engine.up /\ boots < MaxBoots
    /\ engine' = [Down EXCEPT !.up = TRUE, !.start = "waiting", !.run = "dnsgrab"]
    /\ boots' = boots + 1
    /\ UNCHANGED <<db, ads, checkedAsPro, incidents, history>>

\* Start has all three addresses.
StartAnswers ==
    /\ engine.start = "waiting" /\ engine.http /\ engine.dns
    /\ engine' = [engine EXCEPT !.start = "answered"]
    /\ UNCHANGED <<db, ads, boots, checkedAsPro, incidents, history>>

Steps(at, next) == engine.run = at /\ engine' = [engine EXCEPT !.run = next]

\* Without the grabber of DNS requests `run` returns, and is not run again.
InitDnsGrab ==
    /\ engine.run = "dnsgrab"
    /\ \E ok \in BOOLEAN :
          engine' = [engine EXCEPT !.dns = ok, !.run = IF ok THEN "reset" ELSE "returned"]
    /\ UNCHANGED <<db, ads, boots, checkedAsPro, incidents, history>>

\* The address of a Replica server, or none (0), is stored.
SetReplicaAddr(addr) == db' = [db EXCEPT !.replicaAddr = addr]

\* mutant: the address of the last server stays until there is a new one
ResetReplicaAddr_Lazy ==
    /\ Steps("reset", "spawn")
    /\ UNCHANGED <<db, ads, boots, checkedAsPro, incidents, history>>

\* Flashlight is made; there is no Replica server yet.
ResetReplicaAddr ==
    /\ Steps("reset", "spawn")
    /\ SetReplicaAddr(0)
    /\ UNCHANGED <<ads, boots, checkedAsPro, incidents, history>>

\* The features are checked by a goroutine.
SpawnFeatures ==
    /\ engine.run = "spawn"
    /\ engine' = [engine EXCEPT !.run = "replica", !.features = "select"]
    /\ UNCHANGED <<db, ads, boots, checkedAsPro, incidents, history>>

\* CheckEnabled with this to change in `engine`: the server is started once,
\* if the feature is enabled, and its address saved.
CheckEnabled(eng) ==
    \/ engine' = eng /\ UNCHANGED db
    \/ /\ engine.replica = "none"
       /\ \/ engine' = [eng EXCEPT !.replica = "failed"] /\ UNCHANGED db
          \/ /\ engine' = [eng EXCEPT !.replica = "serving"]
             /\ SetReplicaAddr(boots)

CheckReplica ==
    /\ engine.run = "replica"
    /\ CheckEnabled([engine EXCEPT !.run = "client"])
    /\ UNCHANGED <<ads, boots, checkedAsPro, incidents, history>>

\* The proxies listen.
RunClient ==
    /\ engine.run = "client"
    /\ engine' = [engine EXCEPT !.run = "running", !.http = TRUE]
    /\ UNCHANGED <<db, ads, boots, checkedAsPro, incidents, history>>

-----------------------------------------------------------------------------
(* The goroutine of the features.                                          *)

\* The location is known first, or five seconds have passed: then it waits for
\* globalConfigChanged, to which nothing is ever sent.
SelectFeatures ==
    /\ engine.features = "select"
    /\ \E at \in {"check", "waiting"} : engine' = [engine EXCEPT !.features = at]
    /\ UNCHANGED <<db, ads, boots, checkedAsPro, incidents, history>>

CheckFeatures ==
    /\ engine.features = "check"
    /\ CheckEnabled([engine EXCEPT !.features = "pro"])
    /\ UNCHANGED <<ads, boots, checkedAsPro, incidents, history>>

\* Pro users are to see none.
FeaturesReadPro ==
    /\ engine.features = "pro"
    /\ engine' = [engine EXCEPT !.features = "inter", !.wanted = ~db.pro]
    /\ UNCHANGED <<db, ads, boots, checkedAsPro, incidents, history>>

SetShowInterstitialAds == \E enabled \in BOOLEAN :
    /\ engine.features = "inter" /\ (enabled => engine.wanted)
    /\ engine' = [engine EXCEPT !.features = "app"]
    /\ db' = [db EXCEPT !.interstitial = enabled]
    /\ BeginAdsCheck("features")
    /\ UNCHANGED <<boots, checkedAsPro, incidents>>

SetShowAppOpenAds == \E enabled \in BOOLEAN :
    /\ engine.features = "app" /\ (enabled => engine.wanted)
    /\ ads["features"].at = "idle"
    /\ engine' = [engine EXCEPT !.features = "checked"]
    /\ db' = [db EXCEPT !.appOpen = enabled]
    /\ BeginAdsCheck("features")
    /\ UNCHANGED <<boots, checkedAsPro, incidents>>

-----------------------------------------------------------------------------

\* The process ends.
Exit ==
    /\ engine.up
    /\ engine' = Down
    /\ ads' = [c \in Callers |-> NoCheck]
    /\ UNCHANGED <<db, boots, checkedAsPro>>

\* mutant: Start waits for the grabber of DNS requests without a limit
StartTimesOut_Never ==
    engine.start = "waiting" /\ engine.dns /\ Exit /\ UNCHANGED <<incidents, history>>

\* Start gave up waiting: the service's thread throws.
StartTimesOut ==
    engine.start = "waiting" /\ Exit /\ UNCHANGED <<incidents, history>>

\* The system kills the process, or a call of the session failed, which
\* panics, or flashlight could not be made.
Crash == Exit /\ Incident /\ UNCHANGED history

EngineInit ==
    /\ db = [replicaAddr |-> 0, pro |-> FALSE, allPerms |-> FALSE, interstitial |-> FALSE,
             appOpen |-> FALSE, showAds |-> "none"]
    /\ engine = Down
    /\ ads = [c \in Callers |-> NoCheck]
    /\ boots = 0 /\ incidents = 0
    /\ checkedAsPro = FALSE
    /\ history = {}

RunStep ==
    \/ StartAnswers \/ InitDnsGrab \/ ResetReplicaAddr \/ SpawnFeatures \/ CheckReplica
    \/ RunClient
FeaturesStep ==
    \/ SelectFeatures \/ CheckFeatures \/ FeaturesReadPro
    \/ SetShowInterstitialAds \/ SetShowAppOpenAds
    \/ \E c \in Callers : CheckAdsEnabled(c)

EngineNext ==
    \/ StartLanternService \/ RunStep \/ FeaturesStep \/ StartTimesOut
    \/ HasAllNetworkPermission \/ SetProUser \/ Crash

\* The goroutine of `run` is scheduled, and Start waits for no longer than its timeout.
EngineSpec ==
    /\ EngineInit /\ [][EngineNext]_engineVars
    /\ WF_engineVars(RunStep) /\ WF_engineVars(StartTimesOut)

-----------------------------------------------------------------------------
(* Properties.                                                             *)

\* From the moment this process has reset it, the address of the Replica
\* server is empty or that of the server this process runs.
ReplicaIsLive ==
    engine.up /\ engine.run \in {"spawn", "replica", "client", "running"}
    => db.replicaAddr = IF engine.replica = "serving" THEN boots ELSE 0

\* Once the ads were checked for a pro user, that user sees none, however the
\* check of the features, the VPN switch and the purchase interleave, unless
\* two checks ran at once: the one that began first may write last.
ProSeesNoAds ==
    db.pro /\ checkedAsPro /\ "overlap" \notin history => db.showAds = "none"

\* For the rest of the app the engine is the process of module AndroidProcess:
\* Start answers with both proxies and the grabber of DNS requests listening,
\* or ends the process.
Process == INSTANCE AndroidProcess WITH
    process <- IF ~engine.up THEN "down"
               ELSE IF engine.start = "answered" THEN "answered" ELSE "starting"
ImplementsProcess == Process!ProcessSpec
=============================================================================
