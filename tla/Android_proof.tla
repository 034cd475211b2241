---------------------------- MODULE Android_proof ----------------------------
(* Safety of the Android app, for any number of starts of its process, of  *)
(* threads and of what the user and the system do: the engine in its       *)
(* process, and the VPN service.                                           *)
EXTENDS AndroidEngine, AndroidVpn, TLAPS

-----------------------------------------------------------------------------
(* The engine.                                                             *)

Runs == {"none", "dnsgrab", "reset", "returned", "spawn", "replica", "client", "running"}
Features == {"none", "select", "waiting", "check", "pro", "inter", "app", "checked"}

DbOK == db \in [replicaAddr : Nat, pro : BOOLEAN, allPerms : BOOLEAN, interstitial : BOOLEAN,
                appOpen : BOOLEAN, showAds : Ads]

Engine == [up : BOOLEAN, start : {"none", "waiting", "answered"}, run : Runs,
           http : BOOLEAN, dns : BOOLEAN, replica : {"none", "failed", "serving"},
           features : Features, wanted : BOOLEAN]

EngineOK == boots \in Nat /\ engine \in Engine

Check == [at : {"idle", "pro", "perm", "inter", "app", "write"}, asPro : BOOLEAN, put : Ads]

AdsOK == ads \in [Callers -> Check]

(***************************************************************************)
(* The strengthening.  No Replica server runs before `run` has reset the   *)
(* address, and the process that is down has not asked for one.            *)
(***************************************************************************)
ReplicaAfterReset ==
  /\ engine.run \in {"none", "dnsgrab", "reset", "returned"} =>
        engine.replica = "none" /\ engine.features = "none"
  /\ ~engine.up => engine.run = "none" /\ engine.start = "none"

(***************************************************************************)
(* A check that began for a pro user, who is pro still, is bound to write  *)
(* that nothing is shown.  Without overlap it is the only one, and once    *)
(* it has written all that follow are of its kind.                         *)
(***************************************************************************)
AsProShowsNone == \A c \in Callers :
  ads[c].asPro =>
    db.pro /\ (ads[c].at = "pro" \/ (ads[c].at = "write" /\ ads[c].put = "none"))

OneCheck ==
  "overlap" \notin history =>
    \A c, d \in Callers : ads[c].at # "idle" /\ ads[d].at # "idle" => c = d

CheckedStays ==
  db.pro /\ checkedAsPro /\ "overlap" \notin history =>
    /\ db.showAds = "none"
    /\ \A c \in Callers : ads[c].at # "idle" => ads[c].asPro

IInv == DbOK /\ EngineOK /\ AdsOK /\ ReplicaAfterReset /\ ReplicaIsLive
        /\ AsProShowsNone /\ OneCheck /\ CheckedStays

EngineInv == DbOK /\ EngineOK /\ ReplicaAfterReset /\ ReplicaIsLive
AdsInv == DbOK /\ AdsOK /\ AsProShowsNone /\ OneCheck /\ CheckedStays

-----------------------------------------------------------------------------

LEMMA Start == EngineInit => IInv
  BY DEF EngineInit, IInv, DbOK, EngineOK, AdsOK, ReplicaAfterReset, ReplicaIsLive, AsProShowsNone,
     OneCheck, CheckedStays, Down, NoCheck, Ads, Runs, Features, Engine, Check

\* The engine and the address of its Replica server.
LEMMA EngineStep == EngineInv /\ AdsOK /\ [EngineNext]_engineVars => EngineInv'
<1> SUFFICES ASSUME EngineInv, AdsOK, [EngineNext]_engineVars PROVE EngineInv'
  OBVIOUS
<1> USE DEF EngineInv, DbOK, EngineOK, ReplicaAfterReset, ReplicaIsLive, Runs, Features, Ads,
        Engine
<1>d. /\ Down \in Engine /\ ~Down.up /\ Down.run = "none" /\ Down.start = "none"
      /\ Down.replica = "none" /\ Down.features = "none"
  BY DEF Down
<1>1. CASE StartLanternService
  <2>1. /\ engine' = [Down EXCEPT !.up = TRUE, !.start = "waiting", !.run = "dnsgrab"]
        /\ boots' = boots + 1 /\ db' = db
    BY <1>1 DEF StartLanternService
  <2>2. engine' \in Engine /\ engine'.run = "dnsgrab" /\ engine'.up
        /\ engine'.replica = "none" /\ engine'.features = "none"
    BY <1>d, <2>1
  <2> QED BY <2>1, <2>2
<1>2. CASE StartAnswers
  <2>1. engine' = [engine EXCEPT !.start = "answered"] /\ UNCHANGED <<db, boots>> /\ engine.up
    BY <1>2 DEF StartAnswers
  <2>2. engine' \in Engine
    BY <2>1
  <2> QED BY <2>1, <2>2
<1>11. CASE InitDnsGrab
  <2>1. PICK ok \in BOOLEAN :
          engine' = [engine EXCEPT !.dns = ok, !.run = IF ok THEN "reset" ELSE "returned"]
    BY <1>11 DEF InitDnsGrab
  <2>2. engine.run = "dnsgrab" /\ UNCHANGED <<db, boots>>
    BY <1>11 DEF InitDnsGrab
  <2>3. engine' \in Engine /\ engine'.run \in {"reset", "returned"}
    BY <2>1
  <2>4. /\ engine'.up = engine.up /\ engine'.start = engine.start
        /\ engine'.replica = engine.replica /\ engine'.features = engine.features
    BY <2>1
  <2> QED BY <2>2, <2>3, <2>4
<1>12. CASE SpawnFeatures
  <2>1. /\ engine' = [engine EXCEPT !.run = "replica", !.features = "select"]
        /\ engine.run = "spawn" /\ UNCHANGED <<db, boots>>
    BY <1>12 DEF SpawnFeatures
  <2>2. engine' \in Engine
    BY <2>1
  <2> QED BY <2>1, <2>2
<1>13. CASE RunClient
  <2>1. /\ engine' = [engine EXCEPT !.run = "running", !.http = TRUE]
        /\ engine.run = "client" /\ UNCHANGED <<db, boots>>
    BY <1>13 DEF RunClient
  <2>2. engine' \in Engine
    BY <2>1
  <2> QED BY <2>1, <2>2
<1>3. CASE ResetReplicaAddr
  BY <1>3 DEF ResetReplicaAddr, Steps, SetReplicaAddr
<1>4. CASE CheckReplica \/ CheckFeatures
  <2>1. PICK run \in Runs, features \in Features :
          LET eng == [engine EXCEPT !.run = run, !.features = features]
          IN  /\ \/ engine.run = "replica" /\ run = "client" /\ features = engine.features
                 \/ engine.features = "check" /\ features = "pro" /\ run = engine.run
              /\ CheckEnabled(eng) /\ UNCHANGED boots
    <3>1. CASE CheckReplica
      <4>1. [engine EXCEPT !.run = "client"]
              = [engine EXCEPT !.run = "client", !.features = engine.features]
        OBVIOUS
      <4> QED BY <3>1, <4>1 DEF CheckReplica
    <3>2. CASE CheckFeatures
      <4>1. [engine EXCEPT !.features = "pro"]
              = [engine EXCEPT !.run = engine.run, !.features = "pro"]
        OBVIOUS
      <4> QED BY <3>2, <4>1 DEF CheckFeatures
    <3> QED BY <1>4, <3>1, <3>2
  <2> DEFINE eng == [engine EXCEPT !.run = run, !.features = features]
  <2>2. /\ eng \in Engine /\ eng.up = engine.up /\ eng.run = run
        /\ eng.start = engine.start /\ eng.replica = engine.replica
    OBVIOUS
  <2> HIDE DEF eng
  <2>3. CASE engine' = eng /\ UNCHANGED db
    BY <2>1, <2>2, <2>3
  <2>4. CASE engine.replica = "none" /\ engine' = [eng EXCEPT !.replica = "failed"] /\ UNCHANGED db
    BY <2>1, <2>2, <2>4
  <2>5. CASE engine' = [eng EXCEPT !.replica = "serving"] /\ db' = [db EXCEPT !.replicaAddr = boots]
    <3>1. engine' \in Engine /\ db'.replicaAddr = boots /\ engine'.replica = "serving"
      BY <2>2, <2>5
    <3>2. engine'.up = engine.up /\ engine'.run = run /\ engine'.start = engine.start
      BY <2>2, <2>5
    <3>3. DbOK'
      BY <2>5
    <3>4. /\ run \notin {"none", "dnsgrab", "reset", "returned"}
          /\ engine.run # "none"
      BY <2>1
    <3> QED BY <2>1, <3>1, <3>2, <3>3, <3>4
  <2> QED BY <2>1, <2>3, <2>4, <2>5 DEF CheckEnabled, SetReplicaAddr, eng
<1>5. CASE SelectFeatures \/ FeaturesReadPro
  <2>1. PICK f \in Features, w \in BOOLEAN :
          engine' = [engine EXCEPT !.features = f, !.wanted = w]
    <3>1. CASE SelectFeatures
      <4>1. PICK at \in {"check", "waiting"} : engine' = [engine EXCEPT !.features = at]
        BY <1>5, <3>1 DEF SelectFeatures
      <4>2. engine' = [engine EXCEPT !.features = at, !.wanted = engine.wanted]
        BY <4>1
      <4> QED BY <4>2
    <3>2. CASE FeaturesReadPro
      BY <1>5, <3>2 DEF FeaturesReadPro
    <3> QED BY <1>5, <3>1, <3>2
  <2>2. UNCHANGED <<db, boots>> /\ engine.features \in {"select", "pro"}
    BY <1>5 DEF SelectFeatures, FeaturesReadPro
  <2>3. engine' \in Engine
    BY <2>1
  <2>4. /\ engine'.up = engine.up /\ engine'.run = engine.run
        /\ engine'.start = engine.start /\ engine'.replica = engine.replica
    BY <2>1
  <2> QED BY <2>2, <2>3, <2>4
<1>6. CASE SetShowInterstitialAds
  <2>1. PICK enabled \in BOOLEAN : db' = [db EXCEPT !.interstitial = enabled]
    BY <1>6 DEF SetShowInterstitialAds
  <2>2. /\ engine' = [engine EXCEPT !.features = "app"] /\ engine.features = "inter"
        /\ UNCHANGED boots
    BY <1>6 DEF SetShowInterstitialAds
  <2>3. engine' \in Engine
    BY <2>2
  <2>4. DbOK' /\ db'.replicaAddr = db.replicaAddr
    BY <2>1
  <2> QED BY <2>2, <2>3, <2>4
<1>14. CASE SetShowAppOpenAds
  <2>1. PICK enabled \in BOOLEAN : db' = [db EXCEPT !.appOpen = enabled]
    BY <1>14 DEF SetShowAppOpenAds
  <2>2. /\ engine' = [engine EXCEPT !.features = "checked"] /\ engine.features = "app"
        /\ UNCHANGED boots
    BY <1>14 DEF SetShowAppOpenAds
  <2>3. engine' \in Engine
    BY <2>2
  <2>4. DbOK' /\ db'.replicaAddr = db.replicaAddr
    BY <2>1
  <2> QED BY <2>2, <2>3, <2>4
<1>7. ASSUME NEW c \in Callers, CheckAdsEnabled(c) PROVE EngineInv'
  BY <1>7 DEF CheckAdsEnabled, AdsWrite, AdsOK, Check
<1>8. CASE HasAllNetworkPermission \/ SetProUser
  <2>1. DbOK' /\ db'.replicaAddr = db.replicaAddr /\ UNCHANGED <<engine, boots>>
    BY <1>8 DEF HasAllNetworkPermission, SetProUser
  <2> QED BY <2>1
<1>9. CASE StartTimesOut \/ Crash
  BY <1>d, <1>9 DEF StartTimesOut, Crash, Exit
<1>10. CASE UNCHANGED engineVars
  BY <1>10 DEF engineVars
<1> QED
  BY <1>1, <1>2, <1>3, <1>4, <1>5, <1>6, <1>7, <1>8, <1>9, <1>10, <1>11, <1>12, <1>13, <1>14
  DEF EngineNext, RunStep, FeaturesStep

\* A check becomes k.
LEMMA Becomes ==
  ASSUME AdsInv, DbOK', db'.pro = db.pro, NEW c \in Callers, NEW k \in Check,
         ads' = [ads EXCEPT ![c] = k], "overlap" \notin history' => "overlap" \notin history,
         k.asPro => db.pro /\ (k.at = "pro" \/ (k.at = "write" /\ k.put = "none")),
         k.at # "idle" /\ "overlap" \notin history' =>
            \/ ads[c].at # "idle" /\ (ads[c].asPro => k.asPro)
            \/ (db.pro => k.asPro) /\ (\A d \in Callers : ads[d].at = "idle"),
         db.pro /\ checkedAsPro' /\ "overlap" \notin history' =>
            /\ db'.showAds = "none"
            /\ checkedAsPro \/ \A d \in Callers \ {c} : ads[d].at = "idle"
            /\ checkedAsPro \/ k.at = "idle"
  PROVE  AdsInv'
<1>1. /\ ads'[c] = k /\ \A d \in Callers \ {c} : ads'[d] = ads[d]
  BY DEF AdsInv, AdsOK
<1>2. AdsOK'
  BY DEF AdsInv, AdsOK
<1>3. AsProShowsNone'
  BY <1>1 DEF AdsInv, AsProShowsNone
<1>4. OneCheck'
  BY <1>1 DEF AdsInv, OneCheck
<1>5. CheckedStays'
  BY <1>1 DEF AdsInv, CheckedStays
<1> QED BY <1>2, <1>3, <1>4, <1>5 DEF AdsInv

LEMMA Begins ==
  ASSUME AdsInv, DbOK', NEW c \in Callers, BeginAdsCheck(c), db'.pro = db.pro,
         db'.showAds = db.showAds, UNCHANGED checkedAsPro
  PROVE  AdsInv'
<1> DEFINE k == [NoCheck EXCEPT !.at = "pro", !.asPro = db.pro]
<1>1. k \in Check /\ k.at = "pro" /\ k.asPro = db.pro
  BY DEF NoCheck, Check, AdsInv, DbOK, Ads
<1>2. ads' = [ads EXCEPT ![c] = k]
  BY DEF BeginAdsCheck
<1>3. "overlap" \notin history' =>
         "overlap" \notin history /\ \A d \in Callers : ads[d].at = "idle"
  BY DEF BeginAdsCheck
<1>4. db.pro /\ checkedAsPro /\ "overlap" \notin history => db.showAds = "none"
  BY DEF AdsInv, CheckedStays
<1> HIDE DEF k
<1> QED BY <1>1, <1>2, <1>3, <1>4, Becomes

\* The checks of the ads.
LEMMA AdsStep == AdsInv /\ EngineOK /\ DbOK' /\ [EngineNext]_engineVars => AdsInv'
<1> SUFFICES ASSUME AdsInv, EngineOK, DbOK', [EngineNext]_engineVars PROVE AdsInv'
  OBVIOUS
<1>1. CASE UNCHANGED <<db, ads, checkedAsPro, history>>
  BY <1>1 DEF AdsInv, DbOK, AdsOK, AsProShowsNone, OneCheck, CheckedStays
<1>2. CASE StartLanternService \/ StartAnswers \/ InitDnsGrab \/ SpawnFeatures \/ RunClient
           \/ SelectFeatures \/ FeaturesReadPro
  BY <1>1, <1>2 DEF StartLanternService, StartAnswers, InitDnsGrab, SpawnFeatures, RunClient,
     SelectFeatures, FeaturesReadPro
<1>3. CASE ResetReplicaAddr \/ CheckReplica \/ CheckFeatures
  <2>1. /\ db'.pro = db.pro /\ db'.showAds = db.showAds
        /\ UNCHANGED <<ads, checkedAsPro, history>>
    BY <1>3 DEF ResetReplicaAddr, CheckReplica, CheckFeatures, CheckEnabled, SetReplicaAddr,
       AdsInv, DbOK
  <2> QED BY <2>1 DEF AdsInv, AdsOK, AsProShowsNone, OneCheck, CheckedStays
<1>4. CASE SetShowInterstitialAds \/ SetShowAppOpenAds
  BY <1>4, Begins DEF SetShowInterstitialAds, SetShowAppOpenAds, Callers, AdsInv, DbOK
<1>5. CASE HasAllNetworkPermission
  BY <1>5, Begins DEF HasAllNetworkPermission, Callers, AdsInv, DbOK
<1>6. CASE SetProUser
  <2>1. ads' = [c \in Callers |-> [ads[c] EXCEPT !.asPro = FALSE]] /\ ~checkedAsPro'
        /\ history' = history
    BY <1>6 DEF SetProUser
  <2>2. \A c \in Callers : ads'[c].at = ads[c].at /\ ~ads'[c].asPro
    BY <2>1 DEF AdsInv, AdsOK, Check
  <2>3. AdsOK'
    BY <2>1 DEF AdsInv, AdsOK, Check
  <2>4. AsProShowsNone' /\ CheckedStays'
    BY <2>1, <2>2 DEF AsProShowsNone, CheckedStays
  <2>5. OneCheck'
    BY <2>1, <2>2 DEF AdsInv, OneCheck
  <2> QED BY <2>3, <2>4, <2>5 DEF AdsInv
<1>7. ASSUME NEW c \in Callers, CheckAdsEnabled(c) PROVE AdsInv'
  <2>c. ads[c] \in Check
    BY DEF AdsInv, AdsOK
  <2>p. ads[c].asPro =>
           db.pro /\ (ads[c].at = "pro" \/ (ads[c].at = "write" /\ ads[c].put = "none"))
    BY DEF AdsInv, AsProShowsNone
  <2>s. db.pro /\ checkedAsPro /\ "overlap" \notin history =>
           /\ db.showAds = "none"
           /\ \A d \in Callers : ads[d].at # "idle" => ads[d].asPro
    BY DEF AdsInv, CheckedStays
  <2>n. NoCheck \in Check /\ NoCheck.at = "idle" /\ NoCheck.asPro = FALSE
    BY DEF NoCheck, Check, Ads
  <2>1. CASE AdsWrite(c)
    <3>1. /\ ads[c].at = "write" /\ ads' = [ads EXCEPT ![c] = NoCheck] /\ history' = history
          /\ checkedAsPro' = (checkedAsPro \/ ads[c].asPro)
          /\ db' = [db EXCEPT !.showAds = ads[c].put]
      BY <2>1 DEF AdsWrite
    <3>2. db'.pro = db.pro /\ db'.showAds = ads[c].put
      BY <3>1 DEF AdsInv, DbOK
    <3>3. ads[c].asPro /\ "overlap" \notin history => \A d \in Callers \ {c} : ads[d].at = "idle"
      BY <3>1 DEF AdsInv, OneCheck
    <3> QED BY <2>p, <2>s, <2>n, <3>1, <3>2, <3>3, Becomes
  <2>2. ASSUME UNCHANGED <<db, checkedAsPro, history>>, NEW k \in Check,
               ads' = [ads EXCEPT ![c] = k], ads[c].at # "idle", k.asPro => ads[c].asPro,
               k.at = "idle" \/ k.asPro = ads[c].asPro,
               k.asPro => k.at = "write" /\ k.put = "none"
        PROVE  AdsInv'
    <3>1. k.asPro => db.pro /\ k.at = "write" /\ k.put = "none"
      BY <2>2, <2>p, Zenon
    <3>2. k.at # "idle" => ads[c].at # "idle" /\ (ads[c].asPro => k.asPro)
      BY <2>2
    <3>3. db'.pro = db.pro /\ db' = db /\ checkedAsPro' = checkedAsPro /\ history' = history
      BY <2>2
    <3>4. db.pro /\ checkedAsPro' /\ "overlap" \notin history' =>
             db'.showAds = "none" /\ checkedAsPro
      BY <2>s, <3>3
    <3>5. ads' = [ads EXCEPT ![c] = k]
      BY <2>2
    <3> QED BY <3>1, <3>2, <3>3, <3>4, <3>5, Becomes
  <2>3. ASSUME UNCHANGED <<db, checkedAsPro, history>>, AdsReadPro(c) PROVE AdsInv'
    <3>1. CASE db.pro
      <4> DEFINE k == [ads[c] EXCEPT !.at = "write", !.put = "none"]
      <4>1. k \in Check /\ k.at = "write" /\ k.put = "none" /\ k.asPro = ads[c].asPro
        BY <2>c DEF Check, Ads
      <4>2. ads' = [ads EXCEPT ![c] = k] /\ ads[c].at = "pro"
        BY <2>3, <3>1 DEF AdsReadPro, AdsWill
      <4> HIDE DEF k
      <4> QED BY <2>2, <2>3, <4>1, <4>2
    <3>2. CASE ~db.pro
      <4> DEFINE k == [ads[c] EXCEPT !.at = "perm"]
      <4>1. k \in Check /\ k.asPro = ads[c].asPro
        BY <2>c DEF Check
      <4>2. ads' = [ads EXCEPT ![c] = k] /\ ads[c].at = "pro"
        BY <2>3, <3>2 DEF AdsReadPro, AdsGoOn
      <4> HIDE DEF k
      <4> QED BY <2>2, <2>3, <2>p, <3>2, <4>1, <4>2
    <3> QED BY <3>1, <3>2
  <2>4. ASSUME UNCHANGED <<db, checkedAsPro, history>>,
               AdsReadPermission(c) \/ AdsReadInterstitial(c) \/ AdsReadAppOpen(c)
        PROVE  AdsInv'
    <3>1. ads[c].at \in {"perm", "inter", "app"}
      BY <2>4 DEF AdsReadPermission, AdsReadInterstitial, AdsReadAppOpen
    <3>2. ads[c].asPro = FALSE
      BY <2>c, <2>p, <3>1 DEF Check
    <3>3. PICK k \in Check : ads' = [ads EXCEPT ![c] = k] /\ k.asPro = ads[c].asPro
      <4>1. \A at \in {"inter", "app"} : LET k == [ads[c] EXCEPT !.at = at]
                                        IN  k \in Check /\ k.asPro = ads[c].asPro
        BY <2>c DEF Check
      <4>2. \A put \in Ads : LET k == [ads[c] EXCEPT !.at = "write", !.put = put]
                             IN  k \in Check /\ k.asPro = ads[c].asPro
        BY <2>c DEF Check
      <4>3. \/ \E at \in {"inter", "app"} : ads' = [ads EXCEPT ![c] = [ads[c] EXCEPT !.at = at]]
            \/ \E put \in Ads : ads' = [ads EXCEPT ![c] =
                                         [ads[c] EXCEPT !.at = "write", !.put = put]]
            \/ ads' = [ads EXCEPT ![c] = NoCheck]
        <5>1. \A at : AdsGoOn(c, at) => ads' = [ads EXCEPT ![c] = [ads[c] EXCEPT !.at = at]]
          BY DEF AdsGoOn
        <5>2. \A put : AdsWill(c, put) =>
                 ads' = [ads EXCEPT ![c] = [ads[c] EXCEPT !.at = "write", !.put = put]]
          BY DEF AdsWill
        <5> QED BY <2>4, <5>1, <5>2 DEF AdsReadPermission, AdsReadInterstitial,
                AdsReadAppOpen, Ads
      <4>4. CASE \E at \in {"inter", "app"} : ads' = [ads EXCEPT ![c] = [ads[c] EXCEPT !.at = at]]
        BY <4>1, <4>4
      <4>5. CASE \E put \in Ads : ads' = [ads EXCEPT ![c] =
                                         [ads[c] EXCEPT !.at = "write", !.put = put]]
        BY <4>2, <4>5
      <4>6. CASE ads' = [ads EXCEPT ![c] = NoCheck]
        BY <2>n, <3>2, <4>6
      <4> QED BY <4>3, <4>4, <4>5, <4>6
    <3> QED BY <2>2, <2>4, <3>1, <3>2, <3>3
  <2> QED BY <1>7, <2>1, <2>3, <2>4 DEF CheckAdsEnabled
<1>8. CASE StartTimesOut \/ Crash
  <2>1. ads' = [c \in Callers |-> NoCheck] /\ UNCHANGED <<db, checkedAsPro, history>>
    BY <1>8 DEF StartTimesOut, Crash, Exit
  <2>2. NoCheck \in Check /\ NoCheck.at = "idle" /\ ~NoCheck.asPro
    BY DEF NoCheck, Check, Ads
  <2> QED BY <2>1, <2>2 DEF AdsInv, AdsOK, AsProShowsNone, OneCheck, CheckedStays
<1>9. CASE UNCHANGED engineVars
  BY <1>1, <1>9 DEF engineVars
<1> QED
  BY <1>2, <1>3, <1>4, <1>5, <1>6, <1>7, <1>8, <1>9 DEF EngineNext, RunStep, FeaturesStep

LEMMA Inductive == EngineSpec => []IInv
<1>1. IInv /\ [EngineNext]_engineVars => IInv'
  BY EngineStep, AdsStep DEF IInv, EngineInv, AdsInv
<1> QED BY Start, <1>1, PTL DEF EngineSpec

-----------------------------------------------------------------------------
(* The theorems.                                                           *)

\* run, CheckEnabled: once this process has reset it, the address stored for the Replica server
\* is empty or that of the server this process runs, never one of an earlier process.
THEOREM ReplicaStaysLive == EngineSpec => []ReplicaIsLive
<1>1. IInv => ReplicaIsLive
  BY DEF IInv
<1> QED BY Inductive, <1>1, PTL

\* checkAdsEnabled: a user for whom the ads were checked since the purchase sees none, however
\* the check of the features, the VPN switch and purchases interleave, if no two checks overlap.
THEOREM ProStaysWithoutAds == EngineSpec => []ProSeesNoAds
<1>1. IInv => ProSeesNoAds
  BY DEF IInv, CheckedStays, ProSeesNoAds
<1> QED BY Inductive, <1>1, PTL

\* Every step of the engine is one of the process of AndroidProcess or leaves it as it is: the
\* safety part of ImplementsProcess.
THEOREM EngineIsProcess ==
  EngineSpec => /\ Process!ProcessInit
          /\ [][Process!StartProcess \/ Process!Answer \/ Process!Die]_(
                IF ~engine.up THEN "down"
                ELSE IF engine.start = "answered" THEN "answered" ELSE "starting")
<1> DEFINE p == IF ~engine.up THEN "down"
                ELSE IF engine.start = "answered" THEN "answered" ELSE "starting"
           A == Process!StartProcess \/ Process!Answer \/ Process!Die
<1>1. EngineInit => Process!ProcessInit
  BY DEF EngineInit, Down, Process!ProcessInit
<1>2. IInv /\ [EngineNext]_engineVars => [A]_p
  <2> SUFFICES ASSUME EngineOK, ReplicaAfterReset, [EngineNext]_engineVars PROVE [A]_p
    BY DEF IInv
  <2> USE DEF EngineOK, Engine, ReplicaAfterReset
  <2>1. CASE engine'.up = engine.up /\ engine'.start = engine.start
    BY <2>1
  <2>2. CASE StartLanternService
    BY <2>2 DEF StartLanternService, Down, Process!StartProcess
  <2>3. CASE StartAnswers
    BY <2>3 DEF StartAnswers, Process!Answer
  <2>4. CASE StartTimesOut \/ Crash
    BY <2>4 DEF StartTimesOut, Crash, Exit, Down, Process!Die
  <2>5. CASE InitDnsGrab \/ ResetReplicaAddr \/ SpawnFeatures \/ RunClient
    BY <2>1, <2>5 DEF InitDnsGrab, ResetReplicaAddr, Steps, SpawnFeatures, RunClient
  <2>6. CASE CheckReplica \/ CheckFeatures
    BY <2>1, <2>6 DEF CheckReplica, CheckFeatures, CheckEnabled
  <2>7. CASE SelectFeatures \/ FeaturesReadPro \/ SetShowInterstitialAds \/ SetShowAppOpenAds
    BY <2>1, <2>7 DEF SelectFeatures, FeaturesReadPro, SetShowInterstitialAds, SetShowAppOpenAds
  <2>8. CASE UNCHANGED engine
    BY <2>1, <2>8
  <2>9. ASSUME NEW c \in Callers, CheckAdsEnabled(c) PROVE [A]_p
    BY <2>8, <2>9 DEF CheckAdsEnabled, AdsWrite
  <2>10. CASE HasAllNetworkPermission \/ SetProUser \/ UNCHANGED engineVars
    BY <2>8, <2>10 DEF HasAllNetworkPermission, SetProUser, engineVars
  <2> QED
    BY <2>2, <2>3, <2>4, <2>5, <2>6, <2>7, <2>9, <2>10 DEF EngineNext, RunStep, FeaturesStep
<1> QED BY Inductive, <1>1, <1>2, PTL DEF EngineSpec

-----------------------------------------------------------------------------
(* The VPN service: the types of its state.                                *)

RunAt == {"idle", "run", "provider", "establish", "device", "serving", "finally"}
Thread == [at : RunAt, split : Nat, least : Nat, dead : BOOLEAN, closing : BOOLEAN,
           cut : BOOLEAN]
SwitchAt == {"idle", "delay", "check", "save", "on", "off", "status", "start"}
Switching == [at : SwitchAt, on : BOOLEAN]
Commands == {"connect", "disconnect"}
Service == [exists : BOOLEAN, started : BOOLEAN, provider : Nat]
Granted == [permissions : BOOLEAN, consent : BOOLEAN]

VpnTypes ==
  /\ split \in Nat /\ broadcasts \in Nat
  /\ granted \in Granted
  /\ switch \in [Switchers -> Switching]
  /\ toService \in Seq(Commands)
  /\ service \in Service
  /\ thread \in [Threads -> Thread]
  /\ currentIPP \in Threads \cup {NoThread}

-----------------------------------------------------------------------------
(* What the helpers of the actions do.                                     *)

LEMMA ProviderIsNat == ASSUME VpnTypes PROVE Provider \in Nat
  BY DEF VpnTypes, Provider, AppsAllowedAccess, Service

LEMMA RunsAreThreads ==
  /\ NoRun \in Thread
  /\ \A l \in Nat : [NoRun EXCEPT !.at = "run", !.least = l] \in Thread
  BY DEF NoRun, Thread, RunAt

\* The device is told to close; nothing else changes.
LEMMA ClosedIs ==
  ASSUME VpnTypes
  PROVE  /\ Closed \in [Threads -> Thread]
         /\ \A t \in Threads :
              /\ Closed[t].at = thread[t].at /\ Closed[t].split = thread[t].split
              /\ Closed[t].least = thread[t].least /\ Closed[t].dead = thread[t].dead
              /\ Closed[t].cut = thread[t].cut
              /\ t = currentIPP => Closed[t].closing = TRUE
              /\ t # currentIPP => Closed[t].closing = thread[t].closing
<1>1. CASE currentIPP = NoThread
  <2>1. Closed = thread
    BY <1>1 DEF Closed
  <2> QED
    BY <2>1, <1>1, VpnAssumption DEF VpnTypes, VpnAssumption
<1>2. CASE currentIPP \in Threads
  <2>1. Closed = [thread EXCEPT ![currentIPP].closing = TRUE]
    BY <1>2, VpnAssumption DEF Closed, VpnAssumption
  <2>2. Closed \in [Threads -> Thread]
    BY <2>1, <1>2 DEF VpnTypes, Thread
  <2>3. ASSUME NEW t \in Threads
        PROVE  /\ Closed[t].at = thread[t].at /\ Closed[t].split = thread[t].split
               /\ Closed[t].least = thread[t].least /\ Closed[t].dead = thread[t].dead
               /\ Closed[t].cut = thread[t].cut
               /\ t = currentIPP => Closed[t].closing = TRUE
               /\ t # currentIPP => Closed[t].closing = thread[t].closing
    BY <2>1, <1>2 DEF VpnTypes, Thread
  <2> QED  BY <2>2, <2>3
<1> QED  BY <1>1, <1>2 DEF VpnTypes

(***************************************************************************)
(* The actions that leave all of the service alone but the calls of the    *)
(* app and the system; the commands on their way.                          *)
(***************************************************************************)
AppStep ==
  \/ Toggle \/ ConnectingDelay \/ OnResume \/ CheckVPNStatus
  \/ SetSplitTunneling \/ UpdateAppData
  \/ OnRequestPermissionsResult \/ OnActivityResult
  \/ \E s \in Switchers : SwitchVPN(s) \/ SwitchLanternOn(s) \/ UpdateStatus(s)

LEMMA AppLeaves == AppStep => UNCHANGED <<process, serviceSide>>
  BY DEF AppStep, Toggle, ConnectingDelay, OnResume, CheckVPNStatus, SetSplitTunneling,
         UpdateAppData, OnRequestPermissionsResult, OnActivityResult, SwitchVPN,
         SwitchLanternOn, UpdateStatus, rest

LEMMA VpnSteps ==
  [Next]_vars =>
    \/ AppStep
    \/ \E s \in Switchers : SwitchLanternOff(s) \/ StartVpnService(s)
    \/ OnReceive \/ OnStartCommand \/ OnDestroy \/ OnRevoke
    \/ \E t \in Threads : ThreadStep(t)
    \/ InitVpnModel \/ StartAnswered \/ ProcessDies \/ UNCHANGED vars
  BY DEF Next, VpnNext, AppStep, SwitchStep

LEMMA SwitchMoves ==
  ASSUME VpnTypes, NEW s \in Switchers, NEW a \in SwitchAt, Goto(s, a)
  PROVE  /\ switch' \in [Switchers -> Switching]
         /\ switch'[s].at = a /\ switch'[s].on = switch[s].on
         /\ \A r \in Switchers \ {s} : switch'[r] = switch[r]
  BY DEF VpnTypes, Goto, Switching

LEMMA SwitchEnds ==
  ASSUME VpnTypes, NEW s \in Switchers, SwitchDone(s)
  PROVE  /\ switch' \in [Switchers -> Switching]
         /\ switch'[s].at = "idle"
         /\ \A r \in Switchers \ {s} : switch'[r] = switch[r]
  BY DEF VpnTypes, SwitchDone, Switching, NotSwitching, SwitchAt

LEMMA ThreadMoves ==
  ASSUME VpnTypes, NEW t \in Threads, NEW a \in RunAt, At(t, a)
  PROVE  /\ thread' \in [Threads -> Thread]
         /\ thread'[t] = [thread[t] EXCEPT !.at = a]
         /\ \A u \in Threads \ {t} : thread'[u] = thread[u]
  BY DEF VpnTypes, At, Thread

LEMMA SwitchTypes == VpnTypes /\ [Next]_vars => switch' \in [Switchers -> Switching]
<1> SUFFICES ASSUME VpnTypes, [Next]_vars PROVE switch' \in [Switchers -> Switching]
  OBVIOUS
<1>1. \A s \in Switchers, a \in SwitchAt : Goto(s, a) => switch' \in [Switchers -> Switching]
  BY SwitchMoves
<1>2. \A s \in Switchers : SwitchDone(s) => switch' \in [Switchers -> Switching]
  BY SwitchEnds
<1>3. {"delay", "check", "save", "on", "off", "status", "start", "idle"} = SwitchAt
  BY DEF SwitchAt
<1>4. "switch" \in Switchers /\ "resume" \in Switchers
  BY DEF Switchers
<1>5. CASE Toggle \/ OnResume
  <2>1. CASE Toggle
    <3>1. (status = "disconnected") \in BOOLEAN
      OBVIOUS
    <3>2. [at |-> "delay", on |-> status = "disconnected"] \in Switching
      BY <3>1, <1>3 DEF Switching
    <3> QED  BY <2>1, <3>2 DEF Toggle, VpnTypes
  <2>2. CASE OnResume
    <3>1. [at |-> "check", on |-> service.started] \in Switching
      BY <1>3 DEF Switching, VpnTypes, Service
    <3> QED  BY <2>2, <3>1 DEF OnResume, VpnTypes
  <2> QED  BY <1>5, <2>1, <2>2
<1>6. CASE ConnectingDelay \/ CheckVPNStatus
  BY <1>1, <1>2, <1>3, <1>4, <1>6 DEF ConnectingDelay, CheckVPNStatus
<1>7. CASE SetSplitTunneling \/ UpdateAppData
  BY <1>7 DEF SetSplitTunneling, UpdateAppData, VpnTypes
<1>8. CASE OnRequestPermissionsResult \/ OnActivityResult
  <2>1. [at |-> "on", on |-> TRUE] \in Switching /\ [at |-> "start", on |-> TRUE] \in Switching
    BY <1>3 DEF Switching
  <2> QED  BY <1>8, <2>1 DEF OnRequestPermissionsResult, OnActivityResult, VpnTypes
<1>9. ASSUME NEW s \in Switchers, SwitchVPN(s) \/ SwitchLanternOn(s) \/ SwitchLanternOff(s)
                                  \/ UpdateStatus(s) \/ StartVpnService(s)
      PROVE  switch' \in [Switchers -> Switching]
  BY <1>1, <1>2, <1>3, <1>9 DEF SwitchVPN, SwitchLanternOn, SwitchLanternOff, UpdateStatus,
                                StartVpnService
<1>10. CASE ProcessDies
  BY <1>3, <1>10 DEF ProcessDies, NotSwitching, Switching
<1>11. CASE UNCHANGED switch
  BY <1>11 DEF VpnTypes
<1>12. CASE OnReceive \/ OnStartCommand \/ OnDestroy \/ OnRevoke \/ InitVpnModel \/ StartAnswered
            \/ UNCHANGED vars
  BY <1>11, <1>12 DEF OnReceive, OnStartCommand, OnDestroy, OnRevoke, InitVpnModel, StartAnswered,
                      vars, appSide
<1>13. ASSUME NEW t \in Threads, ThreadStep(t) PROVE UNCHANGED switch
  BY <1>13 DEF ThreadStep, CheckStarted, GetOrInitProvider, CreateBuilder, Tun2Socks,
               Tun2SocksReturns, DeviceFails, Finally, appSide
<1> QED
  BY VpnSteps, <1>5, <1>6, <1>7, <1>8, <1>9, <1>10, <1>11, <1>12, <1>13 DEF AppStep

LEMMA OtherTypes ==
  VpnTypes /\ [Next]_vars => /\ split' \in Nat /\ broadcasts' \in Nat
                             /\ granted' \in Granted
<1> SUFFICES ASSUME VpnTypes, [Next]_vars
             PROVE  split' \in Nat /\ broadcasts' \in Nat /\ granted' \in Granted
  OBVIOUS
<1>1. split' \in {split, split + 1} /\ broadcasts' \in {broadcasts, 0, broadcasts + 1,
                                                       broadcasts - 1}
  <2>1. CASE AppStep
    BY <2>1 DEF AppStep, Toggle, ConnectingDelay, OnResume, CheckVPNStatus, SetSplitTunneling,
         UpdateAppData, OnRequestPermissionsResult, OnActivityResult, SwitchVPN,
         SwitchLanternOn, UpdateStatus, serviceSide
  <2>2. ASSUME NEW s \in Switchers, SwitchLanternOff(s) \/ StartVpnService(s)
        PROVE  split' = split /\ broadcasts' \in {broadcasts, broadcasts + 1}
    BY <2>2 DEF SwitchLanternOff, StartVpnService
  <2>3. CASE OnReceive \/ OnStartCommand \/ OnDestroy \/ OnRevoke \/ InitVpnModel \/ StartAnswered
             \/ ProcessDies \/ UNCHANGED vars
    BY <2>3 DEF OnReceive, OnStartCommand, OnDestroy, OnRevoke, InitVpnModel, StartAnswered,
                ProcessDies, vars, appSide, serviceSide
  <2>4. ASSUME NEW t \in Threads, ThreadStep(t) PROVE UNCHANGED <<split, broadcasts>>
    BY <2>4 DEF ThreadStep, CheckStarted, GetOrInitProvider, CreateBuilder, Tun2Socks,
                Tun2SocksReturns, DeviceFails, Finally, appSide
  <2> QED  BY VpnSteps, <2>1, <2>2, <2>3, <2>4
<1>2. broadcasts' = broadcasts - 1 => broadcasts > 0
  <2>1. ~OnReceive => broadcasts' \in {broadcasts, 0, broadcasts + 1}
    <3>1. CASE AppStep
      BY <3>1, AppLeaves DEF serviceSide
    <3>2. ASSUME NEW s \in Switchers, SwitchLanternOff(s) \/ StartVpnService(s)
          PROVE  broadcasts' \in {broadcasts, broadcasts + 1}
      BY <3>2 DEF SwitchLanternOff, StartVpnService
    <3>3. CASE OnStartCommand \/ OnDestroy \/ OnRevoke \/ InitVpnModel \/ StartAnswered
               \/ ProcessDies \/ UNCHANGED vars
      BY <3>3 DEF OnStartCommand, OnDestroy, OnRevoke, InitVpnModel, StartAnswered,
                  ProcessDies, vars, serviceSide
    <3>4. ASSUME NEW t \in Threads, ThreadStep(t) PROVE UNCHANGED broadcasts
      BY <3>4 DEF ThreadStep, CheckStarted, GetOrInitProvider, CreateBuilder, Tun2Socks,
                  Tun2SocksReturns, DeviceFails, Finally
    <3> QED  BY VpnSteps, <3>1, <3>2, <3>3, <3>4
  <2>2. OnReceive => broadcasts > 0
    BY DEF OnReceive
  <2> QED  BY <2>1, <2>2 DEF VpnTypes
<1>3. granted' \in Granted
  <2>1. CASE OnRequestPermissionsResult \/ OnActivityResult
    BY <2>1 DEF OnRequestPermissionsResult, OnActivityResult, VpnTypes, Granted
  <2>2. CASE OnRevoke
    BY <2>2 DEF OnRevoke, VpnTypes, Granted
  <2>3. CASE UNCHANGED granted
    BY <2>3 DEF VpnTypes
  <2>4. ASSUME NEW s \in Switchers, SwitchVPN(s) \/ SwitchLanternOn(s) \/ SwitchLanternOff(s)
                                  \/ UpdateStatus(s) \/ StartVpnService(s)
        PROVE  UNCHANGED granted
    BY <2>4 DEF SwitchVPN, SwitchLanternOn, SwitchLanternOff, UpdateStatus, StartVpnService
  <2>5. CASE \/ Toggle \/ ConnectingDelay \/ OnResume \/ CheckVPNStatus
             \/ SetSplitTunneling \/ UpdateAppData
             \/ OnReceive \/ OnStartCommand \/ OnDestroy \/ InitVpnModel \/ StartAnswered
             \/ ProcessDies \/ UNCHANGED vars
    BY <2>3, <2>5 DEF Toggle, ConnectingDelay, OnResume, CheckVPNStatus, SetSplitTunneling,
                UpdateAppData, OnReceive, OnStartCommand, OnDestroy, InitVpnModel, StartAnswered,
                ProcessDies, vars, appSide
  <2>6. ASSUME NEW t \in Threads, ThreadStep(t) PROVE UNCHANGED granted
    BY <2>6 DEF ThreadStep, CheckStarted, GetOrInitProvider, CreateBuilder, Tun2Socks,
                Tun2SocksReturns, DeviceFails, Finally, appSide
  <2> QED  BY VpnSteps, <2>1, <2>2, <2>3, <2>4, <2>5, <2>6 DEF AppStep
<1> QED  BY <1>1, <1>2, <1>3 DEF VpnTypes

-----------------------------------------------------------------------------
(* What the actions of the service do to its threads.                      *)

LEMMA DisconnectDoes ==
  ASSUME VpnTypes, OnStartCommand, Head(toService) = "disconnect"
  PROVE  /\ thread' = Closed /\ currentIPP' = NoThread
         /\ service' = [exists |-> TRUE, started |-> FALSE, provider |-> Provider]
         /\ mishaps' = mishaps \cup Misses
  BY DEF OnStartCommand, StopTun2Socks, Mishap

LEMMA ConnectDoes ==
  ASSUME VpnTypes, OnStartCommand, Head(toService) # "disconnect"
  PROVE  \E t \in Threads :
           /\ ~Running(t) /\ thread' \in [Threads -> Thread]
           /\ thread'[t] = [NoRun EXCEPT !.at = "run", !.least = split]
           /\ \A u \in Threads \ {t} : thread'[u] = thread[u]
           /\ service' \in Service /\ service'.exists = TRUE
           /\ service'.started = service.started /\ service'.provider = service.provider
           /\ service.exists => "kept" \in mishaps'
           /\ mishaps \subseteq mishaps'
           /\ currentIPP' = currentIPP
<1>1. PICK t \in Threads :
         /\ ~Running(t)
         /\ thread' = [thread EXCEPT ![t] = [NoRun EXCEPT !.at = "run", !.least = split]]
         /\ service' = [service EXCEPT !.exists = TRUE]
         /\ IF service.exists THEN Mishap({"kept"}) ELSE UNCHANGED mishaps
         /\ UNCHANGED currentIPP
  BY DEF OnStartCommand
<1>2. [NoRun EXCEPT !.at = "run", !.least = split] \in Thread
  BY RunsAreThreads DEF VpnTypes
<1> DEFINE k == [NoRun EXCEPT !.at = "run", !.least = split]
<1>3. thread' = [thread EXCEPT ![t] = k] /\ k \in Thread
  BY <1>1, <1>2
<1> HIDE DEF k
<1>4. /\ thread' \in [Threads -> Thread] /\ thread'[t] = k
      /\ \A u \in Threads \ {t} : thread'[u] = thread[u]
  BY <1>3 DEF VpnTypes
<1>5. /\ service' \in Service /\ service'.exists = TRUE
      /\ service'.started = service.started /\ service'.provider = service.provider
  BY <1>1 DEF VpnTypes, Service
<1>6. (service.exists => "kept" \in mishaps') /\ mishaps \subseteq mishaps'
  BY <1>1 DEF Mishap
<1> QED  BY <1>1, <1>4, <1>5, <1>6 DEF k

LEMMA ProviderDoes ==
  ASSUME VpnTypes, NEW t \in Threads, GetOrInitProvider(t)
  PROVE  /\ thread' \in [Threads -> Thread]
         /\ \A u \in Threads \ {t} : thread'[u] = thread[u]
         /\ thread[t].at = "provider" /\ thread'[t].at = "establish"
         /\ thread'[t].least = thread[t].least /\ thread'[t].dead = thread[t].dead
         /\ thread'[t].closing = thread[t].closing /\ thread'[t].cut = thread[t].cut
         /\ thread'[t].split = IF thread[t].dead THEN thread[t].split ELSE Provider
         /\ service' \in Service
         /\ service'.exists = service.exists /\ service'.started = service.started
         /\ service'.provider = IF thread[t].dead THEN service.provider ELSE Provider
<1>1. "establish" \in RunAt /\ Provider \in Nat
  BY ProviderIsNat DEF RunAt
<1>2. CASE thread[t].dead
  <2>1. At(t, "establish") /\ UNCHANGED service /\ thread[t].at = "provider"
    BY <1>2 DEF GetOrInitProvider
  <2>2. /\ thread' \in [Threads -> Thread]
        /\ thread'[t] = [thread[t] EXCEPT !.at = "establish"]
        /\ \A u \in Threads \ {t} : thread'[u] = thread[u]
    BY <1>1, <2>1, ThreadMoves
  <2>3. thread[t] \in Thread /\ service \in Service
    BY DEF VpnTypes
  <2> QED  BY <1>2, <2>1, <2>2, <2>3 DEF Thread
<1>3. CASE ~thread[t].dead
  <2>1. /\ thread' = [thread EXCEPT ![t].at = "establish", ![t].split = Provider]
        /\ service' = [service EXCEPT !.provider = Provider] /\ thread[t].at = "provider"
    BY <1>3 DEF GetOrInitProvider
  <2> QED  BY <1>1, <1>3, <2>1 DEF VpnTypes, Thread, Service
<1> QED  BY <1>2, <1>3

LEMMA BuilderDoes ==
  ASSUME VpnTypes, NEW t \in Threads, CreateBuilder(t), granted.consent
  PROVE  /\ thread' \in [Threads -> Thread]
         /\ thread[t].at = "establish" /\ thread'[t] = [thread[t] EXCEPT !.at = "device"]
         /\ \A u \in Threads \ {t} :
              /\ HasInterface(u) => thread'[u] = [thread[u] EXCEPT !.cut = TRUE]
              /\ ~HasInterface(u) => thread'[u] = thread[u]
         /\ service' \in Service /\ service'.exists = TRUE
         /\ service'.started = service.started /\ service'.provider = service.provider
<1>1. /\ thread' = [u \in Threads |->
                      IF u = t THEN [thread[u] EXCEPT !.at = "device"]
                      ELSE IF HasInterface(u) THEN [thread[u] EXCEPT !.cut = TRUE] ELSE thread[u]]
      /\ service' = [service EXCEPT !.exists = TRUE] /\ thread[t].at = "establish"
  BY DEF CreateBuilder
<1>2. \A u \in Threads : /\ [thread[u] EXCEPT !.at = "device"] \in Thread
                         /\ [thread[u] EXCEPT !.cut = TRUE] \in Thread
                         /\ thread[u] \in Thread
  BY DEF VpnTypes, Thread, RunAt
<1> HIDE DEF HasInterface
<1> QED  BY <1>1, <1>2 DEF VpnTypes, Service

LEMMA FinallyDoes ==
  ASSUME VpnTypes, NEW t \in Threads, Finally(t)
  PROVE  /\ thread' \in [Threads -> Thread] /\ thread'[t] = NoRun
         /\ \A u \in Threads \ {t} : thread'[u] = Closed[u]
         /\ thread[t].at = "finally" /\ currentIPP' = NoThread
         /\ service' \in Service
         /\ service'.exists = service.exists
         /\ service'.started = IF thread[t].dead THEN service.started ELSE FALSE
         /\ service'.provider = IF thread[t].dead THEN service.provider ELSE Provider
<1>1. thread' = [Closed EXCEPT ![t] = NoRun] /\ currentIPP' = NoThread /\ thread[t].at = "finally"
  BY DEF Finally, StopTun2Socks
<1>2. /\ thread' \in [Threads -> Thread] /\ thread'[t] = NoRun
      /\ \A u \in Threads \ {t} : thread'[u] = Closed[u]
  BY <1>1, ClosedIs, RunsAreThreads
<1>3. service' = IF thread[t].dead THEN service
                 ELSE [service EXCEPT !.started = FALSE, !.provider = Provider]
  BY DEF Finally
<1>4. Provider \in Nat
  BY ProviderIsNat
<1> QED  BY <1>1, <1>2, <1>3, <1>4 DEF VpnTypes, Service

LEMMA DestroyDoes ==
  ASSUME VpnTypes, OnDestroy
  PROVE  /\ thread' \in [Threads -> Thread] /\ currentIPP' = NoThread
         /\ \A t \in Threads :
              /\ thread'[t].at = thread[t].at /\ thread'[t].least = thread[t].least
              /\ thread'[t].cut = thread[t].cut
              /\ thread'[t].closing = Closed[t].closing
              /\ Running(t) => thread'[t].dead
              /\ thread'[t].split = IF ~Running(t) \/ thread[t].dead \/ thread[t].split # 0
                                    THEN thread[t].split ELSE Provider
         /\ service' = NoInstance /\ mishaps' = mishaps \cup Misses
<1>1. /\ thread' = [t \in Threads |-> IF ~Running(t) \/ thread[t].dead THEN Closed[t]
           ELSE [Closed[t] EXCEPT !.dead = TRUE, !.split = IF @ = 0 THEN Provider ELSE @]]
      /\ currentIPP' = NoThread /\ service' = NoInstance /\ mishaps' = mishaps \cup Misses
  BY DEF OnDestroy, StopTun2Socks, Mishap
<1>2. Provider \in Nat
  BY ProviderIsNat
<1>3. ASSUME NEW t \in Threads
      PROVE  /\ thread'[t] \in Thread
             /\ thread'[t].at = thread[t].at /\ thread'[t].least = thread[t].least
             /\ thread'[t].cut = thread[t].cut
             /\ thread'[t].closing = Closed[t].closing
             /\ Running(t) => thread'[t].dead
             /\ thread'[t].split = IF ~Running(t) \/ thread[t].dead \/ thread[t].split # 0
                                   THEN thread[t].split ELSE Provider
  <2> DEFINE c == Closed[t]
  <2>1. /\ c \in Thread /\ c.at = thread[t].at /\ c.least = thread[t].least
        /\ c.cut = thread[t].cut /\ c.split = thread[t].split /\ c.dead = thread[t].dead
    BY ClosedIs
  <2>2. thread'[t] = IF ~Running(t) \/ thread[t].dead THEN c
                     ELSE [c EXCEPT !.dead = TRUE,
                                    !.split = IF c.split = 0 THEN Provider ELSE c.split]
    BY <1>1
  <2> HIDE DEF c
  <2>3. CASE ~Running(t) \/ thread[t].dead
    BY <2>1, <2>2, <2>3 DEF c
  <2>4. CASE ~(~Running(t) \/ thread[t].dead)
    <3>1. thread'[t] = [c EXCEPT !.dead = TRUE, !.split = IF c.split = 0 THEN Provider ELSE c.split]
      BY <2>2, <2>4
    <3>2. (IF c.split = 0 THEN Provider ELSE c.split) \in Nat
      BY <2>1, <1>2 DEF Thread
    <3>3. /\ thread'[t] \in Thread
          /\ thread'[t].at = c.at /\ thread'[t].least = c.least /\ thread'[t].cut = c.cut
          /\ thread'[t].closing = c.closing /\ thread'[t].dead = TRUE
          /\ thread'[t].split = IF c.split = 0 THEN Provider ELSE c.split
      BY <2>1, <3>1, <3>2 DEF Thread
    <3> QED  BY <2>1, <2>4, <3>3 DEF c
  <2> QED  BY <2>3, <2>4
<1>4. thread' \in [Threads -> Thread]
  <2>1. thread' = [t \in Threads |-> thread'[t]]
    BY <1>1
  <2> QED  BY <1>3, <2>1
<1> QED  BY <1>1, <1>3, <1>4

LEMMA RevokeDoes ==
  ASSUME VpnTypes, OnRevoke
  PROVE  /\ thread' \in [Threads -> Thread] /\ currentIPP' = NoThread
         /\ \A t \in Threads :
              /\ HasInterface(t) => thread'[t] = [Closed[t] EXCEPT !.cut = TRUE]
              /\ ~HasInterface(t) => thread'[t] = Closed[t]
         /\ \E t \in Threads : HasInterface(t) /\ ~thread[t].cut
         /\ service' \in Service
         /\ service'.exists = service.exists /\ service'.started = FALSE
         /\ service'.provider = Provider
         /\ mishaps' = mishaps \cup {"revoked"} \cup Misses
<1>1. /\ thread' = [t \in Threads |-> IF HasInterface(t) THEN [Closed[t] EXCEPT !.cut = TRUE]
                                      ELSE Closed[t]]
      /\ currentIPP' = NoThread
      /\ \E t \in Threads : HasInterface(t) /\ ~thread[t].cut
      /\ service' = [service EXCEPT !.started = FALSE, !.provider = Provider]
      /\ mishaps' = mishaps \cup {"revoked"} \cup Misses
  BY DEF OnRevoke, StopTun2Socks, Mishap
<1>2. Provider \in Nat
  BY ProviderIsNat
<1>3. \A t \in Threads : Closed[t] \in Thread /\ [Closed[t] EXCEPT !.cut = TRUE] \in Thread
  BY ClosedIs DEF Thread
<1>4. service' \in Service /\ service'.exists = service.exists /\ service'.started = FALSE
      /\ service'.provider = Provider
  BY <1>1, <1>2 DEF VpnTypes, Service
<1> HIDE DEF HasInterface
<1> QED  BY <1>1, <1>3, <1>4

LEMMA ThreadTypes ==
  VpnTypes /\ [Next]_vars =>
    /\ thread' \in [Threads -> Thread] /\ service' \in Service
    /\ currentIPP' \in Threads \cup {NoThread}
<1> SUFFICES ASSUME VpnTypes, [Next]_vars
             PROVE  /\ thread' \in [Threads -> Thread] /\ service' \in Service
                    /\ currentIPP' \in Threads \cup {NoThread}
  OBVIOUS
<1>1. CASE UNCHANGED <<thread, service, currentIPP>>
  BY <1>1 DEF VpnTypes
<1>2. CASE AppStep \/ OnReceive \/ StartAnswered \/ UNCHANGED vars
  BY <1>1, <1>2, AppLeaves DEF OnReceive, StartAnswered, vars, serviceSide
<1>3. ASSUME NEW s \in Switchers, SwitchLanternOff(s) \/ StartVpnService(s)
      PROVE  /\ thread' \in [Threads -> Thread] /\ service' \in Service
             /\ currentIPP' \in Threads \cup {NoThread}
  <2>1. CASE SwitchLanternOff(s)
    BY <2>1, <1>1 DEF SwitchLanternOff
  <2>2. CASE StartVpnService(s)
    BY <2>2 DEF StartVpnService, VpnTypes, Service
  <2> QED  BY <1>3, <2>1, <2>2
<1>4. CASE OnStartCommand
  <2>1. [exists |-> TRUE, started |-> FALSE, provider |-> Provider] \in Service
    BY ProviderIsNat DEF Service
  <2>2. CASE Head(toService) = "disconnect"
    BY <1>4, <2>1, <2>2, DisconnectDoes, ClosedIs
  <2>3. CASE Head(toService) # "disconnect"
    BY <1>4, <2>3, ConnectDoes DEF VpnTypes
  <2> QED  BY <2>2, <2>3
<1>5. CASE OnDestroy
  <2>1. NoInstance \in Service
    BY DEF NoInstance, Service
  <2> QED  BY <1>5, <2>1, DestroyDoes
<1>6. CASE OnRevoke
  BY <1>6, RevokeDoes
<1>7. CASE InitVpnModel
  <2>1. service.started \in BOOLEAN /\ service' = [service EXCEPT !.exists = service.started]
    BY <1>7 DEF InitVpnModel, VpnTypes, Service
  <2>2. service' \in Service
    BY <2>1 DEF VpnTypes, Service
  <2> QED  BY <1>7, <2>2 DEF InitVpnModel, VpnTypes
<1>8. CASE ProcessDies
  <2>1. service.started \in BOOLEAN /\ service' = [NoInstance EXCEPT !.started = service.started]
    BY <1>8 DEF ProcessDies, VpnTypes, Service
  <2>2. service' \in Service
    BY <2>1 DEF NoInstance, Service
  <2> QED  BY <1>8, <2>2, RunsAreThreads DEF ProcessDies
<1>9. ASSUME NEW t \in Threads, ThreadStep(t)
      PROVE  /\ thread' \in [Threads -> Thread] /\ service' \in Service
             /\ currentIPP' \in Threads \cup {NoThread}
  <2>1. \A a \in RunAt : At(t, a) => thread' \in [Threads -> Thread]
    BY ThreadMoves
  <2>2. {"provider", "finally", "serving"} \subseteq RunAt
    BY DEF RunAt
  <2>3. CASE CheckStarted(t) \/ Tun2SocksReturns(t) \/ DeviceFails(t) \/ Tun2Socks(t)
    BY <2>1, <2>2, <2>3 DEF CheckStarted, Tun2SocksReturns, DeviceFails, Tun2Socks, VpnTypes
  <2>4. CASE GetOrInitProvider(t)
    <3>1. UNCHANGED currentIPP
      BY <2>4 DEF GetOrInitProvider
    <3> QED  BY <2>4, <3>1, ProviderDoes DEF VpnTypes
  <2>5. CASE CreateBuilder(t)
    <3>1. UNCHANGED currentIPP
      BY <2>5 DEF CreateBuilder
    <3>2. CASE granted.consent
      BY <2>5, <3>1, <3>2, BuilderDoes DEF VpnTypes
    <3>3. CASE ~granted.consent
      BY <2>1, <2>2, <2>5, <3>1, <3>3 DEF CreateBuilder, VpnTypes
    <3> QED  BY <3>2, <3>3
  <2>6. CASE Finally(t)
    BY <2>6, FinallyDoes
  <2> QED  BY <1>9, <2>3, <2>4, <2>5, <2>6 DEF ThreadStep
<1> QED
  BY VpnSteps, <1>2, <1>3, <1>4, <1>5, <1>6, <1>7, <1>8, <1>9

LEMMA CommandTypes == VpnTypes /\ [Next]_vars => toService' \in Seq(Commands)
<1> SUFFICES ASSUME VpnTypes, [Next]_vars PROVE toService' \in Seq(Commands)
  OBVIOUS
<1>1. CASE UNCHANGED toService
  BY <1>1 DEF VpnTypes
<1>2. CASE AppStep \/ OnDestroy \/ OnRevoke \/ InitVpnModel \/ StartAnswered \/ UNCHANGED vars
  BY <1>1, <1>2, AppLeaves DEF OnDestroy, OnRevoke, InitVpnModel, StartAnswered, vars, serviceSide
<1>3. ASSUME NEW s \in Switchers, SwitchLanternOff(s) \/ StartVpnService(s)
      PROVE  toService' \in Seq(Commands)
  BY <1>1, <1>3 DEF SwitchLanternOff, StartVpnService, VpnTypes, Commands
<1>4. CASE OnReceive
  BY <1>4 DEF OnReceive, VpnTypes, Commands
<1>5. CASE OnStartCommand
  BY <1>5 DEF OnStartCommand, VpnTypes, Commands
<1>6. CASE ProcessDies
  BY <1>6 DEF ProcessDies
<1>7. ASSUME NEW t \in Threads, ThreadStep(t) PROVE UNCHANGED toService
  BY <1>7 DEF ThreadStep, CheckStarted, GetOrInitProvider, CreateBuilder, Tun2Socks,
              Tun2SocksReturns, DeviceFails, Finally
<1> QED
  BY VpnSteps, <1>1, <1>2, <1>3, <1>4, <1>5, <1>6, <1>7

LEMMA VpnTypesStep == VpnTypes /\ [Next]_vars => VpnTypes'
  BY SwitchTypes, OtherTypes, ThreadTypes, CommandTypes DEF VpnTypes

-----------------------------------------------------------------------------
(***************************************************************************)
(* An instance of the service exists while a thread of its own runs or an  *)
(* interface of its process is there; who does not exist has no provider.  *)
(***************************************************************************)
InstanceOK ==
  /\ \A t \in Threads : Running(t) /\ ~thread[t].dead => service.exists
  /\ \A t \in Threads : HasInterface(t) /\ ~thread[t].cut => service.exists
  /\ process = "down" => ~service.exists /\ \A t \in Threads : ~Running(t)
  /\ ~service.exists => service.provider = 0

LEMMA ProcessStays ==
  [Next]_vars => process' = process \/ InitVpnModel \/ StartAnswered \/ ProcessDies
<1> SUFFICES ASSUME [Next]_vars, ~InitVpnModel, ~StartAnswered, ~ProcessDies
             PROVE  process' = process
  OBVIOUS
<1>1. CASE AppStep
  BY <1>1, AppLeaves
<1>2. ASSUME NEW s \in Switchers, SwitchLanternOff(s) \/ StartVpnService(s)
      PROVE  process' = process
  BY <1>2 DEF SwitchLanternOff, StartVpnService, rest
<1>3. CASE OnReceive \/ OnStartCommand \/ OnDestroy \/ OnRevoke \/ UNCHANGED vars
  BY <1>3 DEF OnReceive, OnStartCommand, OnDestroy, OnRevoke, vars, rest
<1>4. ASSUME NEW t \in Threads, ThreadStep(t) PROVE process' = process
  BY <1>4 DEF ThreadStep, CheckStarted, GetOrInitProvider, CreateBuilder, Tun2Socks,
              Tun2SocksReturns, DeviceFails, Finally, rest
<1> QED  BY VpnSteps, <1>1, <1>2, <1>3, <1>4

LEMMA InstanceStep == VpnTypes /\ InstanceOK /\ [Next]_vars => InstanceOK'
<1> SUFFICES ASSUME VpnTypes, InstanceOK, [Next]_vars PROVE InstanceOK'
  OBVIOUS
<1> USE DEF InstanceOK, Running, HasInterface
<1>1. CASE UNCHANGED <<thread, service, process>>
  BY <1>1
<1>2. CASE AppStep \/ OnReceive \/ UNCHANGED vars
  BY <1>1, <1>2, AppLeaves DEF OnReceive, vars, serviceSide, rest
<1>3. ASSUME NEW s \in Switchers, SwitchLanternOff(s) \/ StartVpnService(s) PROVE InstanceOK'
  <2>1. UNCHANGED <<thread, process>> /\ service'.exists = service.exists
        /\ service'.provider = service.provider
    BY <1>3 DEF SwitchLanternOff, StartVpnService, VpnTypes, Service, rest
  <2> QED  BY <2>1
<1>4. CASE OnStartCommand
  <2>1. Up /\ process' = process
    BY <1>4 DEF OnStartCommand, rest
  <2>2. CASE Head(toService) = "disconnect"
    <3>1. service'.exists
      BY <1>4, <2>2, DisconnectDoes
    <3> QED  BY <2>1, <3>1 DEF Up
  <2>3. CASE Head(toService) # "disconnect"
    <3>1. service'.exists
      BY <1>4, <2>3, ConnectDoes
    <3> QED  BY <2>1, <3>1 DEF Up
  <2> QED  BY <2>2, <2>3
<1>5. CASE OnDestroy
  <2>1. \A t \in Threads : ~HasInterface(t) \/ thread[t].cut
    BY <1>5 DEF OnDestroy
  <2>2. process' = process /\ ~service'.exists /\ service'.provider = 0
    BY <1>5, DestroyDoes DEF OnDestroy, rest, NoInstance
  <2> HIDE DEF Running, HasInterface
  <2>3. ASSUME NEW t \in Threads
        PROVE  /\ Running(t)' => Running(t) /\ thread'[t].dead
               /\ ~HasInterface(t)' \/ thread'[t].cut
    BY <1>5, <2>1, DestroyDoes DEF Running, HasInterface
  <2> QED  BY <2>2, <2>3
<1>6. CASE OnRevoke
  <2>1. service'.exists /\ process' = process /\ process # "down"
    BY <1>6, RevokeDoes DEF OnRevoke, rest
  <2> QED  BY <2>1
<1>7. CASE InitVpnModel
  <2>1. /\ process = "down" /\ process' = "starting" /\ UNCHANGED thread
        /\ service' = [service EXCEPT !.exists = service.started]
    BY <1>7 DEF InitVpnModel, StartProcess
  <2>2. service'.provider = service.provider
    BY <2>1 DEF VpnTypes, Service
  <2> QED  BY <2>1, <2>2
<1>8. CASE StartAnswered
  BY <1>8 DEF StartAnswered, Answer, serviceSide
<1>9. CASE ProcessDies
  <2>1. service' = [NoInstance EXCEPT !.started = service.started]
        /\ thread' = [t \in Threads |-> NoRun]
    BY <1>9 DEF ProcessDies
  <2>2. ~service'.exists /\ service'.provider = 0 /\ \A t \in Threads : thread'[t].at = "idle"
    BY <2>1 DEF NoInstance, NoRun
  <2> QED  BY <2>2
<1>10. ASSUME NEW t \in Threads, ThreadStep(t) PROVE InstanceOK'
  <2>1. process' = process
    BY <1>10 DEF ThreadStep, CheckStarted, GetOrInitProvider, CreateBuilder, Tun2Socks,
                 Tun2SocksReturns, DeviceFails, Finally, rest
  <2>2. Running(t)
    BY <1>10 DEF ThreadStep, CheckStarted, GetOrInitProvider, CreateBuilder, Tun2Socks,
                 Tun2SocksReturns, DeviceFails, Finally
  <2>3. process # "down"
    BY <2>2
  <2>4. ASSUME NEW a \in RunAt, At(t, a), UNCHANGED service,
               a \in {"device", "serving"} => HasInterface(t)
        PROVE  InstanceOK'
    <3>1. /\ thread'[t] = [thread[t] EXCEPT !.at = a]
          /\ \A u \in Threads \ {t} : thread'[u] = thread[u]
      BY <2>4, ThreadMoves
    <3>2. thread[t] \in Thread
      BY DEF VpnTypes
    <3>3. thread'[t].at = a /\ thread'[t].dead = thread[t].dead /\ thread'[t].cut = thread[t].cut
      BY <3>1, <3>2 DEF Thread
    <3> QED  BY <2>1, <2>2, <2>3, <2>4, <3>1, <3>3
  <2>5. {"provider", "finally", "serving"} \subseteq RunAt
    BY DEF RunAt
  <2>6. CASE CheckStarted(t) \/ Tun2SocksReturns(t) \/ DeviceFails(t) \/ Tun2Socks(t)
    BY <2>4, <2>5, <2>6 DEF CheckStarted, Tun2SocksReturns, DeviceFails, Tun2Socks
  <2>7. CASE GetOrInitProvider(t)
    <3>1. ~service.exists => thread[t].dead
      BY <2>2
    <3> QED  BY <2>1, <2>2, <2>3, <2>7, <3>1, ProviderDoes
  <2>8. CASE CreateBuilder(t)
    <3>1. CASE granted.consent
      <4>1. service'.exists
        BY <2>8, <3>1, BuilderDoes
      <4> QED  BY <2>1, <2>3, <4>1
    <3>2. CASE ~granted.consent
      BY <2>4, <2>5, <2>8, <3>2 DEF CreateBuilder
    <3> QED  BY <3>1, <3>2
  <2>9. CASE Finally(t)
    <3>1. ~service.exists => thread[t].dead
      BY <2>2
    <3>2. /\ thread'[t] = NoRun
          /\ \A u \in Threads \ {t} : /\ thread'[u].at = thread[u].at
                                      /\ thread'[u].dead = thread[u].dead
                                      /\ thread'[u].cut = thread[u].cut
      BY <2>9, FinallyDoes, ClosedIs
    <3>3. thread'[t].at = "idle"
      BY <3>2 DEF NoRun
    <3>4. /\ service'.exists = service.exists
          /\ thread[t].dead => service'.provider = service.provider
      BY <2>9, FinallyDoes
    <3> QED  BY <2>1, <2>3, <3>1, <3>2, <3>3, <3>4
  <2> QED  BY <1>10, <2>6, <2>7, <2>8, <2>9 DEF ThreadStep
<1> QED
  BY VpnSteps, <1>2, <1>3, <1>4, <1>5, <1>6, <1>7, <1>8, <1>9, <1>10

LEMMA MishapsGrow == [Next]_vars => mishaps \subseteq mishaps'
<1> SUFFICES ASSUME [Next]_vars PROVE mishaps \subseteq mishaps'
  OBVIOUS
<1> USE DEF Mishap
<1>1. CASE AppStep
  BY <1>1 DEF AppStep, Toggle, ConnectingDelay, OnResume, CheckVPNStatus, SetSplitTunneling,
         UpdateAppData, OnRequestPermissionsResult, OnActivityResult, SwitchVPN,
         SwitchLanternOn, UpdateStatus
<1>2. ASSUME NEW s \in Switchers, SwitchLanternOff(s) \/ StartVpnService(s)
      PROVE  mishaps \subseteq mishaps'
  BY <1>2 DEF SwitchLanternOff, StartVpnService
<1>3. CASE OnReceive \/ OnStartCommand \/ OnDestroy \/ OnRevoke \/ InitVpnModel \/ StartAnswered
           \/ ProcessDies \/ UNCHANGED vars
  BY <1>3 DEF OnReceive, OnStartCommand, OnDestroy, OnRevoke, InitVpnModel, StartAnswered,
              ProcessDies, vars
<1>4. ASSUME NEW t \in Threads, ThreadStep(t) PROVE mishaps \subseteq mishaps'
  BY <1>4 DEF ThreadStep, CheckStarted, GetOrInitProvider, CreateBuilder, Tun2Socks,
              Tun2SocksReturns, DeviceFails, Finally
<1> QED  BY VpnSteps, <1>1, <1>2, <1>3, <1>4

(***************************************************************************)
(* As long as no service that existed was connected: the provider of the   *)
(* instance has a setting no older than that at the start of its threads,  *)
(* and so has every thread that has left it or outlived its instance.      *)
(***************************************************************************)
SplitOf(t) ==
  /\ thread[t].least <= split
  /\ service.provider = 0 \/ thread[t].dead \/ service.provider >= thread[t].least
  /\ thread[t].split = 0 \/ thread[t].split >= thread[t].least
  /\ thread[t].at \in {"establish", "device", "serving"}
     \/ (thread[t].dead /\ thread[t].at \in {"run", "provider"})
       => thread[t].split >= thread[t].least

SplitOK == "kept" \notin mishaps => \A t \in Threads : SplitOf(t)

LEMMA ProviderIsNew ==
  ASSUME VpnTypes, NEW t \in Threads, SplitOf(t), ~thread[t].dead
  PROVE  Provider >= thread[t].least
  BY DEF VpnTypes, Service, Thread, SplitOf, Provider, AppsAllowedAccess

LEMMA SplitIsLater == [Next]_vars /\ VpnTypes => split' >= split
<1> SUFFICES ASSUME [Next]_vars, VpnTypes PROVE split' = split \/ split' = split + 1
  BY DEF VpnTypes
<1>1. CASE AppStep
  BY <1>1 DEF AppStep, Toggle, ConnectingDelay, OnResume, CheckVPNStatus, SetSplitTunneling,
         UpdateAppData, OnRequestPermissionsResult, OnActivityResult, SwitchVPN,
         SwitchLanternOn, UpdateStatus
<1>2. ASSUME NEW s \in Switchers, SwitchLanternOff(s) \/ StartVpnService(s) PROVE split' = split
  BY <1>2 DEF SwitchLanternOff, StartVpnService
<1>3. CASE OnReceive \/ OnStartCommand \/ OnDestroy \/ OnRevoke \/ InitVpnModel \/ StartAnswered
           \/ ProcessDies \/ UNCHANGED vars
  BY <1>3 DEF OnReceive, OnStartCommand, OnDestroy, OnRevoke, InitVpnModel, StartAnswered,
              ProcessDies, vars, appSide
<1>4. ASSUME NEW t \in Threads, ThreadStep(t) PROVE split' = split
  BY <1>4 DEF ThreadStep, CheckStarted, GetOrInitProvider, CreateBuilder, Tun2Socks,
              Tun2SocksReturns, DeviceFails, Finally, appSide
<1> QED  BY VpnSteps, <1>1, <1>2, <1>3, <1>4

\* A thread that moves on without a new setting.
LEMMA SplitStays ==
  ASSUME VpnTypes, VpnTypes', NEW t \in Threads, SplitOf(t), split' >= split,
         thread'[t].least = thread[t].least, thread'[t].split = thread[t].split,
         thread[t].dead => thread'[t].dead,
         service'.provider \in {service.provider, 0, Provider},
         thread'[t].at \in {"establish", "device", "serving"}
           \/ (thread'[t].dead /\ thread'[t].at \in {"run", "provider"})
           => thread[t].at \in {"establish", "device", "serving"}
              \/ (thread[t].dead /\ thread[t].at \in {"run", "provider"})
  PROVE  SplitOf(t)'
<1>1. /\ thread[t].least \in Nat /\ thread[t].split \in Nat /\ split \in Nat /\ split' \in Nat
      /\ service.provider \in Nat /\ Provider \in Nat
  BY ProviderIsNat DEF VpnTypes, Thread, Service
<1>2. thread[t].dead \/ Provider >= thread[t].least
  BY ProviderIsNew
<1>3. thread'[t].least <= split'
  BY <1>1 DEF SplitOf
<1>4. service'.provider = 0 \/ thread'[t].dead \/ service'.provider >= thread'[t].least
  BY <1>1, <1>2 DEF SplitOf
<1> QED  BY <1>3, <1>4 DEF SplitOf

LEMMA SplitStep ==
  VpnTypes /\ InstanceOK /\ SplitOK /\ [Next]_vars => SplitOK'
<1> SUFFICES ASSUME VpnTypes, InstanceOK, SplitOK, [Next]_vars, "kept" \notin mishaps'
             PROVE  \A t \in Threads : SplitOf(t)'
  BY DEF SplitOK
<1>0. /\ \A t \in Threads : SplitOf(t)
      /\ split' >= split /\ VpnTypes'
  BY MishapsGrow, SplitIsLater, VpnTypesStep DEF SplitOK
<1>1. CASE thread' = thread /\ service'.provider = service.provider
  BY <1>0, <1>1, SplitStays
<1>2. CASE AppStep \/ OnReceive \/ UNCHANGED vars \/ StartAnswered
  BY <1>1, <1>2, AppLeaves DEF OnReceive, vars, serviceSide, StartAnswered
<1>3. ASSUME NEW s \in Switchers, SwitchLanternOff(s) \/ StartVpnService(s)
      PROVE  \A t \in Threads : SplitOf(t)'
  <2>1. thread' = thread /\ service'.provider = service.provider
    BY <1>3 DEF SwitchLanternOff, StartVpnService, VpnTypes, Service
  <2> QED  BY <2>1, <1>1
<1>4. CASE InitVpnModel
  <2>1. thread' = thread /\ service'.provider = service.provider
    BY <1>4 DEF InitVpnModel, VpnTypes, Service
  <2> QED  BY <2>1, <1>1
<1>5. CASE ProcessDies
  <2>1. service'.provider = 0 /\ thread' = [t \in Threads |-> NoRun]
    BY <1>5 DEF ProcessDies, NoInstance
  <2> QED  BY <2>1, <1>0 DEF SplitOf, NoRun, VpnTypes
<1>6. CASE OnStartCommand
  <2>1. CASE Head(toService) = "disconnect"
    <3>1. thread' = Closed /\ service'.provider = Provider
      BY <1>6, <2>1, DisconnectDoes
    <3> SUFFICES ASSUME NEW t \in Threads PROVE SplitOf(t)'
      OBVIOUS
    <3>2. /\ thread'[t].at = thread[t].at /\ thread'[t].least = thread[t].least
          /\ thread'[t].split = thread[t].split /\ thread'[t].dead = thread[t].dead
      BY <3>1, ClosedIs
    <3> QED  BY <1>0, <3>1, <3>2, SplitStays
  <2>2. CASE Head(toService) # "disconnect"
    <3>1. PICK t \in Threads :
            /\ thread'[t] = [NoRun EXCEPT !.at = "run", !.least = split]
            /\ \A u \in Threads \ {t} : thread'[u] = thread[u]
            /\ service'.provider = service.provider
            /\ service.exists => "kept" \in mishaps'
      BY <1>6, <2>2, ConnectDoes
    <3>2. service'.provider = 0
      BY <3>1 DEF InstanceOK
    <3>3. /\ thread'[t].at = "run" /\ thread'[t].least = split /\ thread'[t].split = 0
          /\ thread'[t].dead = FALSE
      BY <3>1 DEF NoRun
    <3>4. SplitOf(t)'
      BY <1>0, <3>2, <3>3 DEF SplitOf
    <3>5. \A u \in Threads \ {t} : SplitOf(u)'
      BY <1>0, <3>1, SplitStays
    <3> QED  BY <3>4, <3>5
  <2> QED  BY <2>1, <2>2
<1>7. CASE OnDestroy
  <2> SUFFICES ASSUME NEW t \in Threads PROVE SplitOf(t)'
    OBVIOUS
  <2>1. /\ thread'[t].at = thread[t].at /\ thread'[t].least = thread[t].least
        /\ Running(t) => thread'[t].dead
        /\ thread'[t].split = IF ~Running(t) \/ thread[t].dead \/ thread[t].split # 0
                              THEN thread[t].split ELSE Provider
        /\ service'.provider = 0
    BY <1>7, DestroyDoes DEF NoInstance
  <2>2. SplitOf(t) /\ (thread[t].dead \/ Provider >= thread[t].least)
    BY <1>0, ProviderIsNew
  <2>3. /\ thread[t].least \in Nat /\ thread[t].split \in Nat /\ split \in Nat /\ split' \in Nat
        /\ Provider \in Nat
    BY <1>0, ProviderIsNat DEF VpnTypes, Thread
  <2>4. thread'[t].least <= split'
    BY <1>0, <2>1, <2>2, <2>3 DEF SplitOf
  <2>5. thread'[t].split = 0 \/ thread'[t].split >= thread'[t].least
    BY <2>1, <2>2, <2>3 DEF SplitOf
  <2>6. ASSUME thread'[t].at \in {"establish", "device", "serving", "run", "provider"}
        PROVE  thread'[t].split >= thread'[t].least
    BY <2>1, <2>2, <2>3, <2>6 DEF SplitOf, Running
  <2> QED  BY <2>1, <2>4, <2>5, <2>6 DEF SplitOf
<1>8. CASE OnRevoke
  <2> SUFFICES ASSUME NEW t \in Threads PROVE SplitOf(t)'
    OBVIOUS
  <2>1. Closed[t] \in Thread
    BY ClosedIs
  <2>2. thread'[t] = Closed[t] \/ thread'[t] = [Closed[t] EXCEPT !.cut = TRUE]
    BY <1>8, RevokeDoes
  <2>3. /\ thread'[t].at = Closed[t].at /\ thread'[t].least = Closed[t].least
        /\ thread'[t].split = Closed[t].split /\ thread'[t].dead = Closed[t].dead
    BY <2>1, <2>2 DEF Thread
  <2>4. /\ thread'[t].at = thread[t].at /\ thread'[t].least = thread[t].least
        /\ thread'[t].split = thread[t].split /\ thread'[t].dead = thread[t].dead
    BY <2>3, ClosedIs
  <2>5. service'.provider = Provider
    BY <1>8, RevokeDoes
  <2> QED  BY <1>0, <2>4, <2>5, SplitStays
<1>9. ASSUME NEW t \in Threads, ThreadStep(t) PROVE \A u \in Threads : SplitOf(u)'
  <2>1. ASSUME NEW a \in RunAt, At(t, a), UNCHANGED service,
               a \in {"device", "serving"} => HasInterface(t) \/ thread[t].at = "establish",
               a # "establish", a = "provider" => thread[t].at = "run", a # "run"
        PROVE  \A u \in Threads : SplitOf(u)'
    <3>1. /\ thread'[t] = [thread[t] EXCEPT !.at = a]
          /\ \A u \in Threads \ {t} : thread'[u] = thread[u]
      BY <2>1, ThreadMoves
    <3>2. thread[t] \in Thread
      BY DEF VpnTypes
    <3>3. /\ thread'[t].at = a /\ thread'[t].dead = thread[t].dead
          /\ thread'[t].least = thread[t].least /\ thread'[t].split = thread[t].split
      BY <3>1, <3>2 DEF Thread
    <3>4. SplitOf(t)'
      BY <1>0, <2>1, <3>3, SplitStays DEF HasInterface
    <3>5. \A u \in Threads \ {t} : SplitOf(u)'
      BY <1>0, <2>1, <3>1, SplitStays
    <3> QED  BY <3>4, <3>5
  <2>2. {"provider", "finally", "serving"} \subseteq RunAt
    BY DEF RunAt
  <2>3. CASE CheckStarted(t) \/ Tun2SocksReturns(t) \/ DeviceFails(t) \/ Tun2Socks(t)
    BY <2>1, <2>2, <2>3 DEF CheckStarted, Tun2SocksReturns, DeviceFails, Tun2Socks, HasInterface
  <2>4. CASE GetOrInitProvider(t)
    <3>1. /\ \A u \in Threads \ {t} : thread'[u] = thread[u]
          /\ service'.provider \in {service.provider, Provider}
      BY <2>4, ProviderDoes
    <3>2. \A u \in Threads \ {t} : SplitOf(u)'
      BY <1>0, <3>1, SplitStays
    <3>3. CASE thread[t].dead
      <4>1. /\ thread[t].at = "provider" /\ thread'[t].at = "establish"
            /\ thread'[t].least = thread[t].least /\ thread'[t].dead = thread[t].dead
            /\ thread'[t].split = thread[t].split
        BY <2>4, <3>3, ProviderDoes
      <4> QED  BY <1>0, <3>1, <3>2, <3>3, <4>1, SplitStays
    <3>4. CASE ~thread[t].dead
      <4>1. /\ thread'[t].least = thread[t].least /\ thread'[t].split = Provider
            /\ service'.provider = Provider
        BY <2>4, <3>4, ProviderDoes
      <4>2. Provider >= thread[t].least /\ thread[t].least <= split
        BY <1>0, <3>4, ProviderIsNew DEF SplitOf
      <4>3. thread[t].least <= split'
        BY <1>0, <4>2 DEF VpnTypes, Thread
      <4> QED  BY <3>2, <4>1, <4>2, <4>3 DEF SplitOf
    <3> QED  BY <3>3, <3>4
  <2>5. CASE CreateBuilder(t)
    <3>1. CASE granted.consent
      <4>1. service'.provider = service.provider
        BY <2>5, <3>1, BuilderDoes
      <4>2. thread[t] \in Thread /\ \A u \in Threads : thread[u] \in Thread
        BY DEF VpnTypes
      <4>3. /\ thread[t].at = "establish" /\ thread'[t].at = "device"
            /\ thread'[t].dead = thread[t].dead
            /\ thread'[t].least = thread[t].least /\ thread'[t].split = thread[t].split
        <5>1. thread[t].at = "establish" /\ thread'[t] = [thread[t] EXCEPT !.at = "device"]
          BY <2>5, <3>1, BuilderDoes
        <5> QED  BY <4>2, <5>1 DEF Thread
      <4>4. ASSUME NEW u \in Threads \ {t}
            PROVE  /\ thread'[u].at = thread[u].at /\ thread'[u].dead = thread[u].dead
                   /\ thread'[u].least = thread[u].least /\ thread'[u].split = thread[u].split
        <5>1. thread'[u] = thread[u] \/ thread'[u] = [thread[u] EXCEPT !.cut = TRUE]
          BY <2>5, <3>1, BuilderDoes
        <5> QED  BY <4>2, <5>1 DEF Thread
      <4>5. SplitOf(t)'
        BY <1>0, <4>1, <4>3, SplitStays
      <4> QED  BY <1>0, <4>1, <4>4, <4>5, SplitStays
    <3>2. CASE ~granted.consent
      BY <2>1, <2>2, <2>5, <3>2 DEF CreateBuilder
    <3> QED  BY <3>1, <3>2
  <2>6. CASE Finally(t)
    <3>1. /\ \A u \in Threads \ {t} : thread'[u] = Closed[u]
          /\ thread'[t] = NoRun /\ service'.provider \in {service.provider, Provider}
      BY <2>6, FinallyDoes
    <3>2. SplitOf(t)'
      BY <1>0, <3>1 DEF SplitOf, NoRun, VpnTypes, Service
    <3>3. \A u \in Threads \ {t} : SplitOf(u)'
      BY <1>0, <3>1, ClosedIs, SplitStays
    <3> QED  BY <3>2, <3>3
  <2> QED  BY <1>9, <2>3, <2>4, <2>5, <2>6 DEF ThreadStep
<1> QED
  BY VpnSteps, <1>2, <1>3, <1>4, <1>5, <1>6, <1>7, <1>8, <1>9

-----------------------------------------------------------------------------
(* The commands on their way.                                              *)

Has(s, x) == \E i \in 1..Len(s) : s[i] = x

\* No connect but as the first one.
First(s) == \A i \in 2..Len(s) : s[i] # "connect"

Connecting == Has(toService, "connect")
Disconnecting == Has(toService, "disconnect")

LEMMA HasNone == \A x : ~Has(<< >>, x)
  BY DEF Has

LEMMA HasAppend ==
  ASSUME NEW S, NEW s \in Seq(S), NEW x \in S, NEW y
  PROVE  Has(Append(s, x), y) <=> Has(s, y) \/ y = x
<1>1. /\ Len(Append(s, x)) = Len(s) + 1 /\ Append(s, x)[Len(s) + 1] = x
      /\ \A i \in 1..Len(s) : Append(s, x)[i] = s[i]
      /\ Len(s) \in Nat
  OBVIOUS
<1> DEFINE a == Append(s, x)
           n == Len(s)
<1>2. Len(a) = n + 1 /\ a[n + 1] = x /\ (\A i \in 1..n : a[i] = s[i]) /\ n \in Nat
  BY <1>1
<1> HIDE DEF a, n
<1>3. (\E i \in 1..Len(a) : a[i] = y) <=> (\E i \in 1..n : s[i] = y) \/ y = x
  BY <1>2
<1> QED  BY <1>3 DEF Has, a, n

LEMMA HasTail ==
  ASSUME NEW S, NEW s \in Seq(S), s # << >>, NEW y
  PROVE  Has(s, y) <=> Head(s) = y \/ Has(Tail(s), y)
<1> DEFINE b == Tail(s)
           n == Len(s)
<1>1. /\ n \in Nat /\ n # 0 /\ Len(b) = n - 1 /\ Head(s) = s[1]
      /\ \A i \in 1..Len(b) : b[i] = s[i + 1]
  OBVIOUS
<1> HIDE DEF b, n
<1>2. ASSUME NEW i \in 1..n, s[i] = y PROVE Head(s) = y \/ \E j \in 1..Len(b) : b[j] = y
  <2>1. CASE i = 1
    BY <1>1, <1>2, <2>1
  <2>2. CASE i # 1
    <3>1. i - 1 \in 1..Len(b) /\ b[i - 1] = s[i - 1 + 1] /\ i - 1 + 1 = i
      BY <1>1, <2>2
    <3> QED  BY <1>2, <3>1
  <2> QED  BY <2>1, <2>2
<1>3. ASSUME NEW j \in 1..Len(b), b[j] = y PROVE \E i \in 1..n : s[i] = y
  <2>1. j + 1 \in 1..n /\ s[j + 1] = y
    BY <1>1, <1>3
  <2> QED  BY <2>1
<1>4. Head(s) = y => \E i \in 1..n : s[i] = y
  <2>1. 1 \in 1..n
    BY <1>1
  <2> QED  BY <1>1, <2>1
<1> QED  BY <1>2, <1>3, <1>4 DEF Has, b, n

LEMMA FirstIs ==
  ASSUME NEW s \in Seq(Commands)
  PROVE  /\ First(<< >>)
         /\ First(s) => First(Append(s, "disconnect"))
         /\ s = << >> => First(Append(s, "connect"))
         /\ First(s) /\ s # << >> => First(Tail(s)) /\ ~Has(Tail(s), "connect")
<1>1. First(<< >>)
  BY DEF First
<1>2. ASSUME First(s) PROVE First(Append(s, "disconnect"))
  <2> DEFINE a == Append(s, "disconnect")
             n == Len(s)
  <2>1. Len(a) = n + 1 /\ a[n + 1] = "disconnect" /\ (\A i \in 1..n : a[i] = s[i]) /\ n \in Nat
    BY DEF Commands
  <2>2. \A i \in 2..n : s[i] # "connect"
    BY <1>2 DEF First
  <2> HIDE DEF a, n
  <2>3. \A i \in 2..Len(a) : a[i] # "connect"
    BY <2>1, <2>2
  <2> QED  BY <2>3 DEF First, a
<1>3. ASSUME s = << >> PROVE First(Append(s, "connect"))
  <2>1. Len(Append(s, "connect")) = 1
    BY <1>3
  <2> QED  BY <2>1 DEF First
<1>4. ASSUME First(s), s # << >> PROVE First(Tail(s)) /\ ~Has(Tail(s), "connect")
  <2> DEFINE b == Tail(s)
             n == Len(s)
  <2>1. /\ n \in Nat /\ n # 0 /\ Len(b) = n - 1
        /\ \A i \in 1..Len(b) : b[i] = s[i + 1]
    BY <1>4
  <2>2. \A i \in 2..n : s[i] # "connect"
    BY <1>4 DEF First
  <2> HIDE DEF b, n
  <2>3. \A i \in 1..Len(b) : b[i] # "connect"
    <3>1. \A i \in 1..Len(b) : i + 1 \in 2..n
      BY <2>1
    <3> QED  BY <2>1, <2>2, <3>1
  <2> QED  BY <2>3 DEF First, Has, b
<1> QED  BY <1>1, <1>2, <1>3, <1>4

-----------------------------------------------------------------------------
(* What a step of the whole may do to each part.                           *)

\* Who sends the broadcast switches off, who asks or starts switches on.
SwitchOK ==
  \A s \in Switchers :
    /\ switch[s].at = "off" => ~switch[s].on
    /\ switch[s].at \in {"on", "start"} => switch[s].on

Before == {"idle", "delay", "check", "save"}

LEMMA SwitchGoes ==
  ASSUME VpnTypes, SwitchOK, [Next]_vars, NEW s \in Switchers
  PROVE  \/ switch'[s] = switch[s]
         \/ switch'[s].at \in Before
         \/ /\ SwitchVPN(s) /\ switch'[s].at = IF switch'[s].on THEN "on" ELSE "off"
         \/ /\ OnRequestPermissionsResult /\ s = "switch"
            /\ switch'[s].at = "on" /\ switch'[s].on /\ mishaps' = mishaps \cup Crossed(s)
         \/ /\ OnActivityResult /\ s = "switch"
            /\ switch'[s].at = "start" /\ switch'[s].on /\ mishaps' = mishaps \cup Crossed(s)
            /\ granted'.consent /\ status' = "connected"
         \/ /\ SwitchLanternOn(s) /\ switch[s].at = "on" /\ switch'[s].at = "status"
            /\ switch'[s].on /\ granted.consent /\ granted' = granted
         \/ /\ SwitchLanternOff(s) /\ switch[s].at = "off" /\ switch'[s].at = "status"
            /\ ~switch'[s].on
         \/ /\ UpdateStatus(s) /\ switch[s].at = "status" /\ switch[s].on
            /\ switch'[s].at = "start" /\ switch'[s].on /\ status' = "connected"
            /\ granted' = granted
<1>0. "switch" \in Switchers /\ "resume" \in Switchers
      /\ {"delay", "check", "save", "on", "off", "status", "start", "idle"} = SwitchAt
  BY DEF Switchers, SwitchAt
<1>1. CASE switch' = switch
  BY <1>1
<1>2. CASE Toggle \/ OnResume
  <2>1. PICK r \in Switchers, v \in [at : Before, on : BOOLEAN] :
               switch' = [switch EXCEPT ![r] = v]
    <3>1. CASE Toggle
      <4>1. (status = "disconnected") \in BOOLEAN
        OBVIOUS
      <4>2. [at |-> "delay", on |-> status = "disconnected"] \in [at : Before, on : BOOLEAN]
        BY <4>1 DEF Before
      <4> QED  BY <1>0, <3>1, <4>2 DEF Toggle
    <3>2. CASE OnResume
      <4>1. [at |-> "check", on |-> service.started] \in [at : Before, on : BOOLEAN]
        BY DEF Before, VpnTypes, Service
      <4> QED  BY <1>0, <3>2, <4>1 DEF OnResume
    <3> QED  BY <1>2, <3>1, <3>2
  <2> QED  BY <2>1 DEF VpnTypes
<1>3. ASSUME NEW r \in Switchers, NEW a \in Before, Goto(r, a)
      PROVE  switch'[s] = switch[s] \/ switch'[s].at \in Before
  BY <1>0, <1>3, SwitchMoves DEF Before
<1>4. ASSUME NEW r \in Switchers, SwitchDone(r)
      PROVE  switch'[s] = switch[s] \/ switch'[s].at \in Before
  BY <1>4, SwitchEnds DEF Before
<1>5. CASE ConnectingDelay \/ CheckVPNStatus
  BY <1>0, <1>3, <1>4, <1>5 DEF ConnectingDelay, CheckVPNStatus, Before
<1>6. CASE OnRequestPermissionsResult
  <2>1. CASE switch' = [switch EXCEPT !["switch"] = [at |-> "on", on |-> TRUE]]
             /\ Mishap(Crossed("switch"))
    BY <1>0, <1>6, <2>1 DEF VpnTypes, Mishap
  <2> QED  BY <1>1, <1>6, <2>1 DEF OnRequestPermissionsResult
<1>7. CASE OnActivityResult
  <2>1. CASE /\ granted' = [granted EXCEPT !.consent = TRUE]
             /\ switch' = [switch EXCEPT !["switch"] = [at |-> "start", on |-> TRUE]]
             /\ Mishap(Crossed("switch")) /\ status' = "connected"
    <3>1. granted'.consent
      BY <2>1 DEF VpnTypes, Granted
    <3> QED  BY <1>0, <1>7, <2>1, <3>1 DEF VpnTypes, Mishap
  <2> QED  BY <1>1, <1>7, <2>1 DEF OnActivityResult
<1>8. ASSUME NEW r \in Switchers, SwitchVPN(r)
      PROVE  \/ switch'[s] = switch[s]
             \/ SwitchVPN(s) /\ switch'[s].at = IF switch'[s].on THEN "on" ELSE "off"
  <2>1. Goto(r, IF switch[r].on THEN "on" ELSE "off")
    BY <1>8 DEF SwitchVPN
  <2>2. (IF switch[r].on THEN "on" ELSE "off") \in SwitchAt
    BY <1>0
  <2>3. /\ switch'[r].at = (IF switch[r].on THEN "on" ELSE "off") /\ switch'[r].on = switch[r].on
        /\ \A q \in Switchers \ {r} : switch'[q] = switch[q]
    BY <2>1, <2>2, SwitchMoves
  <2> QED  BY <1>8, <2>3
<1>9. ASSUME NEW r \in Switchers, SwitchLanternOn(r)
      PROVE  \/ switch'[s] = switch[s] \/ switch'[s].at \in Before
             \/ /\ SwitchLanternOn(s) /\ switch[s].at = "on" /\ switch'[s].at = "status"
                /\ switch'[s].on /\ granted.consent /\ granted' = granted
  <2>1. CASE SwitchDone(r)
    BY <1>4, <2>1
  <2>2. CASE Goto(r, "status") /\ granted.consent
    <3>1. switch[r].at = "on" /\ switch[r].on /\ granted' = granted
      BY <1>9 DEF SwitchLanternOn, SwitchOK
    <3> QED  BY <1>0, <1>9, <2>2, <3>1, SwitchMoves
  <2> QED  BY <1>9, <2>1, <2>2 DEF SwitchLanternOn
<1>10. ASSUME NEW r \in Switchers, SwitchLanternOff(r)
      PROVE  \/ switch'[s] = switch[s]
             \/ /\ SwitchLanternOff(s) /\ switch[s].at = "off" /\ switch'[s].at = "status"
                /\ ~switch'[s].on
  <2>1. Goto(r, "status") /\ switch[r].at = "off" /\ ~switch[r].on
    BY <1>10 DEF SwitchLanternOff, SwitchOK
  <2> QED  BY <1>0, <1>10, <2>1, SwitchMoves
<1>11. ASSUME NEW r \in Switchers, UpdateStatus(r)
      PROVE  \/ switch'[s] = switch[s] \/ switch'[s].at \in Before
             \/ /\ UpdateStatus(s) /\ switch[s].at = "status" /\ switch[s].on
                /\ switch'[s].at = "start" /\ switch'[s].on /\ status' = "connected"
                /\ granted' = granted
  <2>1. CASE switch[r].on
    <3>1. Goto(r, "start") /\ switch[r].at = "status" /\ status' = "connected"
          /\ granted' = granted
      BY <1>11, <2>1 DEF UpdateStatus
    <3> QED  BY <1>0, <1>11, <2>1, <3>1, SwitchMoves
  <2>2. CASE ~switch[r].on
    BY <1>4, <1>11, <2>2 DEF UpdateStatus
  <2> QED  BY <2>1, <2>2
<1>12. ASSUME NEW r \in Switchers, StartVpnService(r)
      PROVE  switch'[s] = switch[s] \/ switch'[s].at \in Before
  BY <1>4, <1>12 DEF StartVpnService
<1>13. CASE ProcessDies
  BY <1>13 DEF ProcessDies, NotSwitching, Before
<1>14. CASE \/ SetSplitTunneling \/ UpdateAppData \/ OnReceive \/ OnStartCommand \/ OnDestroy
            \/ OnRevoke \/ InitVpnModel \/ StartAnswered \/ UNCHANGED vars
  BY <1>1, <1>14 DEF SetSplitTunneling, UpdateAppData, OnReceive, OnStartCommand, OnDestroy,
                     OnRevoke, InitVpnModel, StartAnswered, vars, appSide
<1>15. ASSUME NEW t \in Threads, ThreadStep(t) PROVE switch' = switch
  BY <1>15 DEF ThreadStep, CheckStarted, GetOrInitProvider, CreateBuilder, Tun2Socks,
               Tun2SocksReturns, DeviceFails, Finally, appSide
<1> QED
  BY VpnSteps, <1>1, <1>2, <1>5, <1>6, <1>7, <1>8, <1>9, <1>10, <1>11, <1>12, <1>13, <1>14, <1>15
  DEF AppStep

LEMMA SwitchOKStep == VpnTypes /\ SwitchOK /\ [Next]_vars => SwitchOK'
<1> SUFFICES ASSUME VpnTypes, SwitchOK, [Next]_vars, NEW s \in Switchers
             PROVE  /\ switch'[s].at = "off" => ~switch'[s].on
                    /\ switch'[s].at \in {"on", "start"} => switch'[s].on
  BY DEF SwitchOK
<1> QED  BY SwitchGoes DEF SwitchOK, Before

LEMMA QueueMoves ==
  ASSUME VpnTypes, [Next]_vars
  PROVE  \/ toService' = toService /\ broadcasts' = broadcasts
         \/ /\ toService' = toService /\ broadcasts' = broadcasts + 1
            /\ \E s \in Switchers : SwitchLanternOff(s)
         \/ /\ OnReceive /\ broadcasts' = broadcasts - 1
            /\ toService' = IF service.started THEN Append(toService, "disconnect")
                            ELSE toService
         \/ /\ OnStartCommand /\ toService # << >> /\ toService' = Tail(toService)
            /\ broadcasts' = broadcasts
         \/ /\ \E s \in Switchers : StartVpnService(s)
            /\ toService' = Append(toService, "connect") /\ broadcasts' = broadcasts
         \/ ProcessDies /\ toService' = << >> /\ broadcasts' = 0
<1>1. CASE AppStep
  BY <1>1, AppLeaves DEF serviceSide
<1>2. ASSUME NEW s \in Switchers, SwitchLanternOff(s)
      PROVE  toService' = toService /\ broadcasts' = broadcasts + 1
  BY <1>2 DEF SwitchLanternOff
<1>3. ASSUME NEW s \in Switchers, StartVpnService(s)
      PROVE  toService' = Append(toService, "connect") /\ broadcasts' = broadcasts
  BY <1>3 DEF StartVpnService
<1>4. CASE OnReceive
  BY <1>4 DEF OnReceive
<1>5. CASE OnStartCommand
  BY <1>5 DEF OnStartCommand
<1>6. CASE ProcessDies
  BY <1>6 DEF ProcessDies
<1>7. CASE OnDestroy \/ OnRevoke \/ InitVpnModel \/ StartAnswered \/ UNCHANGED vars
  BY <1>7 DEF OnDestroy, OnRevoke, InitVpnModel, StartAnswered, vars, serviceSide
<1>8. ASSUME NEW t \in Threads, ThreadStep(t)
      PROVE  toService' = toService /\ broadcasts' = broadcasts
  BY <1>8 DEF ThreadStep, CheckStarted, GetOrInitProvider, CreateBuilder, Tun2Socks,
              Tun2SocksReturns, DeviceFails, Finally
<1> QED  BY VpnSteps, <1>1, <1>2, <1>3, <1>4, <1>5, <1>6, <1>7, <1>8

LEMMA ConsentMoves ==
  ASSUME VpnTypes, [Next]_vars
  PROVE  \/ granted'.consent = granted.consent
         \/ OnRevoke /\ ~granted'.consent
         \/ /\ OnActivityResult /\ granted'.consent /\ status' = "connected"
            /\ switch'["switch"].at = "start" /\ switch'["resume"] = switch["resume"]
            /\ mishaps' = mishaps \cup Crossed("switch")
<1>1. CASE granted' = granted
  BY <1>1
<1>2. CASE OnRequestPermissionsResult
  BY <1>2 DEF OnRequestPermissionsResult, VpnTypes, Granted
<1>3. CASE OnActivityResult
  <2>1. CASE UNCHANGED granted
    BY <2>1
  <2>2. CASE ~UNCHANGED granted
    <3>1. /\ granted' = [granted EXCEPT !.consent = TRUE]
          /\ switch' = [switch EXCEPT !["switch"] = [at |-> "start", on |-> TRUE]]
          /\ mishaps' = mishaps \cup Crossed("switch") /\ status' = "connected"
      BY <1>3, <2>2 DEF OnActivityResult, Mishap
    <3>2. granted'.consent
      BY <3>1 DEF VpnTypes, Granted
    <3>3. switch'["switch"].at = "start" /\ switch'["resume"] = switch["resume"]
      BY <3>1 DEF VpnTypes, Switchers
    <3> QED  BY <1>3, <3>1, <3>2, <3>3
  <2> QED  BY <2>1, <2>2
<1>4. CASE OnRevoke
  BY <1>4 DEF OnRevoke, VpnTypes, Granted
<1>5. ASSUME NEW s \in Switchers, SwitchVPN(s) \/ SwitchLanternOn(s) \/ SwitchLanternOff(s)
                                  \/ UpdateStatus(s) \/ StartVpnService(s)
      PROVE  granted' = granted
  BY <1>5 DEF SwitchVPN, SwitchLanternOn, SwitchLanternOff, UpdateStatus, StartVpnService
<1>6. CASE \/ Toggle \/ ConnectingDelay \/ OnResume \/ CheckVPNStatus
           \/ SetSplitTunneling \/ UpdateAppData
           \/ OnReceive \/ OnStartCommand \/ OnDestroy \/ InitVpnModel \/ StartAnswered
           \/ ProcessDies \/ UNCHANGED vars
  BY <1>6 DEF Toggle, ConnectingDelay, OnResume, CheckVPNStatus, SetSplitTunneling,
              UpdateAppData, OnReceive, OnStartCommand, OnDestroy, InitVpnModel, StartAnswered,
              ProcessDies, vars, appSide
<1>7. ASSUME NEW t \in Threads, ThreadStep(t) PROVE granted' = granted
  BY <1>7 DEF ThreadStep, CheckStarted, GetOrInitProvider, CreateBuilder, Tun2Socks,
              Tun2SocksReturns, DeviceFails, Finally, appSide
<1> QED  BY VpnSteps, <1>1, <1>2, <1>3, <1>4, <1>5, <1>6, <1>7 DEF AppStep

LEMMA StatusMoves ==
  ASSUME [Next]_vars
  PROVE  \/ status' = status
         \/ status' \in {"connecting", "disconnecting"}
         \/ \E s \in Switchers : UpdateStatus(s)
         \/ /\ OnActivityResult /\ status' = "connected"
            /\ switch' = [switch EXCEPT !["switch"] = [at |-> "start", on |-> TRUE]]
         \/ /\ OnActivityResult /\ status' = "disconnected" /\ dialog = "consent"
            /\ granted' = granted
<1>1. CASE \/ Toggle \/ OnResume \/ CheckVPNStatus \/ SetSplitTunneling \/ UpdateAppData
           \/ OnRequestPermissionsResult \/ OnReceive \/ OnStartCommand \/ OnDestroy \/ OnRevoke
           \/ InitVpnModel \/ StartAnswered \/ ProcessDies \/ UNCHANGED vars
  BY <1>1 DEF Toggle, OnResume, CheckVPNStatus, SetSplitTunneling, UpdateAppData,
              OnRequestPermissionsResult, OnReceive, OnStartCommand, OnDestroy, OnRevoke,
              InitVpnModel, StartAnswered, ProcessDies, vars, appSide
<1>2. CASE ConnectingDelay
  BY <1>2 DEF ConnectingDelay
<1>3. CASE OnActivityResult
  BY <1>3 DEF OnActivityResult
<1>4. ASSUME NEW s \in Switchers, SwitchVPN(s) \/ SwitchLanternOn(s) \/ SwitchLanternOff(s)
                                  \/ StartVpnService(s)
      PROVE  status' = status \/ status' \in {"connecting", "disconnecting"}
  BY <1>4 DEF SwitchVPN, SwitchLanternOn, SwitchLanternOff, StartVpnService
<1>5. ASSUME NEW t \in Threads, ThreadStep(t) PROVE status' = status
  BY <1>5 DEF ThreadStep, CheckStarted, GetOrInitProvider, CreateBuilder, Tun2Socks,
              Tun2SocksReturns, DeviceFails, Finally, appSide
<1> QED  BY VpnSteps, <1>1, <1>2, <1>3, <1>4, <1>5 DEF AppStep

-----------------------------------------------------------------------------
(* A thread that will serve, or does, unless it is stopped.                *)

Live(t) ==
  /\ thread[t].at \in {"run", "provider", "establish", "device", "serving"}
  /\ ~thread[t].closing /\ ~thread[t].cut

\* What a step does to the thread of a slot: it begins, it moves on, it ends,
\* or it is told of the end of its device, its interface or its instance.
ThreadBegins(t) ==
  /\ OnStartCommand /\ Head(toService) # "disconnect" /\ ~Running(t)
  /\ thread'[t].at = "run" /\ ~thread'[t].dead /\ ~thread'[t].closing /\ ~thread'[t].cut

MovesOn(t) ==
  /\ ThreadStep(t)
  /\ thread'[t].dead = thread[t].dead /\ thread'[t].closing = thread[t].closing
  /\ thread'[t].cut = thread[t].cut
  /\ \/ thread[t].at = "run" /\ thread'[t].at \in {"provider", "finally"}
     \/ thread[t].at = "provider" /\ thread'[t].at = "establish"
     \/ thread[t].at = "establish" /\ thread'[t].at = "device" /\ granted.consent
     \/ thread[t].at = "establish" /\ thread'[t].at = "finally"
     \/ thread[t].at = "device" /\ thread'[t].at = "serving" /\ currentIPP' = t
     \/ thread[t].at = "serving" /\ thread'[t].at = "finally"

IsTold(t) ==
  /\ thread'[t].at = thread[t].at
  /\ thread[t].closing => thread'[t].closing
  /\ thread[t].cut => thread'[t].cut
  /\ thread'[t].dead = thread[t].dead \/ OnDestroy

LEMMA ThreadGoes ==
  ASSUME VpnTypes, [Next]_vars, NEW u \in Threads
  PROVE  ThreadBegins(u) \/ MovesOn(u) \/ IsTold(u) \/ thread'[u].at = "idle"
<1>0. thread[u] \in Thread
  BY DEF VpnTypes
<1>1. ASSUME thread'[u] = thread[u] PROVE IsTold(u)
  BY <1>1 DEF IsTold
<1>2. ASSUME thread'[u] = Closed[u] PROVE IsTold(u)
  BY <1>0, <1>2, ClosedIs DEF IsTold, Thread
<1>3. CASE AppStep \/ OnReceive \/ InitVpnModel \/ StartAnswered \/ UNCHANGED vars
  BY <1>1, <1>3, AppLeaves DEF OnReceive, InitVpnModel, StartAnswered, vars, serviceSide
<1>4. ASSUME NEW s \in Switchers, SwitchLanternOff(s) \/ StartVpnService(s)
      PROVE  thread' = thread
  BY <1>4 DEF SwitchLanternOff, StartVpnService
<1>5. CASE OnStartCommand
  <2>1. CASE Head(toService) = "disconnect"
    BY <1>2, <1>5, <2>1, DisconnectDoes
  <2>2. CASE Head(toService) # "disconnect"
    <3>1. PICK t \in Threads :
            /\ ~Running(t)
            /\ thread'[t] = [NoRun EXCEPT !.at = "run", !.least = split]
            /\ \A v \in Threads \ {t} : thread'[v] = thread[v]
      BY <1>5, <2>2, ConnectDoes
    <3>2. /\ thread'[t].at = "run" /\ ~thread'[t].dead /\ ~thread'[t].closing
          /\ ~thread'[t].cut
      BY <3>1 DEF NoRun
    <3>3. ThreadBegins(t)
      BY <1>5, <2>2, <3>1, <3>2 DEF ThreadBegins
    <3> QED  BY <1>1, <3>1, <3>3
  <2> QED  BY <2>1, <2>2
<1>6. CASE OnDestroy
  <2>1. /\ thread'[u].at = thread[u].at /\ thread'[u].cut = thread[u].cut
        /\ thread'[u].closing = Closed[u].closing
    BY <1>6, DestroyDoes
  <2> QED  BY <1>0, <1>6, <2>1, ClosedIs DEF IsTold, Thread
<1>7. CASE OnRevoke
  <2>1. thread'[u] = Closed[u] \/ thread'[u] = [Closed[u] EXCEPT !.cut = TRUE]
    BY <1>7, RevokeDoes
  <2>2. Closed[u] \in Thread
    BY ClosedIs
  <2>3. /\ thread'[u].at = Closed[u].at /\ thread'[u].closing = Closed[u].closing
        /\ thread'[u].dead = Closed[u].dead
        /\ thread'[u].cut = Closed[u].cut \/ thread'[u].cut = TRUE
    BY <2>1, <2>2 DEF Thread
  <2> QED  BY <1>0, <2>3, ClosedIs DEF IsTold, Thread
<1>8. CASE ProcessDies
  BY <1>8 DEF ProcessDies, NoRun
<1>9. ASSUME NEW t \in Threads, ThreadStep(t)
      PROVE  MovesOn(u) \/ IsTold(u) \/ thread'[u].at = "idle"
  <2>1. ASSUME NEW a \in RunAt, At(t, a)
        PROVE  /\ t # u => IsTold(u)
               /\ thread'[t].at = a /\ thread'[t].dead = thread[t].dead
               /\ thread'[t].closing = thread[t].closing /\ thread'[t].cut = thread[t].cut
    <3>1. /\ thread'[t] = [thread[t] EXCEPT !.at = a]
          /\ \A v \in Threads \ {t} : thread'[v] = thread[v]
      BY <2>1, ThreadMoves
    <3>2. thread[t] \in Thread
      BY DEF VpnTypes
    <3>3. /\ thread'[t].at = a /\ thread'[t].dead = thread[t].dead
          /\ thread'[t].closing = thread[t].closing /\ thread'[t].cut = thread[t].cut
      BY <3>1, <3>2 DEF Thread
    <3>4. t # u => thread'[u] = thread[u]
      BY <3>1
    <3> QED  BY <1>1, <3>3, <3>4
  <2>2. {"provider", "finally", "serving"} \subseteq RunAt
    BY DEF RunAt
  <2>3. CASE CheckStarted(t)
    <3>1. thread[t].at = "run" /\ (At(t, "provider") \/ At(t, "finally"))
      BY <2>3 DEF CheckStarted
    <3> QED  BY <1>9, <2>1, <2>2, <3>1 DEF MovesOn
  <2>4. CASE Tun2SocksReturns(t) \/ DeviceFails(t)
    <3>1. thread[t].at = "serving" /\ At(t, "finally")
      BY <2>4 DEF Tun2SocksReturns, DeviceFails
    <3> QED  BY <1>9, <2>1, <2>2, <3>1 DEF MovesOn
  <2>5. CASE Tun2Socks(t)
    <3>1. thread[t].at = "device" /\ At(t, "serving") /\ currentIPP' = t
      BY <2>5 DEF Tun2Socks
    <3> QED  BY <1>9, <2>1, <2>2, <3>1 DEF MovesOn
  <2>6. CASE GetOrInitProvider(t)
    <3>1. CASE u = t
      BY <1>9, <2>6, <3>1, ProviderDoes DEF MovesOn
    <3>2. CASE u # t
      <4>1. thread'[u] = thread[u]
        BY <2>6, <3>2, ProviderDoes
      <4> QED  BY <1>1, <4>1
    <3> QED  BY <3>1, <3>2
  <2>7. CASE CreateBuilder(t)
    <3>1. CASE granted.consent
      <4>1. CASE u = t
        <5>1. thread[u].at = "establish" /\ thread'[u] = [thread[u] EXCEPT !.at = "device"]
          BY <2>7, <3>1, <4>1, BuilderDoes
        <5>2. /\ thread'[u].at = "device" /\ thread'[u].dead = thread[u].dead
              /\ thread'[u].closing = thread[u].closing /\ thread'[u].cut = thread[u].cut
          BY <1>0, <5>1 DEF Thread
        <5> QED  BY <1>9, <3>1, <4>1, <5>1, <5>2 DEF MovesOn
      <4>2. CASE u # t
        <5>1. thread'[u] = thread[u] \/ thread'[u] = [thread[u] EXCEPT !.cut = TRUE]
          BY <2>7, <3>1, <4>2, BuilderDoes
        <5> QED  BY <1>0, <5>1 DEF IsTold, Thread
      <4> QED  BY <4>1, <4>2
    <3>2. CASE ~granted.consent
      <4>1. thread[t].at = "establish" /\ At(t, "finally")
        BY <2>7, <3>2 DEF CreateBuilder
      <4> QED  BY <1>9, <2>1, <2>2, <4>1 DEF MovesOn
    <3> QED  BY <3>1, <3>2
  <2>8. CASE Finally(t)
    <3>1. thread'[t] = NoRun /\ \A v \in Threads \ {t} : thread'[v] = Closed[v]
      BY <2>8, FinallyDoes
    <3>2. CASE u = t
      BY <3>1, <3>2 DEF NoRun
    <3>3. CASE u # t
      BY <1>2, <3>1, <3>3
    <3> QED  BY <3>2, <3>3
  <2> QED  BY <1>9, <2>3, <2>4, <2>5, <2>6, <2>7, <2>8 DEF ThreadStep
<1> QED  BY VpnSteps, <1>1, <1>3, <1>4, <1>5, <1>6, <1>7, <1>8, <1>9

LEMMA OnlyConnectBegins ==
  ASSUME VpnTypes, [Next]_vars, NEW u \in Threads,
         ~(OnStartCommand /\ Head(toService) # "disconnect")
  PROVE  /\ Running(u)' => Running(u)
         /\ Live(u)' => Live(u) /\ (thread'[u].dead = thread[u].dead \/ OnDestroy)
<1>1. MovesOn(u) \/ IsTold(u) \/ thread'[u].at = "idle"
  BY ThreadGoes DEF ThreadBegins
<1>2. CASE MovesOn(u)
  BY <1>2 DEF MovesOn, Running, Live
<1>3. CASE IsTold(u)
  BY <1>3 DEF IsTold, Running, Live
<1>4. CASE thread'[u].at = "idle"
  BY <1>4 DEF Running, Live
<1> QED  BY <1>1, <1>2, <1>3, <1>4

-----------------------------------------------------------------------------
(***************************************************************************)
(* As long as no connect was sent with another on its way: one thread at   *)
(* most runs, and none while a connect is on its way, which is the first   *)
(* of the commands.                                                        *)
(***************************************************************************)
SoloOK ==
  "quick" \notin mishaps =>
    /\ \A t, u \in Threads : Running(t) /\ Running(u) => t = u
    /\ First(toService)
    /\ Connecting => \A t \in Threads : ~Running(t)

LEMMA ConnectIsSettled ==
  ASSUME NEW s \in Switchers, StartVpnService(s), "quick" \notin mishaps'
  PROVE  /\ broadcasts = 0 /\ toService = << >> /\ (\A t \in Threads : ~Running(t))
         /\ toService' = Append(toService, "connect") /\ broadcasts' = broadcasts
         /\ thread' = thread /\ switch[s].at = "start" /\ status' = status
         /\ service' = [service EXCEPT !.started = TRUE]
  BY DEF StartVpnService, Mishap, Settled

\* The next command is a connect, or there is none.
LEMMA ConnectIsFirst ==
  ASSUME VpnTypes, First(toService), OnStartCommand
  PROVE  /\ ~Connecting' /\ First(toService')
         /\ Head(toService) # "disconnect" => Connecting /\ (Disconnecting <=> Disconnecting')
<1>1. toService # << >> /\ toService' = Tail(toService) /\ toService \in Seq(Commands)
  BY DEF OnStartCommand, VpnTypes
<1>2. First(toService') /\ ~Connecting'
  BY <1>1, FirstIs DEF Connecting
<1>3. Head(toService) \in Commands
  BY <1>1
<1>4. ASSUME Head(toService) # "disconnect"
      PROVE  Connecting /\ (Disconnecting <=> Disconnecting')
  BY <1>1, <1>3, <1>4, HasTail DEF Connecting, Disconnecting, Commands
<1> QED  BY <1>2, <1>4

LEMMA SoloStep == VpnTypes /\ SoloOK /\ [Next]_vars => SoloOK'
<1> SUFFICES ASSUME VpnTypes, SoloOK, [Next]_vars, "quick" \notin mishaps'
             PROVE  /\ \A t, u \in Threads : Running(t)' /\ Running(u)' => t = u
                    /\ First(toService)'
                    /\ Connecting' => \A t \in Threads : ~Running(t)'
  BY DEF SoloOK
<1>1. /\ \A t, u \in Threads : Running(t) /\ Running(u) => t = u
      /\ First(toService)
      /\ Connecting => \A t \in Threads : ~Running(t)
  BY MishapsGrow DEF SoloOK
<1>2. toService \in Seq(Commands)
  BY DEF VpnTypes
<1>3. CASE OnStartCommand /\ Head(toService) # "disconnect"
  <2>1. First(toService') /\ ~Connecting' /\ Connecting
    BY <1>1, <1>3, ConnectIsFirst
  <2>2. PICK t \in Threads : \A u \in Threads \ {t} : thread'[u] = thread[u]
    BY <1>3, ConnectDoes
  <2>3. \A u \in Threads \ {t} : ~Running(u)'
    BY <1>1, <2>1, <2>2 DEF Running
  <2> QED  BY <2>1, <2>3
<1>4. CASE ~(OnStartCommand /\ Head(toService) # "disconnect")
  <2>1. \A u \in Threads : Running(u)' => Running(u)
    BY <1>4, OnlyConnectBegins
  <2>2. First(toService) => First(Append(toService, "disconnect"))
    BY <1>2, FirstIs
  <2>3. Has(Append(toService, "disconnect"), "connect") => Connecting
    BY <1>2, HasAppend DEF Commands, Connecting
  <2>4. CASE toService' \in {toService, Append(toService, "disconnect")}
    BY <1>1, <2>1, <2>2, <2>3, <2>4 DEF Connecting
  <2>5. CASE OnStartCommand
    BY <1>1, <2>1, <2>5, ConnectIsFirst
  <2>6. ASSUME NEW s \in Switchers, StartVpnService(s)
        PROVE  First(toService)' /\ \A t \in Threads : ~Running(t)'
    <3>1. /\ toService = << >> /\ (\A t \in Threads : ~Running(t))
          /\ toService' = Append(toService, "connect")
      BY <2>6, ConnectIsSettled
    <3>2. First(Append(toService, "connect"))
      BY <1>2, <3>1, FirstIs
    <3> QED  BY <2>1, <3>1, <3>2
  <2>7. CASE toService' = << >>
    BY <1>2, <2>1, <1>1, <2>7, FirstIs, HasNone DEF Connecting
  <2> QED  BY <1>1, <2>1, <2>4, <2>5, <2>6, <2>7, QueueMoves
<1> QED  BY <1>3, <1>4

-----------------------------------------------------------------------------
(***************************************************************************)
(* As long as none of what ConnectedMeansDevice excepts has happened: who  *)
(* is about to start the service has the user's consent, and so has every  *)
(* connect and every thread, for which Start has answered; and once the    *)
(* service is started, "connected" has a connect or a thread to show for   *)
(* it, until a stop is on its way.                                         *)
(***************************************************************************)
NoStop == broadcasts = 0 /\ ~Disconnecting

Comes(t) ==
  /\ Live(t) /\ ~thread[t].dead
  /\ thread[t].at = "serving" => currentIPP = t

Ready == process = "answered" \/ (~Connecting /\ \A t \in Threads : ~Running(t))
Asked == \A s \in Switchers : switch[s].at = "start" \/ (switch[s].at = "status" /\ switch[s].on)
                              => granted.consent
Allowed == Connecting \/ (\E t \in Threads : Running(t)) => granted.consent
Shown ==
  status = "connected" =>
    \/ \E s \in Switchers : switch[s].at = "start" \/ (switch[s].at = "status" /\ ~switch[s].on)
    \/ NoStop /\ (Connecting \/ \E t \in Threads : Comes(t)) /\ service.started

Unharmed == mishaps \cap {"quick", "unready", "failed", "revoked", "died"} = {}
ConnectedOK == Unharmed => Ready /\ Asked /\ Allowed /\ Shown

\* Nothing is underway that was not: Ready and Allowed need no more.
LEMMA NothingNew ==
  ASSUME VpnTypes, [Next]_vars, SoloOK, "quick" \notin mishaps'
  PROVE  \/ \E s \in Switchers : StartVpnService(s)
         \/ (Connecting \/ \E t \in Threads : Running(t))'
            => Connecting \/ \E t \in Threads : Running(t)
<1>1. First(toService) /\ toService \in Seq(Commands)
  BY MishapsGrow DEF SoloOK, VpnTypes
<1>2. CASE OnStartCommand /\ Head(toService) # "disconnect"
  BY <1>1, <1>2, ConnectIsFirst
<1>3. CASE ~(OnStartCommand /\ Head(toService) # "disconnect")
  <2>1. \A u \in Threads : Running(u)' => Running(u)
    BY <1>3, OnlyConnectBegins
  <2>2. Has(Append(toService, "disconnect"), "connect") => Connecting
    BY <1>1, HasAppend DEF Commands, Connecting
  <2>3. CASE toService' \in {toService, Append(toService, "disconnect")}
    BY <2>1, <2>2, <2>3 DEF Connecting
  <2>4. CASE OnStartCommand
    BY <1>1, <2>1, <2>4, ConnectIsFirst
  <2>5. CASE toService' = << >>
    BY <2>1, <2>5, HasNone DEF Connecting
  <2> QED  BY <2>3, <2>4, <2>5, QueueMoves
<1> QED  BY <1>2, <1>3

LEMMA UnharmedBefore ==
  ASSUME [Next]_vars, Unharmed'
  PROVE  /\ Unharmed /\ "quick" \notin mishaps /\ "quick" \notin mishaps'
         /\ ~ProcessDies /\ ~OnRevoke /\ \A t \in Threads : ~DeviceFails(t)
         /\ \A s \in Switchers : StartVpnService(s) => process = "answered"
<1>1. mishaps \subseteq mishaps'
  BY MishapsGrow
<1>2. ASSUME NEW s \in Switchers, StartVpnService(s) PROVE process = "answered"
  BY <1>2 DEF StartVpnService, Mishap, Unharmed
<1>3. ~ProcessDies /\ ~OnRevoke /\ \A t \in Threads : ~DeviceFails(t)
  BY DEF ProcessDies, OnRevoke, DeviceFails, Mishap, Unharmed
<1> QED  BY <1>1, <1>2, <1>3 DEF Unharmed

LEMMA ReadyStep ==
  VpnTypes /\ SoloOK /\ Ready /\ [Next]_vars /\ Unharmed' => Ready'
<1> SUFFICES ASSUME VpnTypes, SoloOK, Ready, [Next]_vars, Unharmed' PROVE Ready'
  OBVIOUS
<1>1. ASSUME NEW s \in Switchers, StartVpnService(s) PROVE process' = "answered"
  BY <1>1, UnharmedBefore DEF StartVpnService, rest
<1>2. process = "answered" => process' = "answered"
  BY UnharmedBefore, ProcessStays DEF InitVpnModel, StartProcess, StartAnswered, Answer
<1> QED  BY <1>1, <1>2, UnharmedBefore, NothingNew DEF Ready

LEMMA AskedStep ==
  VpnTypes /\ SwitchOK /\ Asked /\ [Next]_vars /\ Unharmed' => Asked'
<1> SUFFICES ASSUME VpnTypes, SwitchOK, Asked, [Next]_vars, Unharmed', NEW s \in Switchers,
                    switch'[s].at = "start" \/ (switch'[s].at = "status" /\ switch'[s].on)
             PROVE  granted'.consent
  BY DEF Asked
<1>1. granted.consent => granted'.consent
  BY ConsentMoves, UnharmedBefore
<1> QED  BY <1>1, SwitchGoes DEF Asked, Before

LEMMA AllowedStep ==
  VpnTypes /\ SwitchOK /\ SoloOK /\ Asked /\ Allowed /\ [Next]_vars /\ Unharmed' => Allowed'
<1> SUFFICES ASSUME VpnTypes, SwitchOK, SoloOK, Asked, Allowed, [Next]_vars, Unharmed'
             PROVE  Allowed'
  OBVIOUS
<1>1. granted.consent => granted'.consent
  BY ConsentMoves, UnharmedBefore
<1>2. ASSUME NEW s \in Switchers, StartVpnService(s) PROVE granted.consent
  BY <1>2 DEF StartVpnService, Asked
<1> QED  BY <1>1, <1>2, UnharmedBefore, NothingNew DEF Allowed

\* Who serves what is shown goes on to, or is stopped.
LEMMA ComesOn ==
  ASSUME VpnTypes, SoloOK, Ready, Allowed, [Next]_vars, Unharmed', NoStop, service.started,
         Connecting \/ \E t \in Threads : Comes(t)
  PROVE  \/ \E s \in Switchers : StartVpnService(s) \/ SwitchLanternOff(s)
         \/ NoStop' /\ (Connecting \/ \E t \in Threads : Comes(t))' /\ service'.started
<1>0. /\ toService \in Seq(Commands) /\ First(toService)
      /\ \A t, u \in Threads : Running(t) /\ Running(u) => t = u
      /\ Connecting => \A t \in Threads : ~Running(t)
      /\ Has(toService, "disconnect") = Disconnecting
  BY UnharmedBefore DEF VpnTypes, SoloOK, Disconnecting
<1>1. CASE UNCHANGED <<toService, broadcasts, thread, currentIPP>> /\ service'.started
  BY <1>1 DEF NoStop, Connecting, Disconnecting, Comes, Live
<1>2. CASE AppStep \/ StartAnswered \/ UNCHANGED vars
  BY <1>1, <1>2, AppLeaves DEF StartAnswered, vars, serviceSide
<1>3. CASE InitVpnModel
  <2>1. service' = [service EXCEPT !.exists = service.started]
    BY <1>3 DEF InitVpnModel
  <2>2. service'.started
    BY <2>1 DEF VpnTypes, Service
  <2> QED  BY <1>1, <1>3, <2>2 DEF InitVpnModel
<1>4. ~OnReceive /\ ~OnDestroy /\ ~OnRevoke /\ ~ProcessDies
  BY UnharmedBefore DEF OnReceive, OnDestroy, NoStop
<1>5. CASE OnStartCommand
  <2>1. toService # << >> /\ UNCHANGED broadcasts
    BY <1>5 DEF OnStartCommand
  <2>2. Head(toService) # "disconnect"
    BY <1>0, <2>1, HasTail DEF NoStop
  <2>3. NoStop'
    BY <1>0, <1>5, <2>1, <2>2, ConnectIsFirst DEF NoStop
  <2>4. PICK t \in Threads :
          /\ thread'[t] = [NoRun EXCEPT !.at = "run", !.least = split]
          /\ service'.started = service.started
    BY <1>5, <2>2, ConnectDoes
  <2>5. Comes(t)'
    BY <2>4 DEF Comes, Live, NoRun
  <2> QED  BY <2>3, <2>4, <2>5
<1>6. ASSUME NEW t \in Threads, ThreadStep(t)
      PROVE  NoStop' /\ (\E u \in Threads : Comes(u))' /\ service'.started
  <2>1. Running(t) /\ UNCHANGED <<toService, broadcasts>>
    BY <1>6 DEF Running, ThreadStep, CheckStarted, GetOrInitProvider, CreateBuilder, Tun2Socks,
                Tun2SocksReturns, DeviceFails, Finally
  <2>2. Comes(t) /\ process = "answered" /\ granted.consent
    <3>1. PICK u \in Threads : Comes(u)
      BY <1>0, <2>1
    <3>2. Running(u)
      BY <3>1 DEF Comes, Live, Running
    <3> QED  BY <1>0, <2>1, <3>1, <3>2 DEF Ready, Allowed
  <2>3. NoStop'
    BY <2>1 DEF NoStop, Disconnecting
  <2>4. thread[t] \in Thread
    BY DEF VpnTypes
  <2>5. ~Tun2SocksReturns(t) /\ ~DeviceFails(t) /\ ~Finally(t)
    BY <2>2, UnharmedBefore DEF Tun2SocksReturns, Finally, Comes, Live
  <2>6. CASE CheckStarted(t) \/ Tun2Socks(t)
    <3>1. /\ UNCHANGED service
          /\ \/ At(t, "provider")
             \/ At(t, "serving") /\ currentIPP' = t
      BY <2>2, <2>6 DEF CheckStarted, Tun2Socks
    <3>2. "provider" \in RunAt /\ "serving" \in RunAt
      BY DEF RunAt
    <3>3. \/ thread'[t] = [thread[t] EXCEPT !.at = "provider"]
          \/ thread'[t] = [thread[t] EXCEPT !.at = "serving"] /\ currentIPP' = t
      BY <3>1, <3>2, ThreadMoves
    <3>4. /\ thread'[t].at = "provider" \/ (thread'[t].at = "serving" /\ currentIPP' = t)
          /\ thread'[t].dead = thread[t].dead
          /\ thread'[t].closing = thread[t].closing /\ thread'[t].cut = thread[t].cut
      BY <2>4, <3>3 DEF Thread
    <3>5. Comes(t)'
      BY <2>2, <3>4 DEF Comes, Live
    <3> QED  BY <2>3, <3>1, <3>5
  <2>7. CASE GetOrInitProvider(t)
    <3>1. /\ thread'[t].at = "establish" /\ thread'[t].dead = thread[t].dead
          /\ thread'[t].closing = thread[t].closing /\ thread'[t].cut = thread[t].cut
          /\ service'.started = service.started
      BY <2>7, ProviderDoes
    <3>2. Comes(t)'
      BY <2>2, <3>1 DEF Comes, Live
    <3> QED  BY <2>3, <3>1, <3>2
  <2>8. CASE CreateBuilder(t)
    <3>1. /\ thread'[t] = [thread[t] EXCEPT !.at = "device"]
          /\ service'.started = service.started
      BY <2>2, <2>8, BuilderDoes
    <3>2. /\ thread'[t].at = "device" /\ thread'[t].dead = thread[t].dead
          /\ thread'[t].closing = thread[t].closing /\ thread'[t].cut = thread[t].cut
      BY <2>4, <3>1 DEF Thread
    <3>3. Comes(t)'
      BY <2>2, <3>2 DEF Comes, Live
    <3> QED  BY <2>3, <3>1, <3>3
  <2> QED  BY <1>6, <2>5, <2>6, <2>7, <2>8 DEF ThreadStep
<1> QED  BY VpnSteps, <1>2, <1>3, <1>4, <1>5, <1>6

LEMMA ShownStep ==
  /\ VpnTypes /\ SwitchOK /\ SoloOK /\ Ready /\ Asked /\ Allowed /\ Shown
  /\ [Next]_vars /\ Unharmed'
  => Shown'
<1> SUFFICES ASSUME VpnTypes, SwitchOK, SoloOK, Ready, Asked, Allowed, Shown, [Next]_vars,
                    Unharmed', status' = "connected"
             PROVE  \/ \E s \in Switchers :
                         switch'[s].at = "start" \/ (switch'[s].at = "status" /\ ~switch'[s].on)
                    \/ NoStop' /\ (Connecting \/ \E t \in Threads : Comes(t))' /\ service'.started
  BY DEF Shown
<1>0. "quick" \notin mishaps'
  BY UnharmedBefore
<1>1. ASSUME NEW s \in Switchers, StartVpnService(s)
      PROVE  NoStop' /\ Connecting' /\ service'.started
  <2>1. /\ broadcasts' = 0 /\ toService = << >> /\ toService' = Append(toService, "connect")
        /\ service' = [service EXCEPT !.started = TRUE] /\ toService \in Seq(Commands)
    BY <1>0, <1>1, ConnectIsSettled DEF VpnTypes
  <2>2. Connecting' /\ ~Disconnecting'
    <3>1. "connect" \in Commands /\ "disconnect" # "connect"
      BY DEF Commands
    <3>2. ~Has(toService, "disconnect")
      BY <2>1, HasNone
    <3>3. /\ Has(Append(toService, "connect"), "connect")
          /\ ~Has(Append(toService, "connect"), "disconnect")
      BY <2>1, <3>1, <3>2, HasAppend
    <3> QED  BY <2>1, <3>3 DEF Connecting, Disconnecting
  <2> QED  BY <2>1, <2>2 DEF NoStop, VpnTypes, Service
<1>2. ASSUME NEW s \in Switchers, SwitchLanternOff(s)
      PROVE  switch'[s].at = "status" /\ ~switch'[s].on
  <2>1. Goto(s, "status") /\ ~switch[s].on
    BY <1>2 DEF SwitchLanternOff, SwitchOK
  <2>2. "status" \in SwitchAt
    BY DEF SwitchAt
  <2> QED  BY <2>1, <2>2, SwitchMoves
<1>3. ASSUME NEW s \in Switchers, UpdateStatus(s) PROVE switch'[s].at = "start"
  <2>1. Goto(s, "start")
    BY <1>3 DEF UpdateStatus
  <2>2. "start" \in SwitchAt
    BY DEF SwitchAt
  <2> QED  BY <2>1, <2>2, SwitchMoves
<1>4. CASE switch' = [switch EXCEPT !["switch"] = [at |-> "start", on |-> TRUE]]
  BY <1>4 DEF VpnTypes, Switchers
<1>5. CASE status' = status
  <2>1. CASE NoStop /\ (Connecting \/ \E t \in Threads : Comes(t)) /\ service.started
    BY <1>1, <1>2, <2>1, ComesOn
  <2>2. ASSUME NEW s \in Switchers,
               switch[s].at = "start" \/ (switch[s].at = "status" /\ ~switch[s].on)
        PROVE  \/ \E r \in Switchers : StartVpnService(r) \/ UpdateStatus(r)
               \/ switch'[s] = switch[s]
    <3>1. CASE switch' = switch
      BY <3>1
    <3>2. ASSUME NEW r \in Switchers, NEW a \in SwitchAt, Goto(r, a),
                 switch[r].at \notin {"start", "status"}
          PROVE  switch'[s] = switch[s]
      BY <2>2, <3>2, SwitchMoves
    <3>3. ASSUME NEW r \in Switchers, SwitchDone(r), switch[r].at \notin {"start", "status"}
          PROVE  switch'[s] = switch[s]
      BY <2>2, <3>3, SwitchEnds
    <3>4. "switch" \in Switchers /\ "resume" \in Switchers
          /\ {"delay", "check", "save", "on", "off", "status", "start", "idle"} = SwitchAt
      BY DEF Switchers, SwitchAt
    <3>5. CASE Toggle \/ OnResume \/ OnRequestPermissionsResult \/ OnActivityResult
      <4>1. \/ switch' = switch
            \/ \E r \in Switchers : \E v :
                 switch[r].at = "idle" /\ switch' = [switch EXCEPT ![r] = v]
        BY <3>4, <3>5 DEF Toggle, OnResume, OnRequestPermissionsResult, OnActivityResult
      <4> QED  BY <2>2, <4>1 DEF VpnTypes
    <3>6. CASE ConnectingDelay \/ CheckVPNStatus
      BY <3>2, <3>3, <3>4, <3>6 DEF ConnectingDelay, CheckVPNStatus
    <3>7. ASSUME NEW r \in Switchers, SwitchVPN(r) PROVE switch'[s] = switch[s]
      <4>1. (IF switch[r].on THEN "on" ELSE "off") \in SwitchAt
        BY <3>4
      <4> QED  BY <3>2, <3>7, <4>1 DEF SwitchVPN
    <3>8. ASSUME NEW r \in Switchers, SwitchLanternOn(r) \/ SwitchLanternOff(r)
          PROVE  switch'[s] = switch[s]
      BY <3>2, <3>3, <3>4, <3>8 DEF SwitchLanternOn, SwitchLanternOff
    <3>9. CASE \/ SetSplitTunneling \/ UpdateAppData \/ OnReceive \/ OnStartCommand \/ OnDestroy
               \/ OnRevoke \/ InitVpnModel \/ StartAnswered \/ UNCHANGED vars
      BY <3>1, <3>9 DEF SetSplitTunneling, UpdateAppData, OnReceive, OnStartCommand, OnDestroy,
                        OnRevoke, InitVpnModel, StartAnswered, vars, appSide
    <3>10. ASSUME NEW t \in Threads, ThreadStep(t) PROVE switch' = switch
      BY <3>10 DEF ThreadStep, CheckStarted, GetOrInitProvider, CreateBuilder, Tun2Socks,
                   Tun2SocksReturns, DeviceFails, Finally, appSide
    <3>11. ~ProcessDies
      BY UnharmedBefore
    <3> QED
      BY VpnSteps, <3>1, <3>5, <3>6, <3>7, <3>8, <3>9, <3>10, <3>11 DEF AppStep
  <2> QED  BY <1>1, <1>3, <1>5, <2>1, <2>2 DEF Shown
<1> QED  BY <1>3, <1>4, <1>5, StatusMoves

LEMMA ConnectedStep ==
  VpnTypes /\ SwitchOK /\ SoloOK /\ ConnectedOK /\ [Next]_vars => ConnectedOK'
<1> SUFFICES ASSUME VpnTypes, SwitchOK, SoloOK, ConnectedOK, [Next]_vars, Unharmed'
             PROVE  (Ready /\ Asked /\ Allowed /\ Shown)'
  BY DEF ConnectedOK
<1>1. Ready /\ Asked /\ Allowed /\ Shown
  BY UnharmedBefore DEF ConnectedOK
<1> QED  BY <1>1, ReadyStep, AskedStep, AllowedStep, ShownStep

-----------------------------------------------------------------------------
(***************************************************************************)
(* As long as none of what OffMeansOff excepts has happened: one of the    *)
(* two switches at a time; a service with a connect or a live thread is    *)
(* started, and the device of the thread is the one that a stop closes;    *)
(* who is about to start the service shows it; and a connect or a live     *)
(* thread behind a status "disconnected" has a stop on its way.            *)
(***************************************************************************)
Beyond(s) == switch[s].at \in {"on", "off", "status", "start"}
OneSwitches == ~(Beyond("switch") /\ Beyond("resume"))

Kept ==
  /\ Connecting => service.started
  /\ \A t \in Threads : Live(t) => /\ service.started /\ ~thread[t].dead
                                   /\ thread[t].at = "serving" => currentIPP = t

Starts ==
  \A s \in Switchers : switch[s].at = "start" => status # "disconnected" \/ ~granted.consent

Way == (Connecting \/ \E t \in Threads : Live(t)) /\ granted.consent
StopComes == broadcasts > 0 \/ Disconnecting
Stops ==
  \A s \in Switchers : switch[s].at = "status" /\ ~switch[s].on => (Way => StopComes)
Hidden == status = "disconnected" => (Way => StopComes)

Undisturbed == mishaps \cap {"early", "quick", "crossed"} = {}
OffOK == Undisturbed => OneSwitches /\ Kept /\ Starts /\ Stops /\ Hidden

\* Who is asked for consent has not given it; an interface has it.
DialogOK == dialog = "consent" => ~granted.consent
InterfaceOK == \A t \in Threads : HasInterface(t) /\ ~thread[t].cut => granted.consent

LEMMA UndisturbedBefore ==
  ASSUME [Next]_vars, Undisturbed'
  PROVE  /\ Undisturbed /\ "quick" \notin mishaps /\ "quick" \notin mishaps'
         /\ \A w : mishaps' = mishaps \cup w => w \cap {"early", "quick", "crossed"} = {}
<1>1. mishaps \subseteq mishaps'
  BY MishapsGrow
<1> QED  BY <1>1 DEF Undisturbed

LEMMA NobodyElse ==
  ASSUME NEW s \in Switchers, "crossed" \notin Crossed(s)
  PROVE  \A r \in Switchers \ {s} : switch[r].at \in {"idle", "delay", "check"}
  BY DEF Crossed

LEMMA OneSwitchesStep ==
  VpnTypes /\ SwitchOK /\ OneSwitches /\ [Next]_vars /\ Undisturbed' => OneSwitches'
<1> SUFFICES ASSUME VpnTypes, SwitchOK, OneSwitches, [Next]_vars, Undisturbed',
                    Beyond("switch")', Beyond("resume")'
             PROVE  FALSE
  BY DEF OneSwitches
<1>1. "switch" \in Switchers /\ "resume" \in Switchers
      /\ \A s, r \in Switchers : s # r => {s, r} = {"switch", "resume"}
  BY DEF Switchers
<1>2. ASSUME NEW s \in Switchers, mishaps' = mishaps \cup Crossed(s),
             \A r \in Switchers \ {s} : switch'[r] = switch[r]
      PROVE  FALSE
  <2>1. "crossed" \notin Crossed(s)
    BY <1>2, UndisturbedBefore
  <2>2. \A r \in Switchers \ {s} : ~Beyond(r)'
    BY <1>2, <2>1, NobodyElse DEF Beyond
  <2> QED  BY <1>1, <2>2
<1>3. ASSUME NEW s \in Switchers, SwitchVPN(s) PROVE FALSE
  <2>1. Goto(s, IF switch[s].on THEN "on" ELSE "off") /\ mishaps' = mishaps \cup Crossed(s)
    BY <1>3 DEF SwitchVPN, Mishap
  <2>2. (IF switch[s].on THEN "on" ELSE "off") \in SwitchAt
    BY DEF SwitchAt
  <2>3. \A r \in Switchers \ {s} : switch'[r] = switch[r]
    BY <2>1, <2>2, SwitchMoves
  <2> QED  BY <1>2, <2>1, <2>3
<1>4. CASE (OnRequestPermissionsResult \/ OnActivityResult)
           /\ mishaps' = mishaps \cup Crossed("switch")
  <2>1. \/ switch' = switch
        \/ \E v : switch' = [switch EXCEPT !["switch"] = v]
    BY <1>4 DEF OnRequestPermissionsResult, OnActivityResult
  <2>2. \A r \in Switchers \ {"switch"} : switch'[r] = switch[r]
    BY <2>1 DEF VpnTypes
  <2> QED  BY <1>1, <1>2, <1>4, <2>2
<1>5. ASSUME NEW s \in Switchers, Beyond(s)' PROVE Beyond(s)
  BY <1>3, <1>4, <1>5, SwitchGoes DEF Beyond, Before
<1> QED  BY <1>1, <1>5 DEF OneSwitches

LEMMA StartedMoves ==
  ASSUME VpnTypes, [Next]_vars, service.started
  PROVE  \/ service'.started
         \/ OnStartCommand /\ Head(toService) = "disconnect"
         \/ OnRevoke
         \/ \E t \in Threads : Finally(t)
<1>0. service \in Service
  BY DEF VpnTypes
<1>1. CASE AppStep \/ OnReceive \/ StartAnswered \/ UNCHANGED vars
  BY <1>1, AppLeaves DEF OnReceive, StartAnswered, vars, serviceSide
<1>2. ASSUME NEW s \in Switchers, SwitchLanternOff(s) \/ StartVpnService(s)
      PROVE  service'.started
  BY <1>0, <1>2 DEF SwitchLanternOff, StartVpnService, Service
<1>3. CASE OnStartCommand /\ Head(toService) # "disconnect"
  BY <1>3, ConnectDoes
<1>4. ~OnDestroy
  BY DEF OnDestroy
<1>5. CASE InitVpnModel \/ ProcessDies
  BY <1>0, <1>5 DEF InitVpnModel, ProcessDies, NoInstance, Service
<1>6. ASSUME NEW t \in Threads, ThreadStep(t), ~Finally(t) PROVE service'.started
  <2>1. CASE GetOrInitProvider(t)
    BY <2>1, ProviderDoes
  <2>2. CASE CreateBuilder(t) /\ granted.consent
    BY <2>2, BuilderDoes
  <2>3. CASE ~GetOrInitProvider(t) /\ ~(CreateBuilder(t) /\ granted.consent)
    BY <1>6, <2>3 DEF ThreadStep, CheckStarted, CreateBuilder, Tun2Socks, Tun2SocksReturns,
                      DeviceFails
  <2> QED  BY <2>1, <2>2, <2>3
<1> QED  BY VpnSteps, <1>1, <1>2, <1>3, <1>4, <1>5, <1>6

LEMMA DeviceMoves ==
  ASSUME [Next]_vars
  PROVE  \/ currentIPP' = currentIPP
         \/ OnStartCommand /\ Head(toService) = "disconnect"
         \/ OnDestroy \/ OnRevoke \/ ProcessDies
         \/ \E t \in Threads : Finally(t) \/ Tun2Socks(t)
<1>1. CASE AppStep \/ OnReceive \/ StartAnswered \/ InitVpnModel \/ UNCHANGED vars
  BY <1>1, AppLeaves DEF OnReceive, StartAnswered, InitVpnModel, vars, serviceSide
<1>2. ASSUME NEW s \in Switchers, SwitchLanternOff(s) \/ StartVpnService(s)
      PROVE  currentIPP' = currentIPP
  BY <1>2 DEF SwitchLanternOff, StartVpnService
<1>3. CASE OnStartCommand /\ Head(toService) # "disconnect"
  BY <1>3 DEF OnStartCommand
<1>4. ASSUME NEW t \in Threads, ThreadStep(t), ~Finally(t), ~Tun2Socks(t)
      PROVE  currentIPP' = currentIPP
  BY <1>4 DEF ThreadStep, CheckStarted, GetOrInitProvider, CreateBuilder, Tun2SocksReturns,
              DeviceFails
<1> QED  BY VpnSteps, <1>1, <1>2, <1>3, <1>4

\* A stop that misses no thread on its way leaves none that is live.
LEMMA StopLeavesNone ==
  ASSUME VpnTypes, SoloOK, Kept, [Next]_vars, Undisturbed', NEW t \in Threads,
         \/ OnStartCommand /\ Head(toService) = "disconnect"
         \/ OnRevoke
  PROVE  ~Live(t)'
<1> SUFFICES ASSUME Live(t)' PROVE FALSE
  OBVIOUS
<1>1. ~(OnStartCommand /\ Head(toService) # "disconnect")
  BY DEF OnRevoke, OnStartCommand
<1>2. Live(t)
  BY <1>1, OnlyConnectBegins
<1>3. \A u \in Threads : thread[u].at \notin {"run", "provider", "establish", "device"}
  <2>1. \E w : mishaps' = mishaps \cup w /\ (Misses = {} \/ "early" \in w)
    BY DisconnectDoes, RevokeDoes DEF Misses
  <2>2. Misses = {}
    BY <2>1, UndisturbedBefore
  <2> QED  BY <2>2 DEF Misses
<1>4. thread[t].at = "serving" /\ currentIPP = t
  BY <1>2, <1>3 DEF Live, Kept
<1>5. Closed[t].closing = TRUE /\ Closed[t] \in Thread
  BY <1>4, ClosedIs
<1>6. CASE OnStartCommand /\ Head(toService) = "disconnect"
  BY <1>5, <1>6, DisconnectDoes DEF Live
<1>7. CASE OnRevoke
  <2>1. thread'[t] = [Closed[t] EXCEPT !.cut = TRUE]
    BY <1>4, <1>7, RevokeDoes DEF HasInterface
  <2>2. thread'[t].cut = TRUE
    BY <1>5, <2>1 DEF Thread
  <2> QED  BY <2>2 DEF Live
<1> QED  BY <1>6, <1>7

LEMMA LiveRuns == \A t \in Threads : Live(t) => Running(t)
  BY DEF Live, Running

LEMMA KeptStep ==
  VpnTypes /\ SoloOK /\ Kept /\ [Next]_vars /\ Undisturbed' => Kept'
<1> SUFFICES ASSUME VpnTypes, SoloOK, Kept, [Next]_vars, Undisturbed' PROVE Kept'
  OBVIOUS
<1>0. /\ toService \in Seq(Commands) /\ First(toService)
      /\ \A t, u \in Threads : Running(t) /\ Running(u) => t = u
      /\ Connecting => \A t \in Threads : ~Running(t)
  BY UndisturbedBefore DEF VpnTypes, SoloOK
<1>1. \A t \in Threads : Finally(t) => thread[t].at = "finally" /\ Running(t)
  BY DEF Finally, Running
<1>2. ASSUME Connecting' PROVE service'.started
  <2>1. ~OnStartCommand
    BY <1>0, <1>2, ConnectIsFirst
  <2>2. CASE \E s \in Switchers : StartVpnService(s)
    BY <2>2 DEF StartVpnService, VpnTypes, Service
  <2>3. CASE ~\E s \in Switchers : StartVpnService(s)
    <3>1. Has(Append(toService, "disconnect"), "connect") => Connecting
      BY <1>0, HasAppend DEF Commands, Connecting
    <3>2. Connecting
      BY <1>2, <2>1, <2>3, <3>1, QueueMoves, HasNone DEF Connecting
    <3>3. service.started /\ (\A t \in Threads : ~Running(t))
      BY <1>0, <3>2 DEF Kept
    <3>4. ~OnRevoke
      BY <3>3, RevokeDoes DEF HasInterface, Running
    <3> QED  BY <1>1, <2>1, <3>3, <3>4, StartedMoves
  <2> QED  BY <2>2, <2>3
<1>3. ASSUME NEW t \in Threads, Live(t)'
      PROVE  service'.started /\ ~thread'[t].dead /\ (thread'[t].at = "serving" => currentIPP' = t)
  <2>1. ~OnRevoke /\ ~(OnStartCommand /\ Head(toService) = "disconnect")
    BY <1>3, StopLeavesNone
  <2>2. CASE OnStartCommand
    <3>1. Connecting /\ Head(toService) # "disconnect"
      BY <1>0, <2>1, <2>2, ConnectIsFirst
    <3>2. service'.started
      BY <2>2, <3>1, ConnectDoes DEF Kept
    <3>3. ~Running(t)
      BY <1>0, <3>1
    <3>4. ThreadBegins(t)
      BY <1>3, <3>3, ThreadGoes DEF MovesOn, IsTold, Running, Live
    <3> QED  BY <3>2, <3>4 DEF ThreadBegins
  <2>3. CASE ~OnStartCommand
    <3>1. Live(t) /\ (thread'[t].dead = thread[t].dead \/ OnDestroy)
      BY <1>3, <2>3, OnlyConnectBegins
    <3>2. /\ service.started /\ ~thread[t].dead /\ Running(t)
          /\ thread[t].at = "serving" => currentIPP = t
      BY <3>1, LiveRuns DEF Kept
    <3>3. ~OnDestroy
      BY <3>2 DEF OnDestroy
    <3>4. \A u \in Threads : ~Finally(u)
      BY <1>0, <1>1, <3>1, <3>2 DEF Live
    <3>5. service'.started
      BY <2>3, <2>1, <3>2, <3>4, StartedMoves
    <3>6. ASSUME thread'[t].at = "serving" PROVE currentIPP' = t
      <4>1. CASE MovesOn(t)
        BY <3>6, <4>1 DEF MovesOn
      <4>2. CASE ~MovesOn(t)
        <5>1. thread[t].at = "serving"
          BY <2>3, <3>6, <4>2, ThreadGoes DEF ThreadBegins, IsTold
        <5>2. ~ProcessDies
          BY <3>6 DEF ProcessDies, NoRun
        <5>3. \A u \in Threads : ~Tun2Socks(u)
          BY <1>0, <3>2, <5>1 DEF Tun2Socks, Running
        <5> QED  BY <2>1, <2>3, <3>2, <3>3, <3>4, <5>1, <5>2, <5>3, DeviceMoves
      <4> QED  BY <4>1, <4>2
    <3> QED  BY <3>1, <3>2, <3>3, <3>5, <3>6
  <2> QED  BY <2>2, <2>3
<1> QED  BY <1>2, <1>3 DEF Kept

LEMMA DialogStep == VpnTypes /\ DialogOK /\ [Next]_vars => DialogOK'
<1> SUFFICES ASSUME VpnTypes, DialogOK, [Next]_vars, dialog' = "consent" PROVE ~granted'.consent
  BY DEF DialogOK
<1>1. ~OnActivityResult
  BY DEF OnActivityResult
<1>2. granted'.consent = granted.consent \/ ~granted'.consent
  BY <1>1, ConsentMoves
<1>3. CASE dialog' = dialog
  BY <1>2, <1>3 DEF DialogOK
<1>4. ASSUME NEW s \in Switchers, SwitchLanternOn(s), dialog' # dialog PROVE ~granted'.consent
  BY <1>4 DEF SwitchLanternOn
<1>5. CASE \/ Toggle \/ ConnectingDelay \/ OnResume \/ CheckVPNStatus
           \/ SetSplitTunneling \/ UpdateAppData
           \/ OnReceive \/ OnStartCommand \/ OnDestroy \/ OnRevoke \/ InitVpnModel \/ StartAnswered
           \/ UNCHANGED vars
  BY <1>3, <1>5 DEF Toggle, ConnectingDelay, OnResume, CheckVPNStatus, SetSplitTunneling,
              UpdateAppData, OnReceive, OnStartCommand, OnDestroy, OnRevoke, InitVpnModel,
              StartAnswered, vars, appSide
<1>6. ASSUME NEW s \in Switchers, SwitchVPN(s) \/ SwitchLanternOff(s)
                                  \/ UpdateStatus(s) \/ StartVpnService(s)
      PROVE  dialog' = dialog
  BY <1>6 DEF SwitchVPN, SwitchLanternOff, UpdateStatus, StartVpnService
<1>7. ASSUME NEW t \in Threads, ThreadStep(t) PROVE dialog' = dialog
  BY <1>7 DEF ThreadStep, CheckStarted, GetOrInitProvider, CreateBuilder, Tun2Socks,
              Tun2SocksReturns, DeviceFails, Finally, appSide
<1>8. ~ProcessDies /\ ~OnRequestPermissionsResult
  BY DEF ProcessDies, OnRequestPermissionsResult
<1> QED  BY VpnSteps, <1>1, <1>3, <1>4, <1>5, <1>6, <1>7, <1>8 DEF AppStep

LEMMA InterfaceStep == VpnTypes /\ InterfaceOK /\ [Next]_vars => InterfaceOK'
<1> SUFFICES ASSUME VpnTypes, InterfaceOK, [Next]_vars, NEW t \in Threads,
                    HasInterface(t)', ~thread'[t].cut
             PROVE  granted'.consent
  BY DEF InterfaceOK
<1>1. CASE MovesOn(t)
  <2>1. granted' = granted
    BY <1>1 DEF MovesOn, ThreadStep, CheckStarted, GetOrInitProvider, CreateBuilder, Tun2Socks,
                Tun2SocksReturns, DeviceFails, Finally, appSide
  <2> QED  BY <1>1, <2>1 DEF MovesOn, InterfaceOK, HasInterface
<1>2. CASE IsTold(t)
  <2>1. HasInterface(t) /\ ~thread[t].cut
    BY <1>2 DEF IsTold, HasInterface
  <2>2. ~OnRevoke
    <3>1. ASSUME OnRevoke PROVE thread'[t] = [Closed[t] EXCEPT !.cut = TRUE]
      BY <2>1, <3>1, RevokeDoes
    <3>2. Closed[t] \in Thread
      BY ClosedIs
    <3> QED  BY <3>1, <3>2 DEF Thread
  <2> QED  BY <2>1, <2>2, ConsentMoves DEF InterfaceOK
<1> QED  BY <1>1, <1>2, ThreadGoes DEF ThreadBegins, HasInterface

\* Without a new consent or a new connect, a way to a device without a stop was
\* there before.
LEMMA WayGoes ==
  ASSUME VpnTypes, SoloOK, Kept, [Next]_vars, Undisturbed', Way', ~StopComes',
         granted.consent, ~\E s \in Switchers : StartVpnService(s)
  PROVE  Way /\ ~StopComes
<1>0. /\ toService \in Seq(Commands) /\ First(toService) /\ broadcasts \in Nat
      /\ "disconnect" \in Commands
  BY UndisturbedBefore DEF VpnTypes, SoloOK, Commands
<1>1. Way
  <2>1. CASE Connecting'
    <3>1. Has(Append(toService, "disconnect"), "connect") => Connecting
      BY <1>0, HasAppend DEF Connecting, Commands
    <3>2. Connecting
      BY <1>0, <2>1, <3>1, QueueMoves, HasNone, ConnectIsFirst DEF Connecting
    <3> QED  BY <3>2 DEF Way
  <2>2. ASSUME NEW t \in Threads, Live(t)' PROVE Connecting \/ Live(t)
    <3>1. CASE OnStartCommand /\ Head(toService) # "disconnect"
      BY <1>0, <3>1, ConnectIsFirst
    <3>2. CASE ~(OnStartCommand /\ Head(toService) # "disconnect")
      BY <2>2, <3>2, OnlyConnectBegins
    <3> QED  BY <3>1, <3>2
  <2> QED  BY <2>1, <2>2 DEF Way
<1>2. service.started
  BY <1>1 DEF Way, Kept
<1>3. Kept'
  BY KeptStep
<1>4. ~ProcessDies
  <2>1. ASSUME ProcessDies PROVE ~Connecting' /\ \A t \in Threads : ~Live(t)'
    BY <2>1, HasNone DEF ProcessDies, Connecting, Live, NoRun
  <2> QED  BY <2>1 DEF Way
<1>5. ~OnReceive
  <2>1. ASSUME OnReceive PROVE Disconnecting'
    <3>1. toService' = Append(toService, "disconnect")
      BY <1>2, <2>1 DEF OnReceive
    <3>2. Has(Append(toService, "disconnect"), "disconnect")
      BY <1>0, HasAppend
    <3> QED  BY <3>1, <3>2 DEF Disconnecting
  <2> QED  BY <2>1 DEF StopComes
<1>6. ~(broadcasts > 0)
  BY <1>0, <1>4, <1>5, QueueMoves DEF StopComes
<1>7. ~Disconnecting
  <2>1. CASE OnStartCommand
    <3>1. Head(toService) # "disconnect"
      <4>1. ASSUME Head(toService) = "disconnect" PROVE ~service'.started
        BY <2>1, <4>1, DisconnectDoes
      <4>2. service'.started
        BY <1>3 DEF Kept, Way
      <4> QED  BY <4>1, <4>2
    <3> QED  BY <1>0, <2>1, <3>1, ConnectIsFirst DEF StopComes
  <2>2. CASE ~OnStartCommand
    <3>1. toService' = toService
      BY <1>4, <1>5, <2>2, QueueMoves
    <3> QED  BY <3>1 DEF StopComes, Disconnecting
  <2> QED  BY <2>1, <2>2
<1> QED  BY <1>1, <1>6, <1>7 DEF StopComes

LEMMA StartsStep ==
  /\ VpnTypes /\ SwitchOK /\ DialogOK /\ OneSwitches /\ Starts /\ [Next]_vars /\ Undisturbed'
  => Starts'
<1> SUFFICES ASSUME VpnTypes, SwitchOK, DialogOK, OneSwitches, Starts, [Next]_vars, Undisturbed',
                    NEW s \in Switchers, switch'[s].at = "start", status' = "disconnected",
                    granted'.consent
             PROVE  FALSE
  BY DEF Starts
<1>1. granted.consent
  BY ConsentMoves
<1>2. switch'[s] = switch[s]
  BY SwitchGoes DEF Before
<1>3. status # "disconnected"
  BY <1>1, <1>2 DEF Starts
<1>4. ASSUME NEW r \in Switchers, UpdateStatus(r) PROVE FALSE
  <2>1. switch[r].at = "status" /\ switch[s].at = "start"
    BY <1>2, <1>4 DEF UpdateStatus
  <2> QED  BY <2>1 DEF OneSwitches, Beyond, Switchers
<1> QED  BY <1>1, <1>3, <1>4, StatusMoves DEF DialogOK

LEMMA StopsStep ==
  /\ VpnTypes /\ SwitchOK /\ SoloOK /\ OneSwitches /\ Kept /\ Stops /\ [Next]_vars /\ Undisturbed'
  => Stops'
<1> SUFFICES ASSUME VpnTypes, SwitchOK, SoloOK, OneSwitches, Kept, Stops, [Next]_vars,
                    Undisturbed', NEW s \in Switchers, switch'[s].at = "status",
                    ~switch'[s].on, Way', ~StopComes'
             PROVE  FALSE
  BY DEF Stops
<1>1. ~SwitchLanternOff(s)
  BY DEF SwitchLanternOff, StopComes, VpnTypes
<1>2. switch'[s] = switch[s]
  <2>1. ASSUME switch'[s].at = IF switch'[s].on THEN "on" ELSE "off" PROVE FALSE
    BY <2>1
  <2> QED  BY <1>1, <2>1, SwitchGoes DEF Before
<1>3. granted.consent
  <2>1. ASSUME ~granted.consent PROVE FALSE
    <3>1. /\ switch'["switch"].at = "start" /\ switch'["resume"] = switch["resume"]
          /\ mishaps' = mishaps \cup Crossed("switch")
      BY <2>1, ConsentMoves DEF Way
    <3>2. "crossed" \notin Crossed("switch")
      BY <3>1, UndisturbedBefore
    <3>3. switch["resume"].at \in {"idle", "delay", "check"}
      BY <3>2, NobodyElse DEF Switchers
    <3> QED  BY <3>1, <3>3 DEF Switchers
  <2> QED  BY <2>1
<1>4. ASSUME NEW r \in Switchers, StartVpnService(r) PROVE FALSE
  <2>1. switch[r].at = "start" /\ switch[s].at = "status"
    BY <1>2, <1>4 DEF StartVpnService
  <2> QED  BY <2>1 DEF OneSwitches, Beyond, Switchers
<1> QED  BY <1>2, <1>3, <1>4, WayGoes DEF Stops

LEMMA HiddenStep ==
  /\ VpnTypes /\ SoloOK /\ DialogOK /\ Kept /\ Starts /\ Stops /\ Hidden
  /\ [Next]_vars /\ Undisturbed'
  => Hidden'
<1> SUFFICES ASSUME VpnTypes, SoloOK, DialogOK, Kept, Starts, Stops, Hidden, [Next]_vars,
                    Undisturbed', status' = "disconnected", Way', ~StopComes'
             PROVE  FALSE
  BY DEF Hidden
<1>1. granted.consent /\ granted'.consent
  BY ConsentMoves DEF Way
<1>2. CASE status' = status
  <2>1. ASSUME NEW s \in Switchers, StartVpnService(s) PROVE FALSE
    BY <1>1, <1>2, <2>1 DEF StartVpnService, Starts
  <2> QED  BY <1>1, <1>2, <2>1, WayGoes DEF Hidden
<1>3. ASSUME NEW s \in Switchers, UpdateStatus(s) PROVE FALSE
  <2>1. /\ switch[s].at = "status" /\ ~switch[s].on
        /\ UNCHANGED <<granted, toService, broadcasts, thread>>
    BY <1>3 DEF UpdateStatus, serviceSide
  <2>2. Way /\ ~StopComes
    BY <2>1 DEF Way, StopComes, Connecting, Disconnecting, Live
  <2> QED  BY <2>1, <2>2 DEF Stops
<1> QED  BY <1>1, <1>2, <1>3, StatusMoves DEF DialogOK

LEMMA OffStep ==
  VpnTypes /\ SwitchOK /\ SoloOK /\ DialogOK /\ OffOK /\ [Next]_vars => OffOK'
<1> SUFFICES ASSUME VpnTypes, SwitchOK, SoloOK, DialogOK, OffOK, [Next]_vars, Undisturbed'
             PROVE  (OneSwitches /\ Kept /\ Starts /\ Stops /\ Hidden)'
  BY DEF OffOK
<1>1. OneSwitches /\ Kept /\ Starts /\ Stops /\ Hidden
  BY UndisturbedBefore DEF OffOK
<1> QED  BY <1>1, OneSwitchesStep, KeptStep, StartsStep, StopsStep, HiddenStep

-----------------------------------------------------------------------------
(***************************************************************************)
(* The inductive invariant of the VPN service.                             *)
(***************************************************************************)
VpnInv ==
  /\ VpnTypes /\ InstanceOK /\ SplitOK /\ SwitchOK /\ SoloOK
  /\ ConnectedOK /\ DialogOK /\ InterfaceOK /\ OffOK

LEMMA VpnStarts == Init => VpnInv
<1> SUFFICES ASSUME Init PROVE VpnInv
  OBVIOUS
<1>1. /\ process = "down" /\ mishaps = {} /\ status = "disconnected" /\ split = 1
      /\ dialog = "none" /\ broadcasts = 0 /\ toService = << >> /\ service = NoInstance
      /\ switch = [s \in Switchers |-> NotSwitching]
      /\ thread = [t \in Threads |-> NoRun] /\ currentIPP = NoThread
      /\ granted \in Granted
  BY DEF Init, ProcessInit, Granted
<1>2. NotSwitching \in Switching /\ NoInstance \in Service
  BY DEF NotSwitching, Switching, SwitchAt, NoInstance, Service
<1>3. VpnTypes
  <2>1. split \in Nat /\ broadcasts \in Nat /\ toService \in Seq(Commands)
    BY <1>1
  <2>2. switch \in [Switchers -> Switching] /\ thread \in [Threads -> Thread]
    BY <1>1, <1>2, RunsAreThreads
  <2> QED  BY <1>1, <1>2, <2>1, <2>2 DEF VpnTypes
<1>4. /\ \A t \in Threads : thread[t] = NoRun
      /\ \A t \in Threads : ~Running(t) /\ ~HasInterface(t) /\ ~Live(t)
  BY <1>1 DEF Running, HasInterface, Live, NoRun
<1>5. /\ ~service.exists /\ service.provider = 0
      /\ \A s \in Switchers : switch[s].at = "idle"
  BY <1>1 DEF NoInstance, NotSwitching
<1>6. ~Connecting /\ ~Disconnecting /\ First(toService)
  <2>1. First(<< >>)
    BY FirstIs DEF First
  <2> QED  BY <1>1, <2>1, HasNone DEF Connecting, Disconnecting
<1>7. InstanceOK
  BY <1>4, <1>5 DEF InstanceOK
<1>8. SplitOK
  <2>1. \A t \in Threads : thread[t].least = 0 /\ thread[t].split = 0
    BY <1>4 DEF NoRun
  <2> QED  BY <1>1, <1>4, <1>5, <2>1 DEF SplitOK, SplitOf
<1>9. SwitchOK /\ SoloOK
  BY <1>4, <1>5, <1>6 DEF SwitchOK, SoloOK
<1>10. ConnectedOK
  BY <1>1, <1>4, <1>5, <1>6 DEF ConnectedOK, Ready, Asked, Allowed, Shown
<1>11. DialogOK /\ InterfaceOK
  BY <1>1, <1>4 DEF DialogOK, InterfaceOK
<1>12. OffOK
  <2>1. ~Beyond("switch")
    BY <1>5 DEF Beyond, Switchers
  <2>2. ~Way
    BY <1>4, <1>6 DEF Way
  <2> QED  BY <1>4, <1>5, <1>6, <2>1, <2>2 DEF OffOK, OneSwitches, Kept, Starts, Stops, Hidden
<1> QED  BY <1>3, <1>7, <1>8, <1>9, <1>10, <1>11, <1>12 DEF VpnInv

LEMMA VpnKeeps == VpnInv /\ [Next]_vars => VpnInv'
  BY VpnTypesStep, InstanceStep, SplitStep, SwitchOKStep, SoloStep, ConnectedStep, DialogStep,
     InterfaceStep, OffStep DEF VpnInv

LEMMA VpnAlways == Spec => []VpnInv
  BY VpnStarts, VpnKeeps, PTL DEF Spec

\* The split tunnelling setting of a device is that of its connect or a later
\* one, unless the service outlived the last connection (the provider that
\* LanternVpnService.kt keeps): for any number of threads and of what the user
\* and the system do.
THEOREM SplitIsApplied == Spec => []SplitApplied
<1>1. VpnInv => SplitApplied
  BY DEF VpnInv, SplitOK, SplitOf, SplitApplied, HasInterface
<1> QED  BY <1>1, VpnAlways, PTL

\* Once all is quiet a status "connected" is a device that serves, unless what
\* the property excepts has happened: the last thread's end stopped the new
\* service (LanternVpnService.kt), or the device ended by itself.
THEOREM ConnectedIsTrue == Spec => []ConnectedMeansDevice
<1>1. VpnInv => ConnectedMeansDevice
  <2> SUFFICES ASSUME VpnInv, Quiet, status = "connected", Unharmed PROVE DeviceRuns
    BY DEF ConnectedMeansDevice, Unharmed
  <2>1. \A s \in Switchers : switch[s].at = "idle"
    BY DEF Quiet
  <2>2. ~Connecting
    BY HasNone DEF Quiet, Connecting
  <2>3. PICK t \in Threads : Comes(t)
    BY <2>1, <2>2 DEF VpnInv, ConnectedOK, Shown
  <2>4. thread[t].at = "serving" /\ ~thread[t].closing /\ ~thread[t].cut
    BY <2>3 DEF Comes, Live, Quiet
  <2> QED  BY <2>4 DEF DeviceRuns
<1> QED  BY <1>1, VpnAlways, PTL

\* Once all is quiet a status "disconnected" is no device and no thread that may
\* yet make one, unless a stop came too early for the device (tun.go), a thread
\* stopped the service switched on again, or the check on resume switched on
\* meanwhile.
THEOREM OffIsTrue == Spec => []OffMeansOff
<1>1. VpnInv => OffMeansOff
  <2> SUFFICES ASSUME VpnInv, Quiet, status = "disconnected", Undisturbed,
                      NEW t \in Threads, Running(t)
               PROVE  FALSE
    BY DEF OffMeansOff, Undisturbed
  <2>1. Live(t) /\ HasInterface(t) /\ ~thread[t].cut
    BY DEF Quiet, Running, Live, HasInterface
  <2>2. Way
    BY <2>1 DEF VpnInv, InterfaceOK, Way
  <2>3. ~StopComes
    BY HasNone DEF Quiet, StopComes, Disconnecting
  <2> QED  BY <2>2, <2>3 DEF VpnInv, OffOK, Hidden
<1> QED  BY <1>1, VpnAlways, PTL
=============================================================================
