---------------------------- MODULE Desktop_proof ----------------------------
(* Safety of the desktop settings, for any number of setters, identities,  *)
(* settings per message and crashes; and of the desktop account, for any   *)
(* number of addresses, calls, users, salts, announcements and starts.     *)
(* The account's part begins at "The account".                             *)
EXTENDS Settings, DesktopAccount, FiniteSetTheorems, SequenceTheorems, TLAPS

(***************************************************************************)
(* The strengthening.  Every map there is, in memory, on its way to the    *)
(* file or to the UI, or in the file, holds a user with its token.         *)
(***************************************************************************)
Whole == {s \in Map : s["userID"] = s["userToken"]}

MapsWhole ==
  /\ m \in Whole /\ ui \in Whole /\ hello \in Whole
  /\ snap \in [Setters -> Whole]
  /\ file.vals \in Whole

(***************************************************************************)
(* While GetInt64Eventually blocks with nothing to return and there is a   *)
(* user, some setter of a user has yet to call its notifier; who has names *)
(* to notify is not done.                                                  *)
(***************************************************************************)
InSetter == {"create", "snapshot", "write", "notify", "uiMap", "send"}

SettersOK ==
  /\ pc \in [Setters -> InSetter \cup {"idle", "read", "finalSend"}]
  /\ todo \in [Setters -> SUBSET Names]
  /\ setting \in [Setters -> Map]
  /\ \A t \in Setters : todo[t] # {} => pc[t] \in InSetter

UserIsComing ==
  waiter = "blocked" /\ nval = None /\ m["userID"] # 0 =>
    \E t \in Setters : "userID" \in todo[t]

(***************************************************************************)
(* As long as nothing has overlapped: one setter at a time, and then no    *)
(* start of the service and no greeting; before it writes, the file is     *)
(* empty; what it has copied is what memory holds; it has yet to notify    *)
(* the names whose listeners are behind, and to send what the window lacks.*)
(***************************************************************************)
OneAtATime ==
  /\ \A t, u \in Setters : pc[t] # "idle" /\ pc[u] # "idle" => t = u
  /\ \A t \in Setters : pc[t] # "idle" => service # "registered" /\ window # "greeting"

FileFollows ==
  /\ file.kind # "garbage"
  /\ \A t \in Setters : pc[t] \in {"snapshot", "write"} => file = Empty
  /\ (\A t \in Setters : pc[t] \notin {"create", "snapshot", "write"}) => file.vals = m

CopiesAreCurrent ==
  /\ \A t \in Setters : pc[t] \in {"write", "send", "finalSend"} => snap[t] = m
  /\ window = "greeting" => hello = m

ListenersFollow ==
  /\ \A t \in Setters : \A n \in todo[t] : setting[t][n] = m[n]
  /\ \A n \in Names : listener[n] = m[n] \/ \E t \in Setters : n \in todo[t]

WindowFollows == window = "greeted" => ui = m \/ \E t \in Setters : pc[t] \in InSetter

Followed == OneAtATime /\ FileFollows /\ CopiesAreCurrent /\ ListenersFollow /\ WindowFollows

Alike ==
  /\ listener \in Map /\ (service = "none" => window = "none")
  /\ service \in {"none", "registered", "started"}
  /\ window \in {"none", "greeting", "greeted"}
  /\ ~overlap => Followed

IInv == MapsWhole /\ SettersOK /\ UserIsComing /\ Alike

-----------------------------------------------------------------------------
(* The maps.                                                               *)

LEMMA DefaultIsWhole == Default \in Whole /\ Default \in Map
  BY DEF Default, Whole, Map, Names

LEMMA UserIsNat == ASSUME NEW s \in Map PROVE s["userID"] \in Nat
<1>1. {0} \cup Users \cup Values \subseteq Nat
  BY SettingsAssumption DEF SettingsAssumption
<1>2. s["userID"] \in {0} \cup Users \cup Values
  BY DEF Map, Names
<1> QED BY <1>1, <1>2

\* A setter's argument keeps maps whole, and only one with a user changes the user.
LEMMA UpdateKeepsWhole ==
  ASSUME NEW s \in Whole, NEW t \in Setters, NEW u \in Update(t)
  PROVE  /\ With(u, s) \in Whole /\ With(u, Default) \in Map /\ DOMAIN u \subseteq Names
         /\ "userID" \in DOMAIN u \/ With(u, s)["userID"] = s["userID"]
<1> USE DEF Whole, Map, Names, Default, With
<1>1. CASE u \in Single
  BY <1>1 DEF Single
<1>2. CASE u \in Identity
  BY <1>2 DEF Identity
<1> QED BY <1>1, <1>2 DEF Update

LEMMA MapsStep == IInv /\ [Next]_vars => MapsWhole'
<1> SUFFICES ASSUME MapsWhole, [Next]_vars PROVE MapsWhole'
  BY DEF IInv
<1> USE DefaultIsWhole DEF MapsWhole
<1>1. ASSUME NEW t \in Setters, SetVals(t) PROVE MapsWhole'
  BY <1>1, UpdateKeepsWhole DEF SetVals, channel
<1>2. ASSUME NEW t \in Setters, SaveCreate(t) PROVE MapsWhole'
  BY <1>2 DEF SaveCreate, channel, Empty
<1>3. ASSUME NEW t \in Setters, SaveWrite(t) PROVE MapsWhole'
  BY <1>3 DEF SaveWrite, channel, Garbage, Yaml
<1>4. ASSUME NEW t \in Setters, SaveSnapshot(t) \/ NotifyUIMap(t) \/ ReadUIMap(t) PROVE MapsWhole'
  BY <1>4 DEF SaveSnapshot, NotifyUIMap, ReadUIMap, channel
<1>5. ASSUME NEW t \in Setters, Notify(t) \/ ReadMessage(t) PROVE MapsWhole'
  BY <1>5 DEF Notify, ReadMessage, channel
<1>6. ASSUME NEW t \in Setters, NotifySend(t) \/ ReadSend(t) PROVE MapsWhole'
  BY <1>6 DEF NotifySend, ReadSend, Send, channel
<1>7. CASE Register \/ Start \/ WaitRegister \/ WaitRead \/ WaitReturn
  BY <1>7 DEF Register, Start, WaitRegister, WaitRead, WaitReturn, channel
<1>8. CASE Hello \/ Greeted
  BY <1>8 DEF Hello, Greeted
<1>9. CASE Restart
  BY <1>9 DEF Restart, Fresh, Loads
<1>10. CASE UNCHANGED vars
  BY <1>10 DEF vars, channel
<1> QED BY <1>1, <1>2, <1>3, <1>4, <1>5, <1>6, <1>7, <1>8, <1>9, <1>10 DEF Next

-----------------------------------------------------------------------------
(* The setters and the wait for a user.                                    *)

LEMMA SettersStep == IInv /\ [Next]_vars => SettersOK'
<1> SUFFICES ASSUME MapsWhole, SettersOK, [Next]_vars PROVE SettersOK'
  BY DEF IInv
<1> USE DEF SettersOK, InSetter
<1>1. ASSUME NEW t \in Setters, SetVals(t) PROVE SettersOK'
  <2>1. PICK u \in Update(t) : /\ setting' = [setting EXCEPT ![t] = With(u, Default)]
                               /\ todo' = [todo EXCEPT ![t] = DOMAIN u]
                               /\ pc' = [pc EXCEPT ![t] = "create"]
    BY <1>1 DEF SetVals
  <2>2. With(u, Default) \in Map /\ DOMAIN u \subseteq Names
    BY UpdateKeepsWhole, DefaultIsWhole
  <2> QED BY <2>1, <2>2
<1>2. ASSUME NEW t \in Setters,
             SaveCreate(t) \/ SaveSnapshot(t) \/ SaveWrite(t) \/ NotifyUIMap(t)
      PROVE  SettersOK'
  BY <1>2 DEF SaveCreate, SaveSnapshot, SaveWrite, NotifyUIMap
<1>3. ASSUME NEW t \in Setters, Notify(t) \/ NotifySend(t) PROVE SettersOK'
  <2>1. UNCHANGED setting /\ \E n \in Names : todo' \in {todo, [todo EXCEPT ![t] = @ \ {n}]}
    BY <1>3 DEF Notify, NotifySend, Names
  <2>2. todo' \in [Setters -> SUBSET Names]
    BY <2>1
  <2>3. \E p \in {"uiMap", Returned(t)} : pc' = [pc EXCEPT ![t] = p]
    BY <1>3 DEF Notify, NotifySend
  <2>4. Returned(t) \in {"notify", "idle", "read"} /\ (todo'[t] # {} => Returned(t) = "notify")
    BY DEF Returned
  <2>5. \A u \in Setters \ {t} : todo'[u] = todo[u] /\ pc'[u] = pc[u]
    BY <2>1, <2>3
  <2>6. pc'[t] \in {"uiMap", Returned(t)}
    BY <2>3
  <2> QED BY <2>1, <2>2, <2>3, <2>4, <2>5, <2>6
<1>4. ASSUME NEW t \in Setters, ReadMessage(t) \/ ReadUIMap(t) \/ ReadSend(t) PROVE SettersOK'
  BY <1>4 DEF ReadMessage, ReadUIMap, ReadSend
<1>5. CASE Register \/ Start \/ Hello \/ Greeted \/ WaitRegister \/ WaitRead \/ WaitReturn
  BY <1>5 DEF Register, Start, Hello, Greeted, WaitRegister, WaitRead, WaitReturn
<1>6. CASE Restart
  BY <1>6, DefaultIsWhole DEF Restart, Fresh
<1>7. CASE UNCHANGED vars
  BY <1>7 DEF vars
<1> QED BY <1>1, <1>2, <1>3, <1>4, <1>5, <1>6, <1>7 DEF Next

LEMMA UserStep == IInv /\ [Next]_vars => UserIsComing'
<1> SUFFICES ASSUME IInv, [Next]_vars PROVE UserIsComing'
  OBVIOUS
<1> USE DEF IInv, UserIsComing
<1>1. ASSUME NEW t \in Setters, SetVals(t) PROVE UserIsComing'
  <2>1. PICK u \in Update(t) : m' = With(u, m) /\ todo' = [todo EXCEPT ![t] = DOMAIN u]
    BY <1>1 DEF SetVals
  <2>2. UNCHANGED <<waiter, nval>>
    BY <1>1 DEF SetVals, waiting
  <2>3. todo[t] = {}
    BY <1>1 DEF SetVals, SettersOK, InSetter
  <2>4. "userID" \in DOMAIN u \/ m'["userID"] = m["userID"]
    BY <2>1, UpdateKeepsWhole DEF MapsWhole
  <2> QED BY <2>1, <2>2, <2>3, <2>4 DEF SettersOK
<1>2. ASSUME NEW t \in Setters, Notify(t) PROVE UserIsComing'
  <2>1. PICK n \in todo[t] :
          /\ todo' = [todo EXCEPT ![t] = @ \ {n}]
          /\ nval' = IF n = "userID" /\ waiter \in {"registered", "blocked"}
                     THEN setting[t][n] ELSE nval
    BY <1>2 DEF Notify
  <2>2. UNCHANGED <<m, waiter>>
    BY <1>2 DEF Notify
  <2>3. setting[t]["userID"] # None
    BY SettingsAssumption DEF SettingsAssumption, SettersOK, Map, Names, None
  <2> QED BY <2>1, <2>2, <2>3 DEF SettersOK
<1>3. CASE WaitRead
  <2>1. m["userID"] \in Nat
    BY UserIsNat DEF MapsWhole, Whole
  <2> QED BY <1>3, <2>1 DEF WaitRead, GetInt64
<1>4. CASE WaitRegister \/ WaitReturn
  BY <1>4 DEF WaitRegister, WaitReturn
<1>5. CASE UNCHANGED <<m, todo, waiter, nval>>
  BY <1>5
<1>6. ASSUME NEW t \in Setters,
             \/ SaveCreate(t) \/ SaveSnapshot(t) \/ SaveWrite(t) \/ NotifyUIMap(t)
             \/ NotifySend(t) \/ ReadMessage(t) \/ ReadUIMap(t) \/ ReadSend(t)
      PROVE  UserIsComing'
  BY <1>5, <1>6 DEF SaveCreate, SaveSnapshot, SaveWrite, NotifyUIMap, NotifySend, ReadMessage,
     ReadUIMap, ReadSend, waiting
<1>7. CASE Register \/ Start \/ Hello \/ Greeted
  BY <1>5, <1>7 DEF Register, Start, Hello, Greeted, waiting
<1>8. CASE Restart
  BY <1>8 DEF Restart, Fresh
<1>9. CASE UNCHANGED vars
  BY <1>5, <1>9 DEF vars, waiting
<1> QED BY <1>1, <1>2, <1>3, <1>4, <1>6, <1>7, <1>8, <1>9 DEF Next

-----------------------------------------------------------------------------
(* What one setter after the other leaves.                                 *)

LEMMA SizeIsNat == ASSUME NEW s \in Map PROVE Size(s) \in Nat
<1>1. IsFiniteSet(Names)
  <2>1. IsFiniteSet({"userID"})
    BY FS_Singleton
  <2>2. IsFiniteSet({"userID"} \cup {"userToken"})
    BY <2>1, FS_AddElement
  <2>3. IsFiniteSet(({"userID"} \cup {"userToken"}) \cup {"other"})
    BY <2>2, FS_AddElement
  <2>4. Names = ({"userID"} \cup {"userToken"}) \cup {"other"}
    BY DEF Names
  <2> QED BY <2>3, <2>4
<1>2. IsFiniteSet({n \in Names : s[n] # 0})
  BY <1>1, FS_Subset
<1> QED BY <1>2, FS_CardinalityType DEF Size

LEMMA SetValsFollows ==
  ASSUME MapsWhole, SettersOK, Alike, NEW t \in Setters, SetVals(t) PROVE Alike'
<1>1. PICK u \in Update(t) :
        /\ m' = With(u, m) /\ todo' = [todo EXCEPT ![t] = DOMAIN u]
        /\ setting' = [setting EXCEPT ![t] = With(u, Default)]
  BY DEF SetVals
<1>2. /\ pc' = [pc EXCEPT ![t] = "create"] /\ overlap' = (overlap \/ ~Alone(t))
      /\ pc[t] \in {"idle", "read"}
      /\ UNCHANGED <<file, snap, listener, service, window, hello, ui>>
  BY DEF SetVals, channel
<1>3. DOMAIN u \subseteq Names
  BY UpdateKeepsWhole, DefaultIsWhole
<1>4. SUFFICES ASSUME ~overlap, Alone(t)
               PROVE  Followed'
  BY <1>2 DEF Alike, Followed
<1>5. pc'[t] = "create" /\ \A s \in Setters \ {t} : pc'[s] = "idle" /\ todo'[s] = {}
  BY <1>1, <1>2, <1>4 DEF Alone, SettersOK, InSetter
<1>6. OneAtATime' /\ CopiesAreCurrent'
  BY <1>2, <1>4, <1>5 DEF Alone, OneAtATime, CopiesAreCurrent
<1>7. FileFollows' /\ WindowFollows'
  BY <1>2, <1>4, <1>5 DEF Alike, Followed, FileFollows, WindowFollows, InSetter
<1>8. ListenersFollow'
  <2>1. \A n \in DOMAIN u : setting'[t][n] = m'[n]
    BY <1>1, <1>3 DEF With, SettersOK
  <2>2. \A n \in Names \ DOMAIN u : m'[n] = m[n]
    BY <1>1 DEF With
  <2>3. todo'[t] = DOMAIN u /\ \A s \in Setters : todo[s] = {}
    BY <1>1, <1>2, <1>4 DEF SettersOK, InSetter, Alone
  <2> QED BY <1>2, <1>4, <1>5, <2>1, <2>2, <2>3 DEF Alike, Followed, ListenersFollow
<1> QED BY <1>6, <1>7, <1>8 DEF Followed

\* While a setter goes on, nobody else is in one.
LEMMA OthersIdle ==
  ASSUME SettersOK, Alike, ~overlap, NEW t \in Setters, pc[t] # "idle"
  PROVE  /\ Followed /\ service # "registered" /\ window # "greeting"
         /\ \A s \in Setters \ {t} : pc[s] = "idle" /\ todo[s] = {}
<1>1. Followed
  BY DEF Alike
<1>2. \A s \in Setters \ {t} : pc[s] = "idle"
  BY <1>1 DEF Followed, OneAtATime
<1> QED BY <1>1, <1>2 DEF Followed, OneAtATime, SettersOK, InSetter

\* A step of a setter that goes on.
LEMMA GoesOn ==
  ASSUME SettersOK, Alike, NEW t \in Setters, NEW p, pc' = [pc EXCEPT ![t] = p], pc[t] # "idle",
         UNCHANGED <<m, setting, service, window, hello, overlap>>, listener' \in Map,
         \A s \in Setters \ {t} : snap'[s] = snap[s] /\ todo'[s] = todo[s],
         Followed /\ ~overlap =>
            /\ p \in {"write", "send", "finalSend"} => snap'[t] = m
            /\ FileFollows' /\ ListenersFollow' /\ WindowFollows'
  PROVE  Alike'
<1>1. CASE overlap
  BY <1>1 DEF Alike
<1>2. CASE ~overlap
  <2>1. Followed /\ service # "registered" /\ window # "greeting"
        /\ \A s \in Setters \ {t} : pc[s] = "idle" /\ todo[s] = {}
    BY <1>2, OthersIdle
  <2>2. pc'[t] = p /\ \A s \in Setters \ {t} : pc'[s] = "idle"
    BY <2>1 DEF SettersOK
  <2>3. OneAtATime'
    BY <2>1, <2>2 DEF OneAtATime
  <2>4. CopiesAreCurrent'
    BY <1>2, <2>1, <2>2 DEF CopiesAreCurrent
  <2> QED BY <1>2, <2>1, <2>3, <2>4 DEF Alike, Followed
<1> QED BY <1>1, <1>2

LEMMA SaveFollows ==
  ASSUME MapsWhole, SettersOK, Alike, NEW t \in Setters,
         SaveCreate(t) \/ SaveSnapshot(t) \/ SaveWrite(t)
  PROVE  Alike'
<1>1. PICK p \in {"snapshot", "write", "notify"} :
        /\ pc' = [pc EXCEPT ![t] = p] /\ pc[t] \in {"create", "snapshot", "write"}
        /\ p = "snapshot" => pc[t] = "create" /\ file' = Empty /\ snap' = snap
        /\ p = "write" => pc[t] = "snapshot" /\ file' = file /\ snap' = [snap EXCEPT ![t] = m]
        /\ p = "notify" => /\ pc[t] = "write" /\ snap' = snap
                          /\ file' = IF file.size > Size(snap[t])
                                     THEN Garbage(snap[t], file.size) ELSE Yaml(snap[t])
  BY DEF SaveCreate, SaveSnapshot, SaveWrite
<1>2. UNCHANGED <<m, setting, service, window, hello, overlap, listener, todo, ui>>
  BY DEF SaveCreate, SaveSnapshot, SaveWrite, channel
<1>3. ASSUME Followed, ~overlap
      PROVE  /\ p \in {"write", "send", "finalSend"} => snap'[t] = m
             /\ FileFollows' /\ ListenersFollow' /\ WindowFollows'
  <2>1. \A s \in Setters \ {t} : pc[s] = "idle" /\ todo[s] = {}
    BY <1>1, <1>3, OthersIdle
  <2>2. pc'[t] = p /\ \A s \in Setters \ {t} : pc'[s] = "idle"
    BY <1>1, <2>1 DEF SettersOK
  <2>3. p = "write" => snap'[t] = m
    BY <1>1 DEF MapsWhole
  <2>4. ListenersFollow' /\ WindowFollows'
    BY <1>1, <1>2, <1>3, <2>2 DEF Followed, ListenersFollow, WindowFollows, InSetter
  <2>5. FileFollows'
    <3>1. CASE p = "snapshot"
      BY <1>1, <2>2, <3>1 DEF FileFollows, Empty
    <3>2. CASE p = "write"
      BY <1>1, <1>3, <2>2, <3>2 DEF Followed, FileFollows
    <3>3. CASE p = "notify"
      <4>1. file = Empty /\ snap[t] = m
        BY <1>1, <1>3, <3>3 DEF Followed, FileFollows, CopiesAreCurrent
      <4>2. ~(file.size > Size(snap[t]))
        <5>1. Size(m) \in Nat
          BY SizeIsNat DEF MapsWhole, Whole
        <5> QED BY <4>1, <5>1 DEF Empty
      <4>3. file' = Yaml(m)
        BY <1>1, <3>3, <4>1, <4>2
      <4> QED BY <1>2, <2>2, <3>3, <4>3 DEF FileFollows, Yaml
    <3> QED BY <3>1, <3>2, <3>3
  <2> QED BY <2>3, <2>4, <2>5
<1>4. \A s \in Setters \ {t} : snap'[s] = snap[s] /\ todo'[s] = todo[s]
  <2>1. snap' \in {snap, [snap EXCEPT ![t] = m]}
    BY <1>1
  <2> QED BY <1>2, <2>1 DEF MapsWhole
<1>5. listener' \in Map
  BY <1>2 DEF Alike
<1> QED BY <1>1, <1>2, <1>3, <1>4, <1>5, GoesOn

LEMMA CopyFollows ==
  ASSUME MapsWhole, SettersOK, Alike, NEW t \in Setters, NotifyUIMap(t) \/ ReadUIMap(t)
  PROVE  Alike'
<1>1. PICK p \in {"send", "finalSend"} :
        /\ pc' = [pc EXCEPT ![t] = p] /\ snap' = [snap EXCEPT ![t] = m]
        /\ \/ pc[t] = "uiMap" /\ p = "send"
           \/ pc[t] = "read" /\ p = "finalSend"
  BY DEF NotifyUIMap, ReadUIMap
<1>2. UNCHANGED <<m, file, setting, service, window, hello, overlap, listener, todo, ui>>
  BY DEF NotifyUIMap, ReadUIMap, channel
<1>3. ASSUME Followed, ~overlap
      PROVE  snap'[t] = m /\ FileFollows' /\ ListenersFollow' /\ WindowFollows'
  <2>1. \A s \in Setters \ {t} : pc[s] = "idle" /\ todo[s] = {}
    BY <1>1, <1>3, OthersIdle
  <2>2. pc'[t] = p /\ \A s \in Setters \ {t} : pc'[s] = "idle"
    BY <1>1, <2>1 DEF SettersOK
  <2>3. snap'[t] = m
    BY <1>1 DEF MapsWhole
  <2>4. ListenersFollow' /\ FileFollows'
    BY <1>1, <1>2, <1>3, <2>1, <2>2 DEF Followed, ListenersFollow, FileFollows
  <2>5. WindowFollows'
    BY <1>1, <1>2, <1>3, <2>1, <2>2 DEF Followed, WindowFollows, InSetter
  <2> QED BY <2>3, <2>4, <2>5
<1>4. \A s \in Setters \ {t} : snap'[s] = snap[s] /\ todo'[s] = todo[s]
  BY <1>1, <1>2
<1>5. listener' \in Map
  BY <1>2 DEF Alike
<1> QED BY <1>1, <1>2, <1>3, <1>4, <1>5, GoesOn

LEMMA SendFollows ==
  ASSUME MapsWhole, SettersOK, Alike, NEW t \in Setters, NotifySend(t) \/ ReadSend(t)
  PROVE  Alike'
<1>1. PICK p \in {"notify", "read", "idle"} :
        /\ pc' = [pc EXCEPT ![t] = p] /\ pc[t] \in {"send", "finalSend"}
        /\ ui' = IF window = "none" THEN ui ELSE snap[t]
  BY DEF NotifySend, ReadSend, Send, Returned
<1>2. UNCHANGED <<m, file, setting, service, window, hello, overlap, listener, todo, snap>>
  BY DEF NotifySend, ReadSend, channel
<1>3. ASSUME Followed, ~overlap PROVE FileFollows' /\ ListenersFollow' /\ WindowFollows'
  <2>1. \A s \in Setters \ {t} : pc[s] = "idle" /\ todo[s] = {}
    BY <1>1, <1>3, OthersIdle
  <2>2. pc'[t] = p /\ \A s \in Setters \ {t} : pc'[s] = "idle"
    BY <1>1, <2>1 DEF SettersOK
  <2>3. ListenersFollow' /\ FileFollows'
    BY <1>1, <1>2, <1>3, <2>1, <2>2 DEF Followed, ListenersFollow, FileFollows
  <2>4. snap[t] = m
    BY <1>1, <1>3 DEF Followed, CopiesAreCurrent
  <2>5. WindowFollows'
    BY <1>1, <1>2, <2>4 DEF WindowFollows
  <2> QED BY <2>3, <2>5
<1>4. listener' \in Map
  BY <1>2 DEF Alike
<1> QED BY <1>1, <1>2, <1>3, <1>4, GoesOn

LEMMA NotifyFollows ==
  ASSUME MapsWhole, SettersOK, Alike, NEW t \in Setters, Notify(t) PROVE Alike'
<1>1. PICK n \in todo[t] : /\ listener' = [listener EXCEPT ![n] = setting[t][n]]
                           /\ todo' = [todo EXCEPT ![t] = @ \ {n}]
  BY DEF Notify
<1>2. /\ pc[t] = "notify"
      /\ pc' = [pc EXCEPT ![t] = IF service = "started" THEN "uiMap" ELSE Returned(t)]
      /\ UNCHANGED <<m, file, setting, service, window, hello, overlap, snap, ui>>
  BY DEF Notify, channel
<1>3. n \in Names /\ setting[t] \in Map /\ todo'[t] = todo[t] \ {n}
  BY <1>1 DEF SettersOK
<1>4. listener' \in Map
  BY <1>1, <1>3 DEF Alike, Map
<1>5. Returned(t) \in {"notify", "read", "idle"}
  BY DEF Returned
<1> DEFINE p == IF service = "started" THEN "uiMap" ELSE Returned(t)
<1>6. ASSUME Followed, ~overlap PROVE FileFollows' /\ ListenersFollow' /\ WindowFollows'
  <2>1. /\ service # "registered"
        /\ \A s \in Setters \ {t} : pc[s] = "idle" /\ todo[s] = {}
    BY <1>2, <1>6, OthersIdle
  <2>2. pc'[t] = p /\ \A s \in Setters \ {t} : pc'[s] = "idle"
    BY <1>2, <2>1 DEF SettersOK
  <2>3. FileFollows'
    BY <1>2, <1>5, <1>6, <2>1, <2>2 DEF Followed, FileFollows
  <2>4. ListenersFollow'
    <3>1. setting[t][n] = m[n]
      BY <1>1, <1>6 DEF Followed, ListenersFollow
    <3>2. listener'[n] = m[n] /\ \A k \in Names \ {n} : listener'[k] = listener[k]
      BY <1>1, <1>3, <3>1 DEF Alike, Map
    <3>3. \A s \in Setters \ {t} : todo'[s] = todo[s]
      BY <1>1
    <3>4. \A s \in Setters : \A k \in todo'[s] : k \in todo[s]
      BY <1>3, <3>3
    <3>5. \A k \in Names \ {n} : listener[k] = m[k] \/ \E s \in Setters : k \in todo'[s]
      BY <1>3, <1>6, <3>3 DEF Followed, ListenersFollow
    <3> QED BY <1>2, <1>6, <3>2, <3>4, <3>5 DEF Followed, ListenersFollow
  <2>5. WindowFollows'
    <3>1. CASE service = "started"
      BY <2>2, <3>1 DEF WindowFollows, InSetter
    <3>2. CASE service # "started"
      BY <1>2, <2>1, <3>2 DEF Alike, WindowFollows
    <3> QED BY <3>1, <3>2
  <2> QED BY <2>3, <2>4, <2>5
<1>7. p \in {"uiMap", "notify", "read", "idle"}
  BY <1>5
<1>8. \A s \in Setters \ {t} : snap'[s] = snap[s] /\ todo'[s] = todo[s]
  BY <1>1, <1>2
<1> QED BY <1>2, <1>4, <1>6, <1>7, <1>8, GoesOn

LEMMA AlikeStep == IInv /\ [Next]_vars => Alike'
<1> SUFFICES ASSUME MapsWhole, SettersOK, Alike, [Next]_vars PROVE Alike'
  BY DEF IInv
<1>1. ASSUME NEW t \in Setters, ReadMessage(t) PROVE Alike'
  <2>1. /\ pc' = [pc EXCEPT ![t] = "read"] /\ overlap' = (overlap \/ ~Alone(t)) /\ pc[t] = "idle"
        /\ UNCHANGED <<m, file, todo, setting, snap, listener, service, window, hello, ui>>
    BY <1>1 DEF ReadMessage, channel
  <2>2. SUFFICES ASSUME ~overlap, Alone(t) PROVE Followed'
    BY <2>1 DEF Alike
  <2>3. pc'[t] = "read" /\ \A s \in Setters \ {t} : pc'[s] = "idle" /\ pc[s] = "idle"
    BY <2>1, <2>2 DEF Alone, SettersOK
  <2>4. Followed
    BY <2>2 DEF Alike
  <2>5. OneAtATime' /\ CopiesAreCurrent'
    BY <2>1, <2>2, <2>3, <2>4 DEF Alone, Followed, OneAtATime, CopiesAreCurrent
  <2>6. FileFollows' /\ ListenersFollow'
    BY <2>1, <2>3, <2>4 DEF Followed, FileFollows, ListenersFollow
  <2>7. WindowFollows'
    BY <2>1, <2>3, <2>4 DEF Followed, WindowFollows, InSetter
  <2> QED BY <2>5, <2>6, <2>7 DEF Followed
<1>2. CASE Register \/ Hello
  <2>1. /\ overlap' = (overlap \/ ~AtRest)
        /\ UNCHANGED <<m, file, pc, todo, setting, snap, listener, ui>>
        /\ \/ service = "none" /\ service' = "registered" /\ UNCHANGED <<window, hello>>
           \/ /\ service # "none" /\ UNCHANGED service
              /\ window = "none" /\ window' = "greeting" /\ hello' = m
    BY <1>2 DEF Register, Hello
  <2>2. ~overlap' => ~overlap /\ \A t \in Setters : pc[t] = "idle"
    BY <2>1 DEF AtRest
  <2>3. ~overlap' => Followed'
    BY <2>1, <2>2 DEF Alike, Followed, OneAtATime, FileFollows, CopiesAreCurrent,
       ListenersFollow, WindowFollows, InSetter
  <2> QED BY <2>1, <2>3 DEF Alike
<1>3. CASE Start \/ Greeted
  <2>1. /\ UNCHANGED <<m, file, pc, todo, setting, snap, listener, hello, overlap>>
        /\ \/ /\ service = "registered" /\ service' = "started" /\ UNCHANGED <<window, ui>>
           \/ /\ window = "greeting" /\ window' = "greeted" /\ ui' = hello /\ UNCHANGED service
    BY <1>3 DEF Start, Greeted
  <2>2. ~overlap => Followed'
    BY <2>1 DEF Alike, Followed, OneAtATime, FileFollows, CopiesAreCurrent,
       ListenersFollow, WindowFollows
  <2> QED BY <2>1, <2>2 DEF Alike
<1>4. CASE Restart
  <2>1. /\ UNCHANGED <<file, overlap>> /\ m' \in Loads(file) /\ listener' = m'
        /\ pc' = [t \in Setters |-> "idle"] /\ todo' = [t \in Setters |-> {}]
        /\ service' = "none" /\ window' = "none"
    BY <1>4 DEF Restart, Fresh
  <2>2. m' \in Map
    BY <2>1, DefaultIsWhole DEF MapsWhole, Whole, Loads
  <2>3. ~overlap => Followed'
    BY <2>1 DEF Alike, Followed, OneAtATime, FileFollows, CopiesAreCurrent, ListenersFollow,
       WindowFollows, Loads
  <2> QED BY <2>1, <2>2, <2>3 DEF Alike
<1>5. CASE UNCHANGED <<m, file, pc, todo, setting, snap, listener, service, window, hello, ui,
                       overlap>>
  BY <1>5 DEF Alike, Followed, OneAtATime, FileFollows, CopiesAreCurrent, ListenersFollow,
     WindowFollows
<1>6. CASE WaitRegister \/ WaitRead \/ WaitReturn \/ UNCHANGED vars
  BY <1>5, <1>6 DEF WaitRegister, WaitRead, WaitReturn, vars, channel
<1> QED
  BY <1>1, <1>2, <1>3, <1>4, <1>6, SetValsFollows, SaveFollows, CopyFollows, SendFollows,
     NotifyFollows DEF Next

-----------------------------------------------------------------------------
(* The theorems.                                                           *)

LEMMA Inductive == Spec => []IInv
<1>1. Init => IInv
  <2>1. Init => MapsWhole /\ SettersOK /\ UserIsComing
    BY DefaultIsWhole DEF Init, MapsWhole, SettersOK, UserIsComing, Empty, InSetter
  <2>2. Init => Alike
    BY DefaultIsWhole DEF Init, Alike, Followed, OneAtATime, FileFollows, CopiesAreCurrent,
       ListenersFollow, WindowFollows, Empty
  <2> QED BY <2>1, <2>2 DEF IInv
<1>2. IInv /\ [Next]_vars => IInv'
  BY MapsStep, SettersStep, UserStep, AlikeStep DEF IInv
<1> QED BY <1>1, <1>2, PTL DEF Spec

\* SetUserIDAndToken, mapToSave, uiMap: memory, the UI and whatever can be loaded from the file
\* hold a user with its own token, whatever setters overlap and wherever the process dies.
THEOREM IdentityStaysWhole == Spec => []IdentityNotTorn
<1>1. IInv => IdentityNotTorn
  BY DefaultIsWhole DEF IInv, MapsWhole, IdentityNotTorn, Whole, Loads
<1> QED BY Inductive, <1>1, PTL

\* GetInt64Eventually: while it blocks with nothing to return and no setter runs, there is no
\* user: it has not missed one between its registration, its look and its wait.
THEOREM NoUserIsMissed == Spec => []WaitMissesNoUser
<1>1. IInv => WaitMissesNoUser
  BY DEF IInv, UserIsComing, SettersOK, InSetter, WaitMissesNoUser
<1> QED BY Inductive, <1>1, PTL

\* setVals, saveDefault, LoadSettings, read, StartService: as long as setters, greetings and the
\* start of the service do not overlap, the file, the listeners and the window agree with memory
\* whenever nothing runs, over any number of crashes.
THEOREM SettingsAgree == Spec => []SynchronizedUnlessOverlapped
<1>1. IInv => SynchronizedUnlessOverlapped
  <2> SUFFICES ASSUME IInv, AtRest, ~overlap
               PROVE  /\ Loads(file) = {m} /\ listener = m
                      /\ window = "greeted" /\ service = "started" => ui = m
    BY DEF SynchronizedUnlessOverlapped
  <2>1. Followed /\ \A t \in Setters : pc[t] = "idle"
    BY DEF IInv, Alike, AtRest
  <2>2. Loads(file) = {m}
    BY <2>1 DEF Followed, FileFollows, Loads
  <2>3. listener = m
    <3>1. \A n \in Names : listener[n] = m[n]
      BY <2>1 DEF IInv, Followed, ListenersFollow, SettersOK, InSetter
    <3>2. listener \in Map /\ m \in Map
      BY DEF IInv, Alike, MapsWhole, Whole
    <3> QED BY <3>1, <3>2 DEF Map
  <2>4. window = "greeted" => ui = m
    BY <2>1 DEF Followed, WindowFollows, InSetter
  <2> QED BY <2>2, <2>3, <2>4
<1> QED BY Inductive, <1>1, PTL

-----------------------------------------------------------------------------
(* The account: what the calls, the servers and the session may be.        *)

Addresses == Emails \cup {NoEmail}

Identities == {[userID |-> u, token |-> u] : u \in 0..MaxUsers}

\* What a call may have to save, and what only a scan may.
Plain ==
  [salt : 0..MaxSalts] \cup [email : Addresses] \cup [pro : BOOLEAN] \cup [loggedIn : BOOLEAN]
  \cup [firstVisit : {TRUE}] \cup Identities
Record == [past : SUBSET Campaigns]
Transaction == Plain \cup Record

\* What an answer leaves is something to save.
Todo == Seq(Plain) \ {<< >>}

OfAccounts == {"signup", "login", "recover"}
Operation == OfAccounts \cup
  {"none", "delete", "logout", "validate", "update", "redeem", "refresh", "scan", "init", "retry"}
After == {"idle", "create", "store", "announce", "update", "ask"}
Place == After \cup {"write", "salt", "ident", "check", "key", "init"}

Cached == [id : 0..MaxUsers, pro : BOOLEAN]
Task == [op : Operation, at : Place, email : Addresses, key : 0..MaxUsers, uid : 0..MaxUsers,
         salt : 0..MaxSalts, data : Cached, todo : Seq(Transaction), next : After, wrote : BOOLEAN]

\* The details a call has are to be cached.
Stores(k) == k.at = "store" \/ (k.at = "write" /\ k.next = "store")

\* It has what it needs where it is, and is only where its operation goes.
Able(k) ==
  /\ k.at = "idle" => k = Idle
  /\ k.at = "write" <=> k.todo # << >>
  /\ \/ k.todo \in Seq(Plain)
     \/ k.op = "scan" /\ k.next = "idle" /\ \E tx \in Record : k.todo = <<tx>>
  /\ k.op \in OfAccounts => k.email \in Emails
  /\ Stores(k) \/ (k.op = "refresh" /\ k.at \in {"ident", "ask"}) => k.key # 0
  /\ k.op = "update" \/ k.at = "update" => k.wrote
  /\ k.at = "update" \/ k.next = "update" => k.op \in {"validate", "update"}
  /\ k.at = "announce" \/ k.next = "announce" => k.op = "scan"
  /\ k.next = "ask" => k.op = "retry"
  /\ k.op = "retry" => k.at \in {"write", "ask"} /\ k.next \in {"idle", "ask"}
  /\ k.at = "salt" => k.op \in {"login", "delete"}
  /\ k.at = "init" => k.next = "idle"

SessionOK ==
  /\ settings \in [userID : 0..MaxUsers, token : 0..MaxUsers, email : Addresses,
                   salt : 0..MaxSalts, loggedIn : BOOLEAN, pro : BOOLEAN, firstVisit : BOOLEAN,
                   past : SUBSET Campaigns]
  /\ settings.token = settings.userID

ServerOK ==
  server \in [account : [Emails -> {NoAccount} \cup [user : ProUsers, salt : 1..MaxSalts]],
              users : 1..MaxUsers, salts : 1..MaxSalts, pro : [ProUsers -> BOOLEAN],
              linked : SUBSET ProUsers, full : SUBSET ProUsers]

\* Details that say pro are those of a user the server knows as pro.
Known(d, srv) == d.pro => d.id # 0 /\ srv.pro[d.id]

CacheOK == cache \in [ProUsers -> Cached] /\ \A u \in ProUsers : Known(cache[u], server)

CallsOK ==
  /\ call \in [Calls -> Task]
  /\ \A c \in Calls : Able(call[c]) /\ Known(call[c].data, server)

OneScan == \A c, d \in Calls : call[c].op = "scan" /\ call[d].op = "scan" => c = d

DownIsIdle == ~up => \A c \in Calls : call[c] = Idle

AccountInv == SessionOK /\ ServerOK /\ CacheOK /\ CallsOK /\ OneScan /\ DownIsIdle

-----------------------------------------------------------------------------
(* What an answer leaves to be saved.                                      *)

LEMMA ZeroIs == 0 \in 0..MaxUsers /\ 0 \in 0..MaxSalts /\ NoEmail \in Addresses
                /\ 1 \in 1..MaxUsers /\ 1 \in 1..MaxSalts /\ ProUsers = 1..MaxUsers
                /\ ProUsers \subseteq 0..MaxUsers /\ 1..MaxSalts \subseteq 0..MaxSalts
                /\ NoEmail \notin Emails /\ 0 \notin ProUsers
  BY DesktopAccountAssumption DEF DesktopAccountAssumption, Addresses, ProUsers

LEMMA OnesAreTodo ==
  /\ \A n \in 0..MaxSalts : [salt |-> n] \in Plain
  /\ \A e \in Addresses : [email |-> e] \in Plain
  /\ \A b \in BOOLEAN : [pro |-> b] \in Plain /\ [loggedIn |-> b] \in Plain
  /\ [firstVisit |-> TRUE] \in Plain
  /\ \A u \in 0..MaxUsers : [userID |-> u, token |-> u] \in Plain
<1>1. \A n \in 0..MaxSalts : [salt |-> n] \in [salt : 0..MaxSalts]
  OBVIOUS
<1>2. \A e \in Addresses : [email |-> e] \in [email : Addresses]
  OBVIOUS
<1>3. \A b \in BOOLEAN : /\ [pro |-> b] \in [pro : BOOLEAN]
                        /\ [loggedIn |-> b] \in [loggedIn : BOOLEAN]
  OBVIOUS
<1>4. [firstVisit |-> TRUE] \in [firstVisit : {TRUE}]
  OBVIOUS
<1>5. \A u \in 0..MaxUsers : [userID |-> u, token |-> u] \in Identities
  BY DEF Identities
<1> QED BY <1>1, <1>2, <1>3, <1>4, <1>5 DEF Plain

LEMMA ListsAreTodo ==
  /\ \A t \in Plain : <<t>> \in Todo
  /\ \A t1, t2 \in Plain : <<t1, t2>> \in Todo
  /\ \A t1, t2, t3 \in Plain : <<t1, t2, t3>> \in Todo
  /\ \A t1, t2, t3, t4 \in Plain : <<t1, t2, t3, t4>> \in Todo
  /\ \A s \in Seq(Plain), t \in Seq(Plain) : (s # << >> \/ t # << >>) => s \o t \in Todo
<1>1. \A t \in Plain : <<t>> \in Todo
  BY DEF Todo
<1>2. \A t1, t2 \in Plain : <<t1, t2>> \in Todo
  BY DEF Todo
<1>3. \A t1, t2, t3 \in Plain : <<t1, t2, t3>> \in Todo
  BY DEF Todo
<1>4. \A t1, t2, t3, t4 \in Plain : <<t1, t2, t3, t4>> \in Todo
  BY DEF Todo
<1>5. \A s \in Seq(Plain), t \in Seq(Plain) : (s # << >> \/ t # << >>) => s \o t \in Todo
  BY DEF Todo
<1> QED BY <1>1, <1>2, <1>3, <1>4, <1>5

\* The lists the answers leave.
LEMMA AnswersAreTodo ==
  /\ \A n \in 0..MaxSalts, e \in Addresses :
        /\ <<[salt |-> n], [email |-> e], [loggedIn |-> TRUE]>> \in Todo
        /\ <<[salt |-> n], [loggedIn |-> TRUE], [email |-> e]>> \in Todo
        /\ <<[salt |-> n]>> \in Todo
  /\ ClearLocalUserData \in Todo /\ ClearLocalUserData \o SetUserIDAndToken(0) \in Todo
  /\ \A u \in 0..MaxUsers, e \in Addresses, b \in BOOLEAN :
        /\ SetUserIDAndToken(u) \in Todo
        /\ SetUserIDAndToken(u) \o <<[email |-> e], [pro |-> b]>> \in Todo
        /\ <<[pro |-> b]>> \in Todo
        /\ <<[pro |-> b]>> \o SetUserIDAndToken(u) \in Todo
        /\ <<[pro |-> b]>> \o SetUserIDAndToken(u)
             \o (IF e = NoEmail THEN << >> ELSE <<[email |-> e]>>) \in Todo
  /\ <<[firstVisit |-> TRUE]>> \in Todo
<1>1. ASSUME NEW n \in 0..MaxSalts, NEW e \in Addresses
      PROVE  /\ <<[salt |-> n], [email |-> e], [loggedIn |-> TRUE]>> \in Todo
             /\ <<[salt |-> n], [loggedIn |-> TRUE], [email |-> e]>> \in Todo
             /\ <<[salt |-> n]>> \in Todo
  <2>1. [salt |-> n] \in Plain /\ [email |-> e] \in Plain /\ [loggedIn |-> TRUE] \in Plain
    BY OnesAreTodo
  <2> QED BY <2>1, ListsAreTodo
<1>2. \A u \in 0..MaxUsers : SetUserIDAndToken(u) \in Todo
  BY OnesAreTodo, ListsAreTodo DEF SetUserIDAndToken
<1>3. ClearLocalUserData \in Todo
  <2>1. [salt |-> 0] \in Plain /\ [email |-> NoEmail] \in Plain /\ [loggedIn |-> FALSE] \in Plain
        /\ [pro |-> FALSE] \in Plain
    BY OnesAreTodo, ZeroIs
  <2> QED BY <2>1, ListsAreTodo DEF ClearLocalUserData
<1>4. ClearLocalUserData \o SetUserIDAndToken(0) \in Todo
  BY <1>2, <1>3, ZeroIs, ListsAreTodo DEF Todo
<1>5. ASSUME NEW u \in 0..MaxUsers, NEW e \in Addresses, NEW b \in BOOLEAN
      PROVE  /\ SetUserIDAndToken(u) \o <<[email |-> e], [pro |-> b]>> \in Todo
             /\ <<[pro |-> b]>> \in Todo
             /\ <<[pro |-> b]>> \o SetUserIDAndToken(u) \in Todo
             /\ <<[pro |-> b]>> \o SetUserIDAndToken(u)
                  \o (IF e = NoEmail THEN << >> ELSE <<[email |-> e]>>) \in Todo
  <2>1. [pro |-> b] \in Plain /\ [email |-> e] \in Plain
    BY OnesAreTodo
  <2>2. /\ <<[email |-> e], [pro |-> b]>> \in Todo
        /\ <<[pro |-> b]>> \in Todo /\ <<[email |-> e]>> \in Todo
    BY <2>1, ListsAreTodo
  <2>3. SetUserIDAndToken(u) \o <<[email |-> e], [pro |-> b]>> \in Todo
    BY <1>2, <2>2, ListsAreTodo DEF Todo
  <2>4. <<[pro |-> b]>> \o SetUserIDAndToken(u) \in Todo
    BY <1>2, <2>2, ListsAreTodo DEF Todo
  <2> DEFINE more == IF e = NoEmail THEN << >> ELSE <<[email |-> e]>>
  <2>5. more \in Seq(Plain)
    BY <2>2 DEF Todo
  <2> HIDE DEF more
  <2>6. (<<[pro |-> b]>> \o SetUserIDAndToken(u)) \o more \in Todo
    BY <2>4, <2>5, ListsAreTodo DEF Todo
  <2> QED BY <2>2, <2>3, <2>4, <2>6 DEF more
<1>6. <<[firstVisit |-> TRUE]>> \in Todo
  BY OnesAreTodo, ListsAreTodo
<1> QED BY <1>1, <1>2, <1>3, <1>4, <1>5, <1>6

-----------------------------------------------------------------------------
(* The session: only Write changes it.                                     *)

LEMMA PutSession ==
  ASSUME SessionOK, NEW tx \in Transaction, settings' = Put(tx)
  PROVE  SessionOK'
<1> USE DEF SessionOK, Put
<1>1. CASE tx \in [salt : 0..MaxSalts]
  BY <1>1
<1>2. CASE tx \in [email : Addresses]
  BY <1>2
<1>3. CASE tx \in [pro : BOOLEAN]
  BY <1>3
<1>4. CASE tx \in [loggedIn : BOOLEAN]
  BY <1>4
<1>5. CASE tx \in [firstVisit : {TRUE}]
  BY <1>5
<1>6. CASE tx \in Identities
  BY <1>6 DEF Identities
<1>7. CASE tx \in Record
  BY <1>7 DEF Record
<1> QED BY <1>1, <1>2, <1>3, <1>4, <1>5, <1>6, <1>7 DEF Transaction, Plain

LEMMA HeadIs ==
  ASSUME CallsOK, NEW c \in Calls, Write(c)
  PROVE  /\ call[c] \in Task /\ Able(call[c]) /\ call[c].todo # << >>
         /\ call[c].todo \in Seq(Transaction) /\ Head(call[c].todo) \in Transaction
         /\ settings' = Put(Head(call[c].todo))
<1>1. call[c] \in Task /\ Able(call[c]) /\ call[c].at = "write"
  BY DEF CallsOK, Write
<1>2. call[c].todo # << >> /\ call[c].todo \in Seq(Transaction)
  BY <1>1 DEF Able, Task
<1>3. Head(call[c].todo) \in Transaction
  BY <1>2
<1> QED BY <1>1, <1>2, <1>3 DEF Write

\* The steps that leave the settings alone.
LEMMA StepReads == ASSUME NEW c \in Calls, Step(c), ~Write(c) PROVE UNCHANGED settings
<1>1. CASE SetUserData(c) \/ UserConfig(c) \/ GetSalt(c) \/ Fail(c) \/ SignUp(c) \/ Login(c)
  BY <1>1 DEF SetUserData, UserConfig, GetSalt, Fail, SignUp, Login, Reply
<1>2. CASE SignOut(c) \/ CompleteRecoveryByEmail(c) \/ DeleteAccount(c) \/ UserCreate(c)
  BY <1>2 DEF SignOut, CompleteRecoveryByEmail, DeleteAccount, UserCreate, Reply
<1>3. CASE CheckCache(c) \/ ReadKey(c) \/ FetchUserData(c) \/ UserLinkValidate(c) \/ StartUpdate(c)
  BY <1>3 DEF CheckCache, ReadKey, FetchUserData, UserLinkValidate, StartUpdate, Reply
<1>4. CASE UpdateUserData(c) \/ RedeemResellerCode(c) \/ MakeAnnouncements(c)
           \/ FetchOrCreateUser(c) \/ RetryCreateUser(c)
  BY <1>4 DEF UpdateUserData, RedeemResellerCode, MakeAnnouncements, FetchOrCreateUser,
              RetryCreateUser, Exit, Reply
<1> QED BY <1>1, <1>2, <1>3, <1>4 DEF Step

\* A call that begins.
LEMMA Begins ==
  ASSUME NEW c \in Calls, Scan(c) \/ BeginCredentials(c) \/ BeginSignedIn(c) \/ BeginProCall(c)
  PROVE  \E k : Begin(c, k)
  BY DEF Scan, BeginCredentials, BeginSignedIn, BeginProCall

LEMMA SessionStep == AccountInv /\ [DesktopNext]_desktopVars => SessionOK'
<1> SUFFICES ASSUME AccountInv, [DesktopNext]_desktopVars PROVE SessionOK'
  OBVIOUS
<1> USE DEF AccountInv
<1>1. CASE UNCHANGED settings
  BY <1>1 DEF SessionOK
<1>2. ASSUME NEW c \in Calls, Step(c) PROVE SessionOK'
  BY <1>1, <1>2, HeadIs, PutSession, StepReads
<1>3. ASSUME NEW c \in Calls, Scan(c) \/ BeginCredentials(c) \/ BeginSignedIn(c) \/ BeginProCall(c)
      PROVE  SessionOK'
  BY <1>1, <1>3, Begins DEF Begin
<1>4. ASSUME NEW c \in Calls, AfterStart(c) PROVE SessionOK'
  BY <1>1, <1>4 DEF AfterStart
<1>5. CASE Crash
  BY <1>1, <1>5 DEF Crash, Exit
<1>6. CASE UNCHANGED desktopVars
  BY <1>1, <1>6 DEF desktopVars
<1> QED BY <1>2, <1>3, <1>4, <1>5, <1>6 DEF DesktopNext

-----------------------------------------------------------------------------
(* The servers: who is pro once stays so.                                  *)

ServerGrows == ServerOK' /\ \A u \in ProUsers : server.pro[u] => server'.pro[u]

LEMMA SameServer == ServerOK /\ UNCHANGED server => ServerGrows
  BY DEF ServerGrows, ServerOK

LEMMA NextNumbers ==
  ServerOK => /\ CanUser => NewUser \in 1..MaxUsers /\ NewUser \in ProUsers /\ NewUser # 0
              /\ CanSalt => NewSalt \in 1..MaxSalts
  BY DesktopAccountAssumption
     DEF DesktopAccountAssumption, ServerOK, CanUser, CanSalt, NewUser, NewSalt, ProUsers

\* Who is identified is the session's user.
LEMMA IdentifiedIs ==
  ASSUME SessionOK, CallsOK, NEW c \in Calls, Identified(c)
  PROVE  call[c].uid = settings.userID /\ call[c].uid \in ProUsers
<1>1. call[c].uid \in 0..MaxUsers /\ call[c].uid # 0 /\ call[c].uid = settings.userID
  BY DEF SessionOK, CallsOK, Task, Identified
<1> QED BY <1>1, DesktopAccountAssumption DEF ProUsers, DesktopAccountAssumption

\* An account that is there.
LEMMA AccountIs ==
  ASSUME ServerOK, NEW e \in Addresses, e # NoEmail, server.account[e] # NoAccount
  PROVE  /\ e \in Emails /\ server.account[e].user \in ProUsers
         /\ server.account[e].salt \in 1..MaxSalts
         /\ server.account[e] \in [user : ProUsers, salt : 1..MaxSalts]
<1>1. e \in Emails
  BY DEF Addresses
<1>2. server.account[e] \in [user : ProUsers, salt : 1..MaxSalts]
  BY <1>1 DEF ServerOK
<1> QED BY <1>1, <1>2

LEMMA ServerStep == AccountInv /\ [DesktopNext]_desktopVars => ServerGrows
<1> SUFFICES ASSUME AccountInv, [DesktopNext]_desktopVars PROVE ServerGrows
  OBVIOUS
<1> USE DEF AccountInv
<1>1. CASE UNCHANGED server
  BY <1>1, SameServer
<1>s. ASSUME NEW c \in Calls PROVE call[c] \in Task /\ Able(call[c]) /\ call[c].email \in Addresses
  BY DEF CallsOK, Task
<1>2. ASSUME NEW c \in Calls, Write(c) \/ SetUserData(c) \/ UserConfig(c) \/ GetSalt(c) \/ Fail(c)
             \/ CheckCache(c) \/ ReadKey(c) \/ FetchUserData(c) \/ StartUpdate(c)
             \/ UpdateUserData(c) \/ MakeAnnouncements(c) \/ FetchOrCreateUser(c)
      PROVE  ServerGrows
  <2>1. CASE Write(c) \/ SetUserData(c) \/ UserConfig(c) \/ GetSalt(c) \/ Fail(c)
             \/ CheckCache(c) \/ ReadKey(c) \/ FetchUserData(c)
    BY <1>1, <2>1 DEF Write, SetUserData, UserConfig, GetSalt, Fail, CheckCache, ReadKey,
                      FetchUserData
  <2>2. CASE StartUpdate(c) \/ UpdateUserData(c) \/ MakeAnnouncements(c) \/ FetchOrCreateUser(c)
    BY <1>1, <2>2 DEF StartUpdate, UpdateUserData, MakeAnnouncements, FetchOrCreateUser
  <2> QED BY <1>2, <2>1, <2>2
<1>3. ASSUME NEW c \in Calls, SignUp(c) PROVE ServerGrows
  <2> DEFINE e == call[c].email
             u == IF Identified(c) THEN call[c].uid ELSE NewUser
  <2>1. e \in Emails
    BY <1>s, <1>3 DEF SignUp, Asks, Able, OfAccounts
  <2>2. u \in ProUsers /\ NewSalt \in 1..MaxSalts /\ (~Identified(c) => NewUser \in 1..MaxUsers)
    BY <1>3, IdentifiedIs, NextNumbers DEF SignUp
  <2>3. server' = [server EXCEPT !.account[e] = [user |-> u, salt |-> NewSalt],
                     !.salts = NewSalt, !.users = IF Identified(c) THEN @ ELSE NewUser]
    BY <1>3 DEF SignUp, Reply
  <2>4. [user |-> u, salt |-> NewSalt] \in [user : ProUsers, salt : 1..MaxSalts]
    BY <2>2
  <2> HIDE DEF e, u
  <2> QED BY <2>1, <2>2, <2>3, <2>4 DEF ServerOK, ServerGrows
<1>4. ASSUME NEW c \in Calls, Login(c) PROVE ServerGrows
  <2> DEFINE u == server.account[call[c].email].user
  <2>1. u \in ProUsers
    BY <1>s, <1>4, AccountIs DEF Login, Proves
  <2>2. server' = server \/ server' = [server EXCEPT !.linked = @ \cup {u}]
    BY <1>4 DEF Login
  <2> HIDE DEF u
  <2> QED BY <2>1, <2>2 DEF ServerOK, ServerGrows
<1>5. ASSUME NEW c \in Calls, SignOut(c) PROVE ServerGrows
  <2>1. server' = [server EXCEPT !.linked = server.linked \ {call[c].uid}]
    BY <1>5 DEF SignOut, Reply
  <2> QED BY <2>1 DEF ServerOK, ServerGrows
<1>6. ASSUME NEW c \in Calls, CompleteRecoveryByEmail(c) PROVE ServerGrows
  <2> DEFINE e == call[c].email
  <2>1. e \in Emails
    BY <1>s, <1>6 DEF CompleteRecoveryByEmail, Asks, Able, OfAccounts
  <2>2. /\ server.account[e] \in [user : ProUsers, salt : 1..MaxSalts] /\ NewSalt \in 1..MaxSalts
        /\ server' = [server EXCEPT !.account[e].salt = NewSalt, !.salts = NewSalt]
    BY <1>s, <1>6, <2>1, NextNumbers, AccountIs, ZeroIs DEF CompleteRecoveryByEmail, Reply
  <2>3. [server.account[e] EXCEPT !.salt = NewSalt] \in [user : ProUsers, salt : 1..MaxSalts]
    BY <2>2
  <2> DEFINE acc == [server.account EXCEPT ![e] = [server.account[e] EXCEPT !.salt = NewSalt]]
  <2>4. server' = [server EXCEPT !.account = acc, !.salts = NewSalt]
    BY <2>2
  <2>5. acc \in [Emails -> {NoAccount} \cup [user : ProUsers, salt : 1..MaxSalts]]
    BY <2>1, <2>3 DEF ServerOK
  <2> HIDE DEF e, acc
  <2> QED BY <2>2, <2>4, <2>5 DEF ServerOK, ServerGrows
<1>7. ASSUME NEW c \in Calls, DeleteAccount(c) PROVE ServerGrows
  <2> DEFINE e == call[c].email
  <2>1. e \in Emails
    BY <1>s, <1>7, AccountIs DEF DeleteAccount, Proves
  <2>2. server' = [server EXCEPT !.account[e] = NoAccount]
    BY <1>7 DEF DeleteAccount, Reply
  <2> HIDE DEF e
  <2> QED BY <2>1, <2>2 DEF ServerOK, ServerGrows
<1>8. ASSUME NEW c \in Calls, UserCreate(c) PROVE ServerGrows
  BY <1>8, NextNumbers DEF UserCreate, ServerOK, ServerGrows
<1>9. ASSUME NEW c \in Calls, UserLinkValidate(c) PROVE ServerGrows
  <2>1. PICK u \in 1..server.users : server' = [server EXCEPT !.linked = @ \cup {u}]
    BY <1>9 DEF UserLinkValidate, Reply
  <2>2. u \in ProUsers
    BY <2>1, DesktopAccountAssumption DEF ServerOK, ProUsers, DesktopAccountAssumption
  <2> QED BY <2>1, <2>2 DEF ServerOK, ServerGrows
<1>10. ASSUME NEW c \in Calls, RedeemResellerCode(c) PROVE ServerGrows
  <2>1. server' = [server EXCEPT !.pro = [server.pro EXCEPT ![call[c].uid] = TRUE]]
    BY <1>10 DEF RedeemResellerCode, Reply
  <2> QED BY <2>1 DEF ServerOK, ServerGrows
<1>11. ASSUME NEW c \in Calls, RetryCreateUser(c) PROVE ServerGrows
  <2>1. server' = server \/ (CanUser /\ server' = [server EXCEPT !.users = NewUser])
    BY <1>11 DEF RetryCreateUser, Exit
  <2> QED BY <2>1, NextNumbers DEF ServerOK, ServerGrows
<1>12. ASSUME NEW c \in Calls, Scan(c) \/ BeginCredentials(c) \/ BeginSignedIn(c) \/ BeginProCall(c)
      PROVE  ServerGrows
  BY <1>1, <1>12, Begins DEF Begin
<1>13. CASE Crash \/ UNCHANGED desktopVars \/ \E c \in Calls : AfterStart(c)
  BY <1>1, <1>13 DEF Crash, Exit, desktopVars, AfterStart
<1> QED BY <1>2, <1>3, <1>4, <1>5, <1>6, <1>7, <1>8, <1>9, <1>10, <1>11, <1>12, <1>13
        DEF DesktopNext, Step

-----------------------------------------------------------------------------
(* The calls: each is able to do what is next.                             *)

LEMMA StaysKnown ==
  ASSUME ServerOK, ServerGrows, NEW d \in Cached, Known(d, server)
  PROVE  Known(d, server')
<1>1. CASE ~d.pro
  BY <1>1 DEF Known
<1>2. CASE d.pro
  <2>1. d.id \in ProUsers /\ server.pro[d.id]
    BY <1>2, DesktopAccountAssumption DEF Known, Cached, ProUsers, DesktopAccountAssumption
  <2> QED BY <2>1 DEF ServerGrows, Known, ProUsers
<1> QED BY <1>1, <1>2

\* A call that becomes another able one.
LEMMA TaskBecomes ==
  ASSUME ServerOK, CallsOK, ServerGrows, NEW c \in Calls, NEW k \in Task, Able(k),
         Known(k.data, server'), call' = [call EXCEPT ![c] = k]
  PROVE  CallsOK'
<1>1. call' \in [Calls -> Task]
  BY DEF CallsOK
<1>2. ASSUME NEW d \in Calls PROVE Able(call'[d]) /\ Known(call'[d].data, server')
  <2>1. CASE d = c
    BY <2>1 DEF CallsOK
  <2>2. CASE d # c
    <3>1. call'[d] = call[d] /\ Able(call[d]) /\ Known(call[d].data, server)
          /\ call[d].data \in Cached
      BY <2>2 DEF CallsOK, Task
    <3> QED BY <3>1, StaysKnown
  <2> QED BY <2>1, <2>2
<1> QED BY <1>1, <1>2 DEF CallsOK

LEMMA SameCalls ==
  ASSUME ServerOK, CallsOK, ServerGrows, UNCHANGED call
  PROVE  CallsOK'
<1>1. ASSUME NEW d \in Calls PROVE Able(call'[d]) /\ Known(call'[d].data, server')
  <2>1. call'[d] = call[d] /\ Able(call[d]) /\ Known(call[d].data, server)
        /\ call[d].data \in Cached
    BY DEF CallsOK, Task
  <2> QED BY <2>1, StaysKnown
<1> QED BY <1>1 DEF CallsOK

LEMMA IdleIsAble ==
  /\ Idle \in Task /\ Able(Idle) /\ \A srv : Known(Idle.data, srv)
  /\ NotCached \in Cached /\ \A srv : Known(NotCached, srv)
<1>1. NotCached \in Cached /\ NotCached.pro = FALSE
  BY ZeroIs DEF NotCached, Cached
<1>2. 0 \in 0..MaxUsers /\ 0 \in 0..MaxSalts /\ NoEmail \in Addresses /\ << >> \in Seq(Transaction)
  BY ZeroIs
<1>3. Idle \in Task
  BY <1>1, <1>2 DEF Idle, Task, Operation, Place, After
<1>4. Idle.data = NotCached
  BY DEF Idle
<1>5. Able(Idle)
  BY DEF Idle, Able, OfAccounts, Stores
<1> QED BY <1>1, <1>3, <1>4, <1>5 DEF Known

LEMMA EndIsAble ==
  ASSUME ServerOK, CallsOK, ServerGrows, NEW c \in Calls, End(c)
  PROVE  CallsOK'
  BY IdleIsAble, TaskBecomes DEF End

\* Each answer leaves its list to save.
LEMMA AnsweredIsAble ==
  ASSUME ServerOK, CallsOK, ServerGrows, NEW c \in Calls, NEW txs \in Todo, NEW next,
         Answered(c, txs, next),
         \/ next = "idle"
         \/ next = "create" /\ call[c].op # "retry"
         \/ next = "update" /\ call[c].op = "validate"
  PROVE  CallsOK'
<1> DEFINE k == [call[c] EXCEPT !.todo = txs, !.at = "write", !.next = next]
<1>1. call[c] \in Task /\ Able(call[c]) /\ Known(call[c].data, server) /\ call[c].data \in Cached
  BY DEF CallsOK, Task
<1>2. txs \in Seq(Plain) /\ txs # << >> /\ txs \in Seq(Transaction)
  <2>1. txs \in Seq(Plain) /\ txs # << >>
    BY DEF Todo
  <2>2. \A i \in 1..Len(txs) : txs[i] \in Transaction
    BY <2>1 DEF Transaction
  <2> QED BY <2>1, <2>2, SeqDef
<1>3. k \in Task
  BY <1>1, <1>2 DEF Task, Place, After
<1>4. /\ k.op = call[c].op /\ k.at = "write" /\ k.next = next /\ k.todo = txs
      /\ k.email = call[c].email
      /\ k.key = call[c].key /\ k.wrote = call[c].wrote /\ k.data = call[c].data
  BY <1>1 DEF Task
<1>5. call' = [call EXCEPT ![c] = k]
  BY DEF Answered, CallsOK
<1> HIDE DEF k
<1>6. Able(k)
  BY <1>1, <1>2, <1>4 DEF Able, Stores
<1>7. Known(k.data, server')
  BY <1>1, <1>4, StaysKnown
<1> QED BY <1>3, <1>5, <1>6, <1>7, TaskBecomes

LEMMA ReplyIsAble ==
  ASSUME ServerOK, CallsOK, ServerGrows, NEW c \in Calls, NEW txs \in Todo, NEW next, NEW srv,
         NEW what, Reply(c, srv, txs, next, what),
         \/ next = "idle"
         \/ next = "create" /\ call[c].op # "retry"
         \/ next = "update" /\ call[c].op = "validate"
  PROVE  CallsOK'
  BY AnsweredIsAble, EndIsAble DEF Reply

LEMMA SeqWider == \A S, T : S \subseteq T => Seq(S) \subseteq Seq(T)
<1> SUFFICES ASSUME NEW S, NEW T, S \subseteq T, NEW s \in Seq(S) PROVE s \in Seq(T)
  OBVIOUS
<1>1. \A i \in 1..Len(s) : s[i] \in T
  OBVIOUS
<1> QED BY <1>1

LEMMA WriteIsAble ==
  ASSUME ServerOK, CallsOK, ServerGrows, NEW c \in Calls, Write(c)
  PROVE  CallsOK'
<1> DEFINE k == call[c]
           rest == Tail(k.todo)
           more == [k EXCEPT !.todo = rest, !.wrote = TRUE]
           on == [k EXCEPT !.todo = rest, !.wrote = TRUE, !.at = k.next]
<1>1. /\ k \in Task /\ Able(k) /\ k.at = "write" /\ k.todo # << >> /\ k.todo \in Seq(Transaction)
      /\ Known(k.data, server) /\ k.data \in Cached
  BY HeadIs DEF CallsOK, Task, Write
<1>2. rest \in Seq(Transaction) /\ << >> \in Seq(Transaction)
  BY <1>1
<1>3. CASE rest # << >>
  <2>1. call' = [call EXCEPT ![c] = more]
    BY <1>3 DEF Write
  <2>2. more \in Task
    BY <1>1, <1>2 DEF Task
  <2>3. more.op = k.op /\ more.at = "write" /\ more.next = k.next /\ more.todo = rest
        /\ more.email = k.email /\ more.key = k.key /\ more.wrote /\ more.data = k.data
    BY <1>1 DEF Task
  <2>4. ~\E tx : k.todo = <<tx>>
    <3>1. \A tx : Tail(<<tx>>) = << >>
      OBVIOUS
    <3> QED BY <1>3, <3>1
  <2>5. k.todo \in Seq(Plain)
    BY <1>1, <2>4 DEF Able
  <2>6. rest \in Seq(Plain)
    BY <1>1, <2>5
  <2> HIDE DEF k, rest, more
  <2>7. Able(more)
    BY <1>1, <1>3, <2>3, <2>6 DEF Able, Stores
  <2>8. Known(more.data, server')
    BY <1>1, <2>3, StaysKnown
  <2> QED BY <2>1, <2>2, <2>7, <2>8, TaskBecomes
<1>4. CASE rest = << >> /\ k.next = "idle"
  <2>1. End(c)
    BY <1>4 DEF Write, End
  <2> QED BY <2>1, EndIsAble
<1>5. CASE rest = << >> /\ k.next # "idle"
  <2>1. call' = [call EXCEPT ![c] = on]
    BY <1>5 DEF Write
  <2>2. on \in Task
    BY <1>1, <1>2 DEF Task, Place
  <2>3. on.op = k.op /\ on.at = k.next /\ on.next = k.next /\ on.todo = rest
        /\ on.email = k.email /\ on.key = k.key /\ on.wrote /\ on.data = k.data
    BY <1>1 DEF Task
  <2>4. k.next \in {"create", "store", "announce", "update", "ask"}
    BY <1>1, <1>5 DEF Task, After
  <2>5. << >> \in Seq(Plain)
    OBVIOUS
  <2> HIDE DEF k, rest, on
  <2>6. Able(on)
    BY <1>1, <1>5, <2>3, <2>4, <2>5 DEF Able, Stores, Idle
  <2>7. Known(on.data, server')
    BY <1>1, <2>3, StaysKnown
  <2> QED BY <2>1, <2>2, <2>6, <2>7, TaskBecomes
<1> QED BY <1>3, <1>4, <1>5

\* A call that goes on without anything to save.
LEMMA GoesAble ==
  ASSUME ServerOK, CallsOK, ServerGrows, NEW c \in Calls, NEW k \in Task, Able(k),
         k.data = call[c].data, call' = [call EXCEPT ![c] = k]
  PROVE  CallsOK'
  BY StaysKnown, TaskBecomes DEF CallsOK, Task

\* What a call has is what its fields say.
LEMMA Fields ==
  ASSUME NEW k \in Task
  PROVE  /\ k.op \in Operation /\ k.at \in Place /\ k.email \in Addresses /\ k.key \in 0..MaxUsers
         /\ k.uid \in 0..MaxUsers /\ k.salt \in 0..MaxSalts /\ k.data \in Cached
         /\ k.todo \in Seq(Transaction) /\ k.next \in After /\ k.wrote \in BOOLEAN
  BY DEF Task

LEMMA TodoWider == \A txs \in Todo : txs \in Seq(Plain) /\ txs # << >> /\ txs \in Seq(Transaction)
  BY SeqWider DEF Todo, Transaction

\* Requests and reads.
LEMMA ReadIsAble ==
  ASSUME AccountInv, ServerGrows, NEW c \in Calls,
         UserConfig(c) \/ GetSalt(c) \/ CheckCache(c) \/ ReadKey(c) \/ StartUpdate(c)
  PROVE  CallsOK'
<1> DEFINE k == call[c]
<1>0. ServerOK /\ CallsOK /\ k \in Task /\ Able(k)
  BY DEF AccountInv, CallsOK
<1>1. CASE UserConfig(c)
  <2> DEFINE n == [k EXCEPT !.uid = settings.userID, !.at = "ask"]
  <2>1. settings.userID \in 0..MaxUsers /\ k.at = "ident"
    BY <1>1 DEF AccountInv, SessionOK, UserConfig
  <2>2. n \in Task
    BY <1>0, <2>1 DEF Task, Place, After
  <2>3. n.op = k.op /\ n.at = "ask" /\ n.next = k.next /\ n.todo = k.todo /\ n.email = k.email
        /\ n.key = k.key /\ n.wrote = k.wrote /\ n.data = k.data
    BY <1>0 DEF Task
  <2>4. call' = [call EXCEPT ![c] = n]
    BY <1>1 DEF UserConfig
  <2> HIDE DEF n
  <2>5. Able(n)
    BY <1>0, <2>1, <2>3 DEF Able, Stores
  <2> QED BY <1>0, <2>2, <2>3, <2>4, <2>5, GoesAble
<1>2. CASE GetSalt(c)
  <2> DEFINE n == [k EXCEPT !.salt = server.account[k.email].salt, !.at = "ask"]
  <2>1. server.account[k.email].salt \in 0..MaxSalts /\ k.at = "salt"
    BY <1>0, <1>2, Fields, AccountIs, ZeroIs DEF GetSalt
  <2>2. n \in Task
    BY <1>0, <2>1 DEF Task, Place, After
  <2>3. n.op = k.op /\ n.at = "ask" /\ n.next = k.next /\ n.todo = k.todo /\ n.email = k.email
        /\ n.key = k.key /\ n.wrote = k.wrote /\ n.data = k.data
    BY <1>0 DEF Task
  <2>4. call' = [call EXCEPT ![c] = n]
    BY <1>2 DEF GetSalt
  <2> HIDE DEF n
  <2>5. Able(n)
    BY <1>0, <2>1, <2>3 DEF Able, Stores
  <2> QED BY <1>0, <2>2, <2>3, <2>4, <2>5, GoesAble
<1>3. CASE CheckCache(c)
  <2>1. ASSUME NEW at \in {"announce", "ident", "key"},
               at \in {"announce", "ident"} <=> k.op = "scan",
               call' = [call EXCEPT ![c].at = at]
        PROVE  CallsOK'
    <3> DEFINE n == [k EXCEPT !.at = at]
    <3>1. k.at = "check"
      BY <1>3 DEF CheckCache
    <3>2. n \in Task
      BY <1>0, <2>1 DEF Task, Place, After
    <3>3. n.op = k.op /\ n.at = at /\ n.next = k.next /\ n.todo = k.todo /\ n.email = k.email
          /\ n.key = k.key /\ n.wrote = k.wrote /\ n.data = k.data
      BY <1>0 DEF Task
    <3>4. call' = [call EXCEPT ![c] = n]
      BY <2>1
    <3> HIDE DEF n
    <3>5. Able(n)
      BY <1>0, <2>1, <3>1, <3>3 DEF Able, Stores
    <3> QED BY <1>0, <3>2, <3>3, <3>4, <3>5, GoesAble
  <2>2. CASE End(c)
    BY <1>0, <2>2, EndIsAble
  <2> QED BY <1>3, <2>1, <2>2 DEF CheckCache
<1>4. CASE ReadKey(c)
  <2> DEFINE n == [k EXCEPT !.key = settings.userID, !.at = "ident"]
  <2>1. settings.userID \in 0..MaxUsers /\ k.at = "key"
    BY <1>4 DEF AccountInv, SessionOK, ReadKey
  <2>2. n \in Task
    BY <1>0, <2>1 DEF Task, Place, After
  <2>3. n.op = k.op /\ n.at = "ident" /\ n.next = k.next /\ n.todo = k.todo /\ n.email = k.email
        /\ n.key = settings.userID /\ n.wrote = k.wrote /\ n.data = k.data
    BY <1>0 DEF Task
  <2>4. ASSUME settings.userID # 0, call' = [call EXCEPT ![c] = n] PROVE CallsOK'
    <3> HIDE DEF n
    <3>1. Able(n)
      BY <1>0, <2>1, <2>3, <2>4 DEF Able, Stores
    <3> QED BY <1>0, <2>2, <2>3, <2>4, <3>1, GoesAble
  <2>5. CASE End(c)
    BY <1>0, <2>5, EndIsAble
  <2> QED BY <1>4, <2>4, <2>5 DEF ReadKey
<1>5. CASE StartUpdate(c)
  <2> DEFINE n == [k EXCEPT !.op = "update", !.at = "ident"]
  <2>1. k.at = "update"
    BY <1>5 DEF StartUpdate
  <2>2. n \in Task
    BY <1>0 DEF Task, Place, After, Operation
  <2>3. n.op = "update" /\ n.at = "ident" /\ n.next = k.next /\ n.todo = k.todo /\ n.email = k.email
        /\ n.key = k.key /\ n.wrote = k.wrote /\ n.data = k.data
    BY <1>0 DEF Task
  <2>4. call' = [call EXCEPT ![c] = n]
    BY <1>5 DEF StartUpdate
  <2> HIDE DEF n
  <2>5. Able(n)
    BY <1>0, <2>1, <2>3 DEF Able, Stores, OfAccounts
  <2> QED BY <1>0, <2>2, <2>3, <2>4, <2>5, GoesAble
<1> QED BY <1>1, <1>2, <1>3, <1>4, <1>5

\* Answers that name the details of a user.
LEMMA DetailsAreKnown ==
  ASSUME ServerOK, ServerGrows, NEW u \in ProUsers
  PROVE  /\ UserDetails(u) \in Cached /\ DeviceLimitFlow(u) \in Cached
         /\ Known(UserDetails(u), server') /\ Known(DeviceLimitFlow(u), server')
         /\ UserDetails(u).id = u /\ DeviceLimitFlow(u).id = u
<1>1. u \in 0..MaxUsers /\ u # 0 /\ server.pro[u] \in BOOLEAN
  BY ZeroIs DEF ServerOK
<1>2. UserDetails(u) \in Cached /\ DeviceLimitFlow(u) \in Cached
  BY <1>1 DEF UserDetails, DeviceLimitFlow, Cached
<1>3. /\ UserDetails(u).id = u /\ UserDetails(u).pro = server.pro[u]
      /\ DeviceLimitFlow(u).id = u /\ DeviceLimitFlow(u).pro = FALSE
  BY DEF UserDetails, DeviceLimitFlow
<1> QED BY <1>1, <1>2, <1>3 DEF Known, ServerGrows

LEMMA LoginIsAble ==
  ASSUME AccountInv, ServerGrows, NEW c \in Calls, Login(c)
  PROVE  CallsOK'
<1> DEFINE k == call[c]
           u == server.account[k.email].user
           txs == <<[salt |-> k.salt], [loggedIn |-> TRUE], [email |-> k.email]>>
           n1 == [k EXCEPT !.key = u, !.next = "store", !.data = UserDetails(u),
                           !.at = "write", !.todo = txs]
           n2 == [k EXCEPT !.key = u, !.next = "store", !.data = DeviceLimitFlow(u),
                           !.at = "store", !.todo = << >>]
<1>1. /\ ServerOK /\ CallsOK /\ k \in Task /\ Able(k) /\ k.op = "login" /\ k.at = "ask"
      /\ k.email \in Addresses /\ k.salt \in 0..MaxSalts
  BY DEF AccountInv, CallsOK, Task, Login, Asks
<1>2. u \in ProUsers /\ u \in 0..MaxUsers /\ u # 0
  BY <1>1, AccountIs, ZeroIs DEF Login, Proves
<1>3. /\ UserDetails(u) \in Cached /\ DeviceLimitFlow(u) \in Cached
      /\ Known(UserDetails(u), server') /\ Known(DeviceLimitFlow(u), server')
  BY <1>1, <1>2, DetailsAreKnown
<1>4. txs \in Seq(Plain) /\ txs # << >> /\ txs \in Seq(Transaction)
  BY <1>1, AnswersAreTodo, TodoWider
<1>5. << >> \in Seq(Plain) /\ << >> \in Seq(Transaction)
  OBVIOUS
<1>6. call' \in {[call EXCEPT ![c] = n1], [call EXCEPT ![c] = n2]}
  BY DEF Login
<1> HIDE DEF u, txs
<1>7. n1 \in Task /\ n2 \in Task
  BY <1>1, <1>2, <1>3, <1>4, <1>5 DEF Task, Place, After
<1>8. /\ n1.op = k.op /\ n1.at = "write" /\ n1.next = "store" /\ n1.todo = txs /\ n1.key = u
      /\ n1.email = k.email /\ n1.wrote = k.wrote /\ n1.data = UserDetails(u)
  BY <1>1 DEF Task
<1>9. /\ n2.op = k.op /\ n2.at = "store" /\ n2.next = "store" /\ n2.todo = << >> /\ n2.key = u
      /\ n2.email = k.email /\ n2.wrote = k.wrote /\ n2.data = DeviceLimitFlow(u)
  BY <1>1 DEF Task
<1> HIDE DEF n1, n2, k
<1>10. Able(n1)
  BY <1>1, <1>2, <1>4, <1>8 DEF Able, Stores
<1>11. Able(n2)
  BY <1>1, <1>2, <1>5, <1>9 DEF Able, Stores
<1> QED BY <1>1, <1>3, <1>6, <1>7, <1>8, <1>9, <1>10, <1>11, TaskBecomes

LEMMA EmailsAre == \A u : EmailsOf(u) \subseteq Addresses
  BY DEF EmailsOf, Addresses

LEMMA FetchIsAble ==
  ASSUME AccountInv, ServerGrows, NEW c \in Calls, FetchUserData(c)
  PROVE  CallsOK'
<1> DEFINE k == call[c]
           u == k.uid
<1>1. /\ ServerOK /\ CallsOK /\ SessionOK /\ k \in Task /\ Able(k) /\ k.op \in {"scan", "refresh"}
      /\ k.at = "ask" /\ Identified(c)
  BY DEF AccountInv, CallsOK, FetchUserData
<1>2. u \in ProUsers /\ u \in 0..MaxUsers
  BY <1>1, IdentifiedIs, ZeroIs
<1>3. PICK e \in EmailsOf(u) :
        call' = [call EXCEPT ![c].at = "write", ![c].data = UserDetails(u),
                   ![c].next = IF k.op = "scan" THEN "announce" ELSE "store",
                   ![c].todo = SetUserIDAndToken(u) \o <<[email |-> e], [pro |-> server.pro[u]]>>]
  BY DEF FetchUserData
<1> DEFINE txs == SetUserIDAndToken(u) \o <<[email |-> e], [pro |-> server.pro[u]]>>
           next == IF k.op = "scan" THEN "announce" ELSE "store"
           n == [k EXCEPT !.at = "write", !.data = UserDetails(u), !.next = next, !.todo = txs]
<1>4. e \in Addresses /\ server.pro[u] \in BOOLEAN
  BY <1>1, <1>2, EmailsAre DEF ServerOK
<1>5. txs \in Seq(Plain) /\ txs # << >> /\ txs \in Seq(Transaction)
  BY <1>2, <1>4, AnswersAreTodo, TodoWider
<1>6. UserDetails(u) \in Cached /\ Known(UserDetails(u), server')
  BY <1>1, <1>2, DetailsAreKnown
<1>7. call' = [call EXCEPT ![c] = n]
  BY <1>3
<1> HIDE DEF txs, u
<1>8. /\ next \in After /\ (next = "store" <=> k.op = "refresh")
      /\ next = "announce" <=> k.op = "scan"
  BY <1>1 DEF After
<1> HIDE DEF next
<1>9. n \in Task
  BY <1>1, <1>5, <1>6, <1>8 DEF Task, Place
<1>10. n.op = k.op /\ n.at = "write" /\ n.next = next /\ n.todo = txs /\ n.email = k.email
       /\ n.key = k.key /\ n.wrote = k.wrote /\ n.data = UserDetails(u)
  BY <1>1 DEF Task
<1> HIDE DEF n, k
<1>11. Able(n)
  BY <1>1, <1>5, <1>8, <1>10 DEF Able, Stores, OfAccounts, After
<1> QED BY <1>1, <1>6, <1>7, <1>9, <1>10, <1>11, TaskBecomes

LEMMA AnnounceIsAble ==
  ASSUME AccountInv, ServerGrows, NEW c \in Calls, MakeAnnouncements(c)
  PROVE  CallsOK'
<1> DEFINE k == call[c]
<1>1. /\ ServerOK /\ CallsOK /\ k \in Task /\ Able(k) /\ k.op = "scan" /\ k.at = "announce"
      /\ Known(k.data, server) /\ k.data \in Cached
  BY DEF AccountInv, CallsOK, Able, Task, MakeAnnouncements
<1>2. CASE End(c)
  BY <1>1, <1>2, EndIsAble
<1>3. ASSUME NEW x \in Campaigns, Answered(c, <<[past |-> settings.past \cup {x}]>>, "idle")
      PROVE  CallsOK'
  <2> DEFINE tx == [past |-> settings.past \cup {x}]
             n == [k EXCEPT !.todo = <<tx>>, !.at = "write", !.next = "idle"]
  <2>1. tx \in Record
    BY DEF AccountInv, SessionOK, Record
  <2>2. <<tx>> \in Seq(Transaction) /\ <<tx>> # << >>
    BY <2>1 DEF Transaction
  <2>3. call' = [call EXCEPT ![c] = n]
    BY <1>3 DEF Answered
  <2> HIDE DEF tx
  <2>4. n \in Task
    BY <1>1, <2>2 DEF Task, Place, After
  <2>5. n.op = "scan" /\ n.at = "write" /\ n.next = "idle" /\ n.todo = <<tx>> /\ n.email = k.email
        /\ n.key = k.key /\ n.wrote = k.wrote /\ n.data = k.data
    BY <1>1 DEF Task
  <2> HIDE DEF n, k
  <2>6. Able(n)
    BY <1>1, <2>1, <2>2, <2>5 DEF Able, Stores, OfAccounts
  <2>7. Known(n.data, server')
    BY <1>1, <2>5, StaysKnown
  <2> QED BY <1>1, <2>3, <2>4, <2>6, <2>7, TaskBecomes
<1> QED BY <1>2, <1>3 DEF MakeAnnouncements, GetAnnouncement

LEMMA InitIsAble ==
  ASSUME AccountInv, ServerGrows, NEW c \in Calls, FetchOrCreateUser(c)
  PROVE  CallsOK'
<1> DEFINE k == call[c]
<1>1. /\ ServerOK /\ CallsOK /\ k \in Task /\ Able(k) /\ k.at = "init"
  BY DEF AccountInv, CallsOK, FetchOrCreateUser
<1>2. CASE call' = [call EXCEPT ![c].op = "refresh", ![c].at = "check"]
  <2> DEFINE n == [k EXCEPT !.op = "refresh", !.at = "check"]
  <2>1. n \in Task
    BY <1>1 DEF Task, Operation, Place
  <2>2. n.op = "refresh" /\ n.at = "check" /\ n.next = k.next /\ n.todo = k.todo
        /\ n.email = k.email /\ n.key = k.key /\ n.wrote = k.wrote /\ n.data = k.data
    BY <1>1 DEF Task
  <2>3. call' = [call EXCEPT ![c] = n]
    BY <1>2
  <2> HIDE DEF n
  <2>4. Able(n)
    BY <1>1, <2>2 DEF Able, Stores, OfAccounts
  <2> QED BY <1>1, <2>1, <2>2, <2>3, <2>4, GoesAble
<1>3. CASE call' = [call EXCEPT ![c].op = "retry", ![c].at = "write",
                      ![c].todo = <<[firstVisit |-> TRUE]>>, ![c].next = "ask"]
  <2> DEFINE txs == <<[firstVisit |-> TRUE]>>
             n == [k EXCEPT !.op = "retry", !.at = "write", !.todo = txs, !.next = "ask"]
  <2>1. txs \in Seq(Plain) /\ txs # << >> /\ txs \in Seq(Transaction)
    BY AnswersAreTodo, TodoWider
  <2>2. call' = [call EXCEPT ![c] = n]
    BY <1>3
  <2> HIDE DEF txs
  <2>3. n \in Task
    BY <1>1, <2>1 DEF Task, Operation, Place, After
  <2>4. n.op = "retry" /\ n.at = "write" /\ n.next = "ask" /\ n.todo = txs
        /\ n.email = k.email /\ n.key = k.key /\ n.wrote = k.wrote /\ n.data = k.data
    BY <1>1 DEF Task
  <2> HIDE DEF n
  <2>5. Able(n)
    BY <1>1, <2>1, <2>4 DEF Able, Stores, OfAccounts
  <2> QED BY <1>1, <2>2, <2>3, <2>4, <2>5, GoesAble
<1> QED BY <1>2, <1>3 DEF FetchOrCreateUser

\* Every step of a call leaves each call able.
LEMMA StepIsAble == ASSUME AccountInv, ServerGrows, NEW c \in Calls, Step(c) PROVE CallsOK'
<1> DEFINE k == call[c]
<1>0. ServerOK /\ CallsOK /\ SessionOK /\ k \in Task /\ Able(k)
  BY DEF AccountInv, CallsOK
<1>f. /\ k.email \in Addresses /\ k.salt \in 0..MaxSalts /\ k.uid \in 0..MaxUsers
  BY <1>0, Fields
<1>e. ASSUME Exit PROVE CallsOK'
  <2>1. call' = [d \in Calls |-> Idle]
    BY <1>e DEF Exit
  <2> QED BY <2>1, IdleIsAble DEF CallsOK
<1>1. CASE SetUserData(c) \/ Fail(c) \/ UserCreate(c)
  <2>1. End(c)
    BY <1>1 DEF SetUserData, Fail, UserCreate
  <2> QED BY <1>0, <2>1, EndIsAble
<1>2. CASE SignUp(c)
  <2>1. NewSalt \in 0..MaxSalts
    BY <1>0, <1>2, NextNumbers, ZeroIs DEF SignUp
  <2> DEFINE txs == <<[salt |-> NewSalt], [email |-> k.email], [loggedIn |-> TRUE]>>
  <2>2. txs \in Todo
    BY <1>f, <2>1, AnswersAreTodo
  <2>3. \E srv : Reply(c, srv, txs, "idle", {})
    BY <1>2 DEF SignUp
  <2> HIDE DEF txs
  <2> QED BY <1>0, <2>2, <2>3, ReplyIsAble
<1>3. CASE SignOut(c)
  <2>1. (\E srv : Reply(c, srv, ClearLocalUserData, "create", {})) /\ k.op = "logout"
    BY <1>3 DEF SignOut, Asks
  <2> QED BY <1>0, <2>1, ReplyIsAble, AnswersAreTodo
<1>4. CASE CompleteRecoveryByEmail(c)
  <2>1. NewSalt \in 0..MaxSalts
    BY <1>0, <1>4, NextNumbers, ZeroIs DEF CompleteRecoveryByEmail
  <2> DEFINE txs == <<[salt |-> NewSalt]>>
  <2>2. txs \in Todo
    BY <2>1, ZeroIs, AnswersAreTodo
  <2>3. \E srv : Reply(c, srv, txs, "idle", {})
    BY <1>4 DEF CompleteRecoveryByEmail
  <2> HIDE DEF txs
  <2> QED BY <1>0, <2>2, <2>3, ReplyIsAble
<1>5. CASE DeleteAccount(c)
  <2>1. /\ \E srv : Reply(c, srv, ClearLocalUserData \o SetUserIDAndToken(0), "create", {"deleted"})
        /\ k.op = "delete"
    BY <1>5 DEF DeleteAccount, Asks
  <2> QED BY <1>0, <2>1, ReplyIsAble, AnswersAreTodo
<1>6. CASE UserLinkValidate(c)
  <2>1. PICK u \in 1..server.users :
          /\ \E srv : Reply(c, srv, <<[pro |-> TRUE]>> \o SetUserIDAndToken(u), "update", {})
          /\ k.op = "validate"
    BY <1>6 DEF UserLinkValidate, Asks
  <2>2. u \in 0..MaxUsers
    BY <1>0, <2>1, DesktopAccountAssumption DEF ServerOK, DesktopAccountAssumption
  <2>3. <<[pro |-> TRUE]>> \o SetUserIDAndToken(u) \in Todo
    BY <2>2, ZeroIs, AnswersAreTodo
  <2> QED BY <1>0, <2>1, <2>3, ReplyIsAble
<1>7. CASE UpdateUserData(c)
  <2>1. k.uid \in ProUsers
    BY <1>0, <1>7, IdentifiedIs DEF UpdateUserData
  <2> DEFINE pro == server.pro[k.uid] /\ (settings.firstVisit \/ k.uid \in server.linked)
  <2>2. PICK e \in EmailsOf(k.uid) :
          Answered(c, <<[pro |-> pro]>> \o SetUserIDAndToken(k.uid)
                        \o (IF e = NoEmail THEN << >> ELSE <<[email |-> e]>>), "idle")
    BY <1>7 DEF UpdateUserData
  <2>3. e \in Addresses /\ pro \in BOOLEAN
    BY EmailsAre
  <2> HIDE DEF pro
  <2>4. <<[pro |-> pro]>> \o SetUserIDAndToken(k.uid)
          \o (IF e = NoEmail THEN << >> ELSE <<[email |-> e]>>) \in Todo
    BY <1>f, <2>3, AnswersAreTodo
  <2> QED BY <1>0, <2>2, <2>4, AnsweredIsAble
<1>8. CASE RedeemResellerCode(c)
  <2>1. \E srv : Reply(c, srv, <<[pro |-> TRUE]>>, "idle", {})
    BY <1>8 DEF RedeemResellerCode
  <2>2. <<[pro |-> TRUE]>> \in Todo
    BY ZeroIs, AnswersAreTodo
  <2> QED BY <1>0, <2>1, <2>2, ReplyIsAble
<1>9. CASE RetryCreateUser(c)
  <2>1. ASSUME CanUser, Answered(c, SetUserIDAndToken(NewUser), "idle") PROVE CallsOK'
    <3>1. SetUserIDAndToken(NewUser) \in Todo
      BY <1>0, <2>1, NextNumbers, ZeroIs, AnswersAreTodo
    <3> QED BY <1>0, <2>1, <3>1, AnsweredIsAble
  <2>2. CASE UNCHANGED call
    BY <1>0, <2>2, SameCalls
  <2> QED BY <1>9, <1>e, <2>1, <2>2 DEF RetryCreateUser
<1>10. CASE Write(c)
  BY <1>0, <1>10, WriteIsAble
<1> QED
  BY <1>1, <1>2, <1>3, <1>4, <1>5, <1>6, <1>7, <1>8, <1>9, <1>10, ReadIsAble, LoginIsAble,
     FetchIsAble, AnnounceIsAble, InitIsAble DEF Step

\* A call that begins is able.
LEMMA BeginIsAble ==
  ASSUME AccountInv, ServerGrows, NEW c \in Calls,
         Scan(c) \/ BeginCredentials(c) \/ BeginSignedIn(c) \/ BeginProCall(c) \/ AfterStart(c)
  PROVE  /\ CallsOK' /\ (call'[c].op = "scan" => Scan(c))
         /\ call' = [call EXCEPT ![c] = call'[c]] /\ call'[c].todo = << >>
<1>0. ServerOK /\ CallsOK /\ SessionOK
  BY DEF AccountInv
\* What begins has nothing of an earlier call.
<1>1. ASSUME NEW op \in Operation, NEW at \in {"ident", "salt", "ask", "check", "init"},
             NEW e \in Addresses, NEW k, op \notin {"retry", "update"},
             op \in OfAccounts => e \in Emails, at = "salt" => op \in {"login", "delete"},
             op = "refresh" => at = "check",
             \/ k = For(op, at, e)
             \/ \E n \in 0..MaxSalts : k = [For(op, at, e) EXCEPT !.salt = n],
             call' = [call EXCEPT ![c] = k]
      PROVE  CallsOK' /\ call'[c].op = op /\ call' = [call EXCEPT ![c] = call'[c]]
        /\ call'[c].todo = << >>
  <2>1. Idle \in Task /\ Idle.data = NotCached /\ Idle.todo = << >> /\ Idle.next = "idle"
    BY IdleIsAble DEF Idle
  <2>2. k \in Task
    <3>1. at \in Place
      BY DEF Place, After
    <3>2. For(op, at, e) \in Task
      BY <2>1, <3>1 DEF For, Task
    <3>3. \A n \in 0..MaxSalts : [For(op, at, e) EXCEPT !.salt = n] \in Task
      BY <3>2 DEF Task
    <3> QED BY <1>1, <3>2, <3>3
  <2>3. k.op = op /\ k.at = at /\ k.email = e /\ k.todo = << >> /\ k.next = "idle"
        /\ k.data = NotCached
    BY <1>1, <2>1 DEF For, Task
  <2>4. Able(k)
    BY <1>1, <2>3 DEF Able, Stores, OfAccounts
  <2>5. CallsOK'
    BY <1>0, <1>1, <2>2, <2>3, <2>4, IdleIsAble, TaskBecomes
  <2> QED BY <1>0, <1>1, <2>3, <2>5 DEF CallsOK
<1>2. NoEmail \in Addresses /\ Emails \subseteq Addresses /\ settings.email \in Addresses
      /\ settings.salt \in 0..MaxSalts /\ 0 \in 0..MaxSalts
  BY <1>0, ZeroIs DEF SessionOK, Addresses
<1>3. \A op : op \in OfAccounts \/ op \in {"scan", "logout", "delete", "validate", "redeem",
             "refresh", "init"} => op \in Operation /\ op \notin {"retry", "update"}
  BY DEF Operation, OfAccounts
<1>4. CASE Scan(c)
  <2> DEFINE k == For("scan", "check", NoEmail)
  <2>1. call' = [call EXCEPT ![c] = k]
    BY <1>4 DEF Scan, Begin
  <2>2. "scan" \in Operation /\ "scan" \notin OfAccounts
    BY <1>3 DEF OfAccounts
  <2>3. CallsOK' /\ call' = [call EXCEPT ![c] = call'[c]]
        /\ call'[c].todo = << >>
    BY <1>1, <1>2, <2>1, <2>2
  <2> QED BY <1>4, <2>3
<1>5. CASE BeginCredentials(c)
  <2>1. PICK e \in Emails, op \in OfAccounts, at \in {"ident", "salt", "ask"} :
          /\ call' = [call EXCEPT ![c] = For(op, at, e)]
          /\ at = "salt" => op = "login"
    BY <1>5 DEF BeginCredentials, Begin, OfAccounts
  <2>2. op \notin {"scan", "refresh"}
    BY DEF OfAccounts
  <2> DEFINE k == For(op, at, e)
  <2>3. call' = [call EXCEPT ![c] = k]
    BY <2>1
  <2>4. op \in Operation /\ op \notin {"retry", "update"}
    BY <1>3
  <2>5. CallsOK' /\ call'[c].op = op /\ call' = [call EXCEPT ![c] = call'[c]]
        /\ call'[c].todo = << >>
    BY <1>1, <1>2, <2>1, <2>2, <2>3, <2>4
  <2> QED BY <2>2, <2>5
<1>6. CASE BeginSignedIn(c)
  <2>1. CASE call' = [call EXCEPT ![c] = For("logout", "ident", settings.email)]
    <3>1. "logout" \in Operation /\ "logout" \notin OfAccounts
      BY <1>3 DEF OfAccounts
    <3> QED BY <1>1, <1>2, <2>1, <3>1
  <2>2. ASSUME NEW at \in {"salt", "ask"},
               call' = [call EXCEPT ![c] =
                          [For("delete", at, settings.email) EXCEPT !.salt = settings.salt]]
        PROVE  CallsOK' /\ call'[c].op = "delete" /\ call' = [call EXCEPT ![c] = call'[c]]
        /\ call'[c].todo = << >>
    <3>1. "delete" \in Operation /\ "delete" \notin OfAccounts
      BY <1>3 DEF OfAccounts
    <3> QED BY <1>1, <1>2, <2>2, <3>1
  <2> QED BY <1>6, <2>1, <2>2 DEF BeginSignedIn, Begin, CachedSalt
<1>7. CASE BeginProCall(c)
  <2>1. PICK op \in {"validate", "redeem", "refresh"}, at \in {"ident", "ask", "check"} :
          /\ call' = [call EXCEPT ![c] = For(op, at, NoEmail)]
          /\ op = "refresh" => at = "check"
    BY <1>7 DEF BeginProCall, Begin
  <2> DEFINE k == For(op, at, NoEmail)
  <2>2. /\ op \in Operation /\ op \notin {"retry", "update", "scan"} /\ op \notin OfAccounts
        /\ at \in {"ident", "salt", "ask", "check", "init"} /\ at # "salt"
    BY <1>3, <2>1 DEF OfAccounts
  <2>3. call' = [call EXCEPT ![c] = k] /\ k = For(op, at, NoEmail)
    BY <2>1
  <2> HIDE DEF k
  <2>4. CallsOK' /\ call'[c].op = op /\ call' = [call EXCEPT ![c] = call'[c]]
        /\ call'[c].todo = << >>
    BY <1>1, <1>2, <2>1, <2>2, <2>3
  <2> QED BY <2>2, <2>4
<1>8. CASE AfterStart(c)
  <2> DEFINE k == For("init", "init", NoEmail)
  <2>1. call' = [call EXCEPT ![c] = k]
    BY <1>8 DEF AfterStart
  <2>2. "init" \in Operation /\ "init" \notin OfAccounts
    BY <1>3 DEF OfAccounts
  <2> QED BY <1>1, <1>2, <2>1, <2>2
<1> QED BY <1>4, <1>5, <1>6, <1>7, <1>8

LEMMA CallsStep == AccountInv /\ [DesktopNext]_desktopVars => CallsOK'
<1> SUFFICES ASSUME AccountInv, [DesktopNext]_desktopVars PROVE CallsOK'
  OBVIOUS
<1>0. ServerGrows /\ ServerOK /\ CallsOK
  BY ServerStep DEF AccountInv
<1>1. CASE Crash
  <2>1. call' = [d \in Calls |-> Idle]
    BY <1>1 DEF Crash, Exit
  <2> QED BY <2>1, IdleIsAble DEF CallsOK
<1>2. CASE UNCHANGED desktopVars
  BY <1>0, <1>2, SameCalls DEF desktopVars
<1> QED BY <1>0, <1>1, <1>2, StepIsAble, BeginIsAble DEF DesktopNext

-----------------------------------------------------------------------------
(* One call moves at a time, and no call becomes a scan.                   *)

LEMMA StepsAreOfActive == \A c \in Calls : Step(c) => Active(c)
<1> USE DEF Active
<1>1. ASSUME NEW c \in Calls, Write(c) \/ SetUserData(c) \/ UserConfig(c) \/ GetSalt(c) \/ Fail(c)
             \/ SignUp(c) \/ Login(c) \/ SignOut(c) \/ CompleteRecoveryByEmail(c)
      PROVE  Active(c)
  BY <1>1 DEF Write, SetUserData, UserConfig, GetSalt, Fail, SignUp, Login, SignOut,
              CompleteRecoveryByEmail, Asks
<1>2. ASSUME NEW c \in Calls, DeleteAccount(c) \/ UserCreate(c) \/ CheckCache(c) \/ ReadKey(c)
             \/ FetchUserData(c) \/ UserLinkValidate(c) \/ StartUpdate(c) \/ UpdateUserData(c)
      PROVE  Active(c)
  BY <1>2 DEF DeleteAccount, UserCreate, CheckCache, ReadKey, FetchUserData, UserLinkValidate,
              StartUpdate, UpdateUserData, Asks
<1>3. ASSUME NEW c \in Calls, RedeemResellerCode(c) \/ MakeAnnouncements(c) \/ FetchOrCreateUser(c)
             \/ RetryCreateUser(c)
      PROVE  Active(c)
  BY <1>3 DEF RedeemResellerCode, MakeAnnouncements, FetchOrCreateUser, RetryCreateUser, Asks
<1> QED BY <1>1, <1>2, <1>3 DEF Step

LEMMA StepsAreOfOne ==
  ASSUME CallsOK, NEW c \in Calls, Step(c), ~Exit
  PROVE  /\ call' = [call EXCEPT ![c] = call'[c]]
         /\ call'[c].op = "scan" => call[c].op = "scan"
         /\ \A d \in Calls : d # c => call'[d] = call[d]
<1> DEFINE One(k) == call' = [call EXCEPT ![c] = k] /\ (k.op = "scan" => call[c].op = "scan")
<1>0. call[c] \in Task /\ call \in [Calls -> Task]
  BY DEF CallsOK
<1> SUFFICES \E k : One(k)
  BY <1>0
<1>1. ASSUME End(c) PROVE One(Idle)
  BY <1>1 DEF End, Idle
<1>2. ASSUME NEW txs, NEW next, Answered(c, txs, next)
      PROVE  One([call[c] EXCEPT !.todo = txs, !.at = "write", !.next = next])
  BY <1>0, <1>2 DEF Answered, Task
<1>3. ASSUME NEW srv, NEW txs, NEW next, NEW what, Reply(c, srv, txs, next, what)
      PROVE  \E k : One(k)
  BY <1>1, <1>2, <1>3 DEF Reply
<1> HIDE DEF One
<1>4. CASE SetUserData(c) \/ Fail(c) \/ UserCreate(c) \/ SignUp(c) \/ SignOut(c)
           \/ CompleteRecoveryByEmail(c) \/ DeleteAccount(c)
  BY <1>1, <1>3, <1>4 DEF SetUserData, Fail, UserCreate, SignUp, SignOut, CompleteRecoveryByEmail,
                          DeleteAccount
<1>5. CASE UserLinkValidate(c) \/ RedeemResellerCode(c)
  BY <1>3, <1>5 DEF UserLinkValidate, RedeemResellerCode
<1>6. CASE UpdateUserData(c) \/ MakeAnnouncements(c)
  BY <1>1, <1>2, <1>6 DEF UpdateUserData, MakeAnnouncements
<1>7. CASE UserConfig(c)
  <2>1. One([call[c] EXCEPT !.uid = settings.userID, !.at = "ask"])
    BY <1>0, <1>7 DEF UserConfig, One, Task
  <2> QED BY <2>1
<1>8. CASE GetSalt(c)
  <2>1. One([call[c] EXCEPT !.salt = server.account[call[c].email].salt, !.at = "ask"])
    BY <1>0, <1>8 DEF GetSalt, One, Task
  <2> QED BY <2>1
<1>9. CASE CheckCache(c)
  <2>1. End(c) \/ \E at \in {"announce", "ident", "key"} : One([call[c] EXCEPT !.at = at])
    BY <1>0, <1>9 DEF CheckCache, One, Task
  <2> QED BY <1>1, <2>1
<1>10. CASE ReadKey(c)
  <2>1. End(c) \/ One([call[c] EXCEPT !.key = settings.userID, !.at = "ident"])
    BY <1>0, <1>10 DEF ReadKey, One, Task
  <2> QED BY <1>1, <2>1
<1>11. CASE StartUpdate(c)
  <2>1. One([call[c] EXCEPT !.op = "update", !.at = "ident"])
    BY <1>0, <1>11 DEF StartUpdate, One, Task
  <2> QED BY <2>1
<1>12. CASE FetchOrCreateUser(c)
  <2>1. \/ One([call[c] EXCEPT !.op = "refresh", !.at = "check"])
        \/ One([call[c] EXCEPT !.op = "retry", !.at = "write",
                               !.todo = <<[firstVisit |-> TRUE]>>, !.next = "ask"])
    BY <1>0, <1>12 DEF FetchOrCreateUser, One, Task
  <2> QED BY <2>1
<1>13. CASE RetryCreateUser(c)
  <2>1. CASE UNCHANGED call
    <3>1. One(call[c])
      BY <1>0, <2>1 DEF One
    <3> QED BY <3>1
  <2> QED BY <1>2, <1>13, <2>1 DEF RetryCreateUser
<1>14. CASE Write(c)
  <2> DEFINE rest == Tail(call[c].todo)
  <2>1. \/ One([call[c] EXCEPT !.todo = rest, !.wrote = TRUE]) \/ End(c)
        \/ One([call[c] EXCEPT !.todo = rest, !.wrote = TRUE, !.at = call[c].next])
    BY <1>0, <1>14 DEF Write, One, Task, End
  <2> QED BY <1>1, <2>1
<1>15. CASE FetchUserData(c)
  <2>1. PICK e : call' = [call EXCEPT ![c].at = "write", ![c].data = UserDetails(call[c].uid),
              ![c].next = IF call[c].op = "scan" THEN "announce" ELSE "store",
              ![c].todo = SetUserIDAndToken(call[c].uid)
                            \o <<[email |-> e], [pro |-> server.pro[call[c].uid]]>>]
    BY <1>15 DEF FetchUserData
  <2> DEFINE txs == SetUserIDAndToken(call[c].uid)
                      \o <<[email |-> e], [pro |-> server.pro[call[c].uid]]>>
             det == UserDetails(call[c].uid)
             next == IF call[c].op = "scan" THEN "announce" ELSE "store"
             k == [call[c] EXCEPT !.at = "write", !.data = det, !.next = next, !.todo = txs]
  <2>2. call' = [call EXCEPT ![c] = k]
    BY <2>1
  <2> HIDE DEF txs, det, next
  <2>3. k.op = call[c].op
    BY <1>0 DEF Task
  <2> HIDE DEF k
  <2>4. One(k)
    BY <2>2, <2>3 DEF One
  <2> QED BY <2>4
<1>16. CASE Login(c)
  <2> DEFINE u == server.account[call[c].email].user
             txs == <<[salt |-> call[c].salt], [loggedIn |-> TRUE], [email |-> call[c].email]>>
             k1 == [call[c] EXCEPT !.key = u, !.next = "store", !.data = UserDetails(u),
                                   !.at = "write", !.todo = txs]
             k2 == [call[c] EXCEPT !.key = u, !.next = "store", !.data = DeviceLimitFlow(u),
                                   !.at = "store", !.todo = << >>]
  <2>1. call' \in {[call EXCEPT ![c] = k1], [call EXCEPT ![c] = k2]}
    BY <1>16 DEF Login
  <2> HIDE DEF txs, u
  <2>2. k1.op = call[c].op /\ k2.op = call[c].op
    BY <1>0 DEF Task
  <2> HIDE DEF k1, k2
  <2>3. One(k1) \/ One(k2)
    BY <2>1, <2>2 DEF One
  <2> QED BY <2>3
<1> QED BY <1>4, <1>5, <1>6, <1>7, <1>8, <1>9, <1>10, <1>11, <1>12, <1>13, <1>14, <1>15, <1>16
        DEF Step

LEMMA OneScanStep == AccountInv /\ [DesktopNext]_desktopVars => OneScan'
<1> SUFFICES ASSUME AccountInv, [DesktopNext]_desktopVars PROVE OneScan'
  OBVIOUS
<1>0. CallsOK /\ OneScan /\ ServerGrows
  BY ServerStep DEF AccountInv
<1>1. CASE Exit
  <2>1. \A c \in Calls : call'[c].op = "none"
    BY <1>1 DEF Exit, Idle
  <2> QED BY <2>1 DEF OneScan
<1>2. ASSUME NEW c \in Calls, Step(c), ~Exit PROVE OneScan'
  BY <1>0, <1>2, StepsAreOfOne DEF OneScan
<1>3. ASSUME NEW c \in Calls,
             Scan(c) \/ BeginCredentials(c) \/ BeginSignedIn(c) \/ BeginProCall(c) \/ AfterStart(c)
      PROVE  OneScan'
  <2>1. /\ call'[c].op = "scan" => \A d \in Calls : call[d].op # "scan"
        /\ \A d \in Calls : d # c => call'[d] = call[d]
    BY <1>0, <1>3, BeginIsAble DEF Scan, CallsOK
  <2> QED BY <1>0, <2>1 DEF OneScan
<1>4. CASE UNCHANGED desktopVars
  BY <1>0, <1>4 DEF desktopVars, OneScan
<1> QED BY <1>1, <1>2, <1>3, <1>4 DEF DesktopNext, Crash

LEMMA DownStep == AccountInv /\ [DesktopNext]_desktopVars => DownIsIdle'
<1> SUFFICES ASSUME AccountInv, [DesktopNext]_desktopVars PROVE DownIsIdle'
  OBVIOUS
<1>0. CallsOK /\ DownIsIdle
  BY DEF AccountInv
<1>1. CASE Exit
  BY <1>1 DEF Exit, DownIsIdle
<1>2. ASSUME NEW c \in Calls, Step(c), ~Exit PROVE DownIsIdle'
  <2>1. up
    BY <1>0, <1>2, StepsAreOfActive DEF DownIsIdle, Active, Idle
  <2>2. up' = up
    <3>1. CASE SetUserData(c) \/ UserConfig(c) \/ GetSalt(c) \/ Fail(c) \/ SignUp(c) \/ Login(c)
      BY <3>1 DEF SetUserData, UserConfig, GetSalt, Fail, SignUp, Login, Reply
    <3>2. CASE SignOut(c) \/ CompleteRecoveryByEmail(c) \/ DeleteAccount(c) \/ UserCreate(c)
      BY <3>2 DEF SignOut, CompleteRecoveryByEmail, DeleteAccount, UserCreate, Reply
    <3>3. CASE CheckCache(c) \/ ReadKey(c) \/ FetchUserData(c) \/ UserLinkValidate(c)
               \/ StartUpdate(c)
      BY <3>3 DEF CheckCache, ReadKey, FetchUserData, UserLinkValidate, StartUpdate, Reply
    <3>4. CASE UpdateUserData(c) \/ RedeemResellerCode(c) \/ MakeAnnouncements(c)
               \/ FetchOrCreateUser(c) \/ RetryCreateUser(c) \/ Write(c)
      BY <1>2, <3>4 DEF UpdateUserData, RedeemResellerCode, MakeAnnouncements, FetchOrCreateUser,
                        RetryCreateUser, Write, Reply
    <3> QED BY <1>2, <3>1, <3>2, <3>3, <3>4 DEF Step
  <2> QED BY <2>1, <2>2 DEF DownIsIdle
<1>3. ASSUME NEW c \in Calls, Scan(c) \/ BeginCredentials(c) \/ BeginSignedIn(c) \/ BeginProCall(c)
      PROVE  DownIsIdle'
  BY <1>3, Begins DEF Begin, DownIsIdle
<1>4. ASSUME NEW c \in Calls, AfterStart(c) PROVE DownIsIdle'
  BY <1>4 DEF AfterStart, DownIsIdle
<1>5. CASE UNCHANGED desktopVars
  BY <1>0, <1>5 DEF desktopVars, DownIsIdle
<1> QED BY <1>1, <1>2, <1>3, <1>4, <1>5 DEF DesktopNext, Crash

-----------------------------------------------------------------------------
(* The cached users.                                                       *)

\* The steps that leave the cache alone.
LEMMA KeepsCache ==
  ASSUME NEW c \in Calls, Step(c), ~SetUserData(c), ~Exit PROVE UNCHANGED cache
<1>1. CASE Write(c) \/ UserConfig(c) \/ GetSalt(c) \/ Fail(c) \/ SignUp(c) \/ Login(c)
  BY <1>1 DEF Write, UserConfig, GetSalt, Fail, SignUp, Login, Reply
<1>2. CASE SignOut(c) \/ CompleteRecoveryByEmail(c) \/ DeleteAccount(c) \/ UserCreate(c)
  BY <1>2 DEF SignOut, CompleteRecoveryByEmail, DeleteAccount, UserCreate, Reply
<1>3. CASE CheckCache(c) \/ ReadKey(c) \/ FetchUserData(c) \/ UserLinkValidate(c)
           \/ StartUpdate(c)
  BY <1>3 DEF CheckCache, ReadKey, FetchUserData, UserLinkValidate, StartUpdate, Reply
<1>4. CASE UpdateUserData(c) \/ RedeemResellerCode(c) \/ MakeAnnouncements(c)
           \/ FetchOrCreateUser(c) \/ RetryCreateUser(c)
  BY <1>4 DEF UpdateUserData, RedeemResellerCode, MakeAnnouncements, FetchOrCreateUser,
                    RetryCreateUser, Reply
<1> QED BY <1>1, <1>2, <1>3, <1>4 DEF Step

LEMMA CacheStep == AccountInv /\ [DesktopNext]_desktopVars => CacheOK'
<1> SUFFICES ASSUME AccountInv, [DesktopNext]_desktopVars PROVE CacheOK'
  OBVIOUS
<1>0. CallsOK /\ CacheOK /\ ServerOK /\ ServerGrows
  BY ServerStep DEF AccountInv
<1>1. CASE UNCHANGED cache
  BY <1>0, <1>1, StaysKnown DEF CacheOK
<1>2. CASE Exit
  <2>1. cache' = [u \in ProUsers |-> NotCached]
    BY <1>2 DEF Exit
  <2> QED BY <2>1, IdleIsAble DEF CacheOK
<1>3. ASSUME NEW c \in Calls, SetUserData(c) PROVE CacheOK'
  <2>1. /\ call[c].key \in ProUsers /\ call[c].data \in Cached /\ Known(call[c].data, server')
        /\ cache' = [cache EXCEPT ![call[c].key] = call[c].data]
    <3>1. call[c].key # 0 /\ call[c].key \in 0..MaxUsers /\ call[c].data \in Cached
          /\ Known(call[c].data, server)
      BY <1>0, <1>3 DEF CallsOK, Able, Stores, Task, SetUserData
    <3>2. call[c].key \in ProUsers
      BY <3>1, DesktopAccountAssumption DEF ProUsers, DesktopAccountAssumption
    <3> QED BY <1>0, <1>3, <3>1, <3>2, StaysKnown DEF SetUserData
  <2>2. \A u \in ProUsers : Known(cache[u], server')
    BY <1>0, StaysKnown DEF CacheOK
  <2> QED BY <1>0, <2>1, <2>2 DEF CacheOK
<1>4. ASSUME NEW c \in Calls, Step(c), ~SetUserData(c), ~Exit PROVE UNCHANGED cache
  BY <1>4, KeepsCache
<1>5. ASSUME NEW c \in Calls, Scan(c) \/ BeginCredentials(c) \/ BeginSignedIn(c) \/ BeginProCall(c)
      PROVE  UNCHANGED cache
  BY <1>5, Begins DEF Begin
<1>6. CASE UNCHANGED desktopVars \/ \E c \in Calls : AfterStart(c)
  BY <1>1, <1>6 DEF desktopVars, AfterStart
<1> QED BY <1>1, <1>2, <1>3, <1>4, <1>5, <1>6 DEF DesktopNext, Crash

LEMMA AccountStep == AccountInv /\ [DesktopNext]_desktopVars => AccountInv'
  BY SessionStep, ServerStep, CallsStep, OneScanStep, DownStep, CacheStep
     DEF AccountInv, ServerGrows

LEMMA AccountStart == DesktopInit => AccountInv
<1> SUFFICES ASSUME DesktopInit PROVE AccountInv
  OBVIOUS
<1>1. SessionOK
  <2>1. {} \in SUBSET Campaigns
    OBVIOUS
  <2> QED BY <2>1, ZeroIs DEF DesktopInit, SessionOK
<1>2. ServerOK
  <2>1. PICK e \in Emails, full \in SUBSET {1} :
         server = [account |-> [f \in Emails |-> IF f = e THEN [user |-> 1, salt |-> 1]
                                                ELSE NoAccount],
                   users |-> 1, salts |-> 1, pro |-> [u \in ProUsers |-> u = 1],
                   linked |-> {}, full |-> full]
    BY DEF DesktopInit
  <2>2. [user |-> 1, salt |-> 1] \in [user : ProUsers, salt : 1..MaxSalts] /\ 1 \in ProUsers
    BY ZeroIs
  <2>3. full \in SUBSET ProUsers /\ {} \in SUBSET ProUsers /\ 1 \in 1..MaxUsers /\ 1 \in 1..MaxSalts
    BY <2>2, ZeroIs
  <2> QED BY <2>1, <2>2, <2>3 DEF ServerOK
<1>3. CallsOK /\ OneScan /\ DownIsIdle
  <2>1. call = [c \in Calls |-> Idle] /\ Idle.op = "none"
    BY DEF DesktopInit, Idle
  <2> QED BY <2>1, IdleIsAble DEF CallsOK, OneScan, DownIsIdle
<1>4. CacheOK
  BY IdleIsAble DEF DesktopInit, CacheOK
<1> QED BY <1>1, <1>2, <1>3, <1>4 DEF AccountInv

-----------------------------------------------------------------------------
(* Announcements: what has been shown is recorded, or the scan that showed *)
(* it is about to record it.                                               *)

Recording(k, P) == k.todo = <<[past |-> P]>>

ScanInv ==
  /\ shown \in [Campaigns -> Nat]
  /\ "crash" \notin mishaps =>
       /\ \A x \in Campaigns : shown[x] <= 1
       /\ \A x \in Campaigns : shown[x] = 1 =>
             \/ x \in settings.past
             \/ \E c \in Calls : \E P \in SUBSET Campaigns : Recording(call[c], P) /\ x \in P
       /\ \A c \in Calls : \A P \in SUBSET Campaigns :
             Recording(call[c], P) => settings.past \subseteq P

LEMMA MishapsGrow == [DesktopNext]_desktopVars => mishaps \subseteq mishaps' \cup {"deleted"}
<1> SUFFICES ASSUME [DesktopNext]_desktopVars PROVE mishaps \subseteq mishaps' \cup {"deleted"}
  OBVIOUS
<1>1. CASE Crash
  BY <1>1 DEF Crash
<1>2. ASSUME NEW c \in Calls, Scan(c) \/ BeginCredentials(c) \/ BeginSignedIn(c) \/ BeginProCall(c)
      PROVE  mishaps \subseteq mishaps'
  BY <1>2, Begins DEF Begin
<1>3. ASSUME NEW c \in Calls, AfterStart(c) PROVE mishaps \subseteq mishaps' \cup {"deleted"}
  BY <1>3 DEF AfterStart
<1>4. ASSUME NEW c \in Calls, Step(c) PROVE mishaps \subseteq mishaps'
  <2>1. CASE SetUserData(c) \/ UserConfig(c) \/ GetSalt(c) \/ Fail(c) \/ SignUp(c) \/ Login(c)
    BY <2>1 DEF SetUserData, UserConfig, GetSalt, Fail, SignUp, Login, Reply
  <2>2. CASE SignOut(c) \/ CompleteRecoveryByEmail(c) \/ DeleteAccount(c) \/ UserCreate(c)
    BY <2>2 DEF SignOut, CompleteRecoveryByEmail, DeleteAccount, UserCreate, Reply
  <2>3. CASE CheckCache(c) \/ ReadKey(c) \/ FetchUserData(c) \/ UserLinkValidate(c)
             \/ StartUpdate(c)
    BY <2>3 DEF CheckCache, ReadKey, FetchUserData, UserLinkValidate, StartUpdate, Reply
  <2>4. CASE UpdateUserData(c) \/ RedeemResellerCode(c) \/ MakeAnnouncements(c)
             \/ FetchOrCreateUser(c) \/ RetryCreateUser(c) \/ Write(c)
    BY <2>4 DEF UpdateUserData, RedeemResellerCode, MakeAnnouncements, FetchOrCreateUser,
                RetryCreateUser, Write, Reply
  <2> QED BY <1>4, <2>1, <2>2, <2>3, <2>4 DEF Step
<1>5. CASE UNCHANGED desktopVars
  BY <1>5 DEF desktopVars
<1> QED BY <1>1, <1>2, <1>3, <1>4, <1>5 DEF DesktopNext

LEMMA RecordIs ==
  /\ \A tx \in Plain : "past" \notin DOMAIN tx
  /\ \A P : <<[past |-> P]>> \notin Seq(Plain)
<1>1. ASSUME NEW tx \in Plain PROVE "past" \notin DOMAIN tx
  <2>1. \A u \in 0..MaxUsers : "past" \notin DOMAIN [userID |-> u, token |-> u]
    OBVIOUS
  <2>2. CASE tx \in Identities
    BY <2>1, <2>2 DEF Identities
  <2>3. CASE tx \in [salt : 0..MaxSalts] \cup [email : Addresses]
    BY <2>3
  <2>4. CASE tx \in [pro : BOOLEAN]
    BY <2>4
  <2>5. CASE tx \in [loggedIn : BOOLEAN]
    BY <2>5
  <2>6. CASE tx \in [firstVisit : {TRUE}]
    BY <2>6
  <2> QED BY <2>2, <2>3, <2>4, <2>5, <2>6 DEF Plain
<1>2. ASSUME NEW P, <<[past |-> P]>> \in Seq(Plain) PROVE FALSE
  <2> DEFINE tx == [past |-> P]
  <2>1. "past" \in DOMAIN tx
    OBVIOUS
  <2> HIDE DEF tx
  <2>2. <<tx>> \in Seq(Plain)
    BY <1>2 DEF tx
  <2>3. tx \in Plain
    BY <2>2
  <2> QED BY <1>1, <2>1, <2>3
<1> QED BY <1>1, <1>2

\* Only a scan that writes records, and that alone.
LEMMA OnlyScansRecord ==
  ASSUME NEW k, Able(k), NEW P, Recording(k, P)
  PROVE  k.op = "scan" /\ k.at = "write" /\ k.next = "idle" /\ k.todo \notin Seq(Plain)
<1>1. k.todo \notin Seq(Plain)
  BY RecordIs DEF Recording
<1>2. k.todo # << >>
  BY DEF Recording
<1> QED BY <1>1, <1>2 DEF Able

LEMMA CallsRecord ==
  ASSUME AccountInv
  PROVE  \A c \in Calls : \A P : Recording(call[c], P) =>
            /\ call[c].op = "scan" /\ call[c].at = "write" /\ call[c].next = "idle"
            /\ call[c].todo \notin Seq(Plain)
            /\ \A d \in Calls : call[d].op = "scan" => d = c
<1> SUFFICES ASSUME NEW c \in Calls, NEW P, Recording(call[c], P)
             PROVE  /\ call[c].op = "scan" /\ call[c].at = "write" /\ call[c].next = "idle"
                    /\ call[c].todo \notin Seq(Plain)
                    /\ \A d \in Calls : call[d].op = "scan" => d = c
  OBVIOUS
<1>1. Able(call[c])
  BY DEF AccountInv, CallsOK
<1>2. /\ call[c].op = "scan" /\ call[c].at = "write" /\ call[c].next = "idle"
      /\ call[c].todo \notin Seq(Plain)
  BY <1>1, OnlyScansRecord
<1> QED BY <1>2 DEF AccountInv, OneScan

\* A plain transaction keeps the record.
LEMMA PlainKeepsPast ==
  ASSUME SessionOK, NEW tx \in Plain, settings' = Put(tx)
  PROVE  settings'.past = settings.past
<1>1. "past" \notin DOMAIN tx
  BY RecordIs
<1>2. "past" \in DOMAIN settings
  BY DEF SessionOK
<1> QED BY <1>1, <1>2 DEF Put

\* The steps after which the same campaigns are shown, recorded and being recorded.
LEMMA SameScan ==
  ASSUME ScanInv, [DesktopNext]_desktopVars, UNCHANGED <<shown, settings>>, NEW c \in Calls,
         \A d \in Calls : d # c => call'[d] = call[d],
         \A P : ~Recording(call[c], P), \A P : ~Recording(call'[c], P)
  PROVE  ScanInv'
<1>1. \A d \in Calls : \A P : Recording(call'[d], P) <=> Recording(call[d], P)
  BY DEF Recording
<1>2. "crash" \notin mishaps' => "crash" \notin mishaps
  BY MishapsGrow
<1> HIDE DEF Recording
<1> QED BY <1>1, <1>2 DEF ScanInv

\* The process ends: nobody was recording, or it crashed.
LEMMA ExitScan ==
  ASSUME AccountInv, ScanInv, [DesktopNext]_desktopVars, Exit,
         \/ "crash" \in mishaps' \/ \A c \in Calls : call[c].at # "write"
  PROVE  ScanInv'
<1>1. UNCHANGED <<shown, settings>> /\ \A c \in Calls : call'[c].todo = << >>
  BY DEF Exit, Idle
<1>2. \A c \in Calls : \A P : ~Recording(call'[c], P)
  BY <1>1 DEF Recording
<1>3. "crash" \notin mishaps'
        => "crash" \notin mishaps /\ \A c \in Calls : \A P : ~Recording(call[c], P)
  BY MishapsGrow, CallsRecord
<1> HIDE DEF Recording
<1> QED BY <1>1, <1>2, <1>3 DEF ScanInv

\* Saving a setting keeps the campaigns, or is what the scan does.
LEMMA WriteScan ==
  ASSUME AccountInv, ScanInv, [DesktopNext]_desktopVars, NEW c \in Calls, Write(c)
  PROVE  ScanInv'
<1> DEFINE k == call[c]
           rest == Tail(k.todo)
<1>1. /\ CallsOK /\ k \in Task /\ Able(k) /\ k.at = "write" /\ k.todo # << >>
      /\ settings' = Put(Head(k.todo)) /\ shown' = shown
      /\ \A d \in Calls : d # c => call'[d] = call[d]
      /\ call'[c].todo \in {rest, << >>}
  <2>1. CallsOK
    BY DEF AccountInv
  <2>2. call'[c] \in {[k EXCEPT !.todo = rest, !.wrote = TRUE], Idle,
                      [k EXCEPT !.todo = rest, !.wrote = TRUE, !.at = k.next]}
        /\ \A d \in Calls : d # c => call'[d] = call[d]
    BY <2>1 DEF Write, CallsOK
  <2>3. call'[c].todo \in {rest, << >>}
    <3>1. k \in Task
      BY <2>1 DEF CallsOK
    <3> DEFINE k1 == [k EXCEPT !.todo = rest, !.wrote = TRUE]
               k2 == [k EXCEPT !.todo = rest, !.wrote = TRUE, !.at = k.next]
    <3>2. k1.todo = rest /\ k2.todo = rest
      BY <3>1 DEF Task
    <3>3. Idle.todo = << >>
      BY DEF Idle
    <3> HIDE DEF k1, k2, rest
    <3>4. call'[c] \in {k1, Idle, k2}
      BY <2>2 DEF k1, k2
    <3> QED BY <3>2, <3>3, <3>4
  <2> QED BY <2>1, <2>2, <2>3, HeadIs DEF Write
<1>2. CASE k.todo \in Seq(Plain)
  <2> DEFINE txs == k.todo
  <2>0. txs \in Seq(Plain) /\ txs # << >>
    BY <1>1, <1>2
  <2>1. Head(k.todo) \in Plain /\ call'[c].todo \in Seq(Plain)
    <3> HIDE DEF txs
    <3>1. Head(txs) \in Plain /\ Tail(txs) \in Seq(Plain) /\ << >> \in Seq(Plain)
      BY <2>0
    <3> QED BY <1>1, <3>1 DEF txs
  <2>2. settings'.past = settings.past
    BY <1>1, <2>1, PlainKeepsPast DEF AccountInv
  <2>3. \A P : ~Recording(call[c], P) /\ ~Recording(call'[c], P)
    BY <1>2, <2>1, RecordIs DEF Recording
  <2>4. \A d \in Calls : \A P : Recording(call'[d], P) <=> Recording(call[d], P)
    BY <1>1, <2>3 DEF Recording
  <2>5. "crash" \notin mishaps' => "crash" \notin mishaps
    BY MishapsGrow
  <2> HIDE DEF k, rest
  <2> QED BY <1>1, <2>2, <2>4, <2>5 DEF ScanInv
<1>3. ASSUME NEW tx \in Record, k.todo = <<tx>>, k.op = "scan"
      PROVE  ScanInv'
  <2>1. PICK P \in SUBSET Campaigns : tx = [past |-> P]
    BY <1>3 DEF Record
  <2>2. Recording(call[c], P) /\ rest = << >> /\ Head(k.todo) = [past |-> P]
    BY <1>3, <2>1, OnlyScansRecord DEF Recording
  <2>3. settings'.past = P
    BY <1>1, <2>2 DEF AccountInv, SessionOK, Put
  <2>4. \A d \in Calls : \A Q : Recording(call[d], Q) => d = c /\ Q = P
    <3>1. \A d \in Calls : \A Q : Recording(call[d], Q) => d = c
      BY <1>3, CallsRecord
    <3>2. ASSUME NEW Q, Recording(call[c], Q) PROVE Q = P
      <4>1. [past |-> Q] = [past |-> P]
        BY <2>2, <3>2, OnlyScansRecord DEF Recording
      <4> QED BY <4>1
    <3> QED BY <3>1, <3>2
  <2>5. \A d \in Calls : \A Q : ~Recording(call'[d], Q)
    <3>1. \A Q : ~Recording(call'[c], Q)
      BY <1>1, <2>2 DEF Recording
    <3>2. \A d \in Calls : \A Q : d # c => ~Recording(call'[d], Q)
      BY <1>1, <2>4 DEF Recording
    <3> QED BY <3>1, <3>2
  <2>6. "crash" \notin mishaps' => "crash" \notin mishaps
    BY MishapsGrow
  <2> HIDE DEF k, rest, Recording
  <2>7. ASSUME "crash" \notin mishaps', NEW x \in Campaigns, shown[x] = 1
        PROVE  x \in settings'.past
    <3>1. settings.past \subseteq P
      BY <2>2, <2>6, <2>7 DEF ScanInv
    <3>2. CASE x \in settings.past
      BY <2>3, <3>1, <3>2
    <3>3. ASSUME NEW d \in Calls, NEW Q \in SUBSET Campaigns, Recording(call[d], Q), x \in Q
          PROVE  x \in settings'.past
      BY <2>3, <2>4, <3>3
    <3> QED BY <2>6, <2>7, <3>2, <3>3 DEF ScanInv
  <2>8. shown' = shown
    BY <1>1
  <2> QED BY <2>5, <2>6, <2>7, <2>8 DEF ScanInv
<1> QED BY <1>1, <1>2, <1>3 DEF Able

\* A campaign is shown.
LEMMA AnnounceScan ==
  ASSUME AccountInv, ScanInv, [DesktopNext]_desktopVars, NEW c \in Calls, MakeAnnouncements(c)
  PROVE  ScanInv'
<1>1. /\ CallsOK /\ call[c].at = "announce" /\ call[c].op = "scan" /\ UNCHANGED settings
      /\ \A d \in Calls : \A P : ~Recording(call[d], P)
  <2>1. CallsOK /\ call[c].at = "announce" /\ call[c].op = "scan"
    BY DEF AccountInv, CallsOK, Able, MakeAnnouncements
  <2>2. \A d \in Calls : \A P : ~Recording(call[d], P)
    BY <2>1, CallsRecord
  <2> QED BY <2>1, <2>2 DEF MakeAnnouncements
<1>2. "crash" \notin mishaps' => "crash" \notin mishaps
  BY MishapsGrow
<1>3. CASE End(c) /\ UNCHANGED shown
  <2>1. \A d \in Calls : d # c => call'[d] = call[d]
    BY <1>1, <1>3 DEF End, CallsOK
  <2>2. \A P : ~Recording(call'[c], P)
    BY <1>1, <1>3 DEF End, Recording, CallsOK, Idle
  <2> QED BY <1>1, <1>3, <2>1, <2>2, SameScan
<1>4. ASSUME NEW x \in Campaigns, x \notin settings.past, shown' = [shown EXCEPT ![x] = @ + 1],
             Answered(c, <<[past |-> settings.past \cup {x}]>>, "idle")
      PROVE  ScanInv'
  <2> DEFINE P == settings.past \cup {x}
  <2>1. P \in SUBSET Campaigns /\ x \in P /\ settings.past \subseteq P
    BY DEF AccountInv, SessionOK
  <2>2. /\ \A d \in Calls : d # c => call'[d] = call[d]
        /\ call'[c].todo = <<[past |-> P]>>
    BY <1>1, <1>4 DEF Answered, CallsOK, Task
  <2> HIDE DEF P
  <2>3. Recording(call'[c], P) /\ \A d \in Calls : \A Q : Recording(call'[d], Q) => Q = P
    <3>1. Recording(call'[c], P)
      BY <2>2 DEF Recording
    <3>2. ASSUME NEW Q, Recording(call'[c], Q) PROVE Q = P
      <4>1. [past |-> Q] = [past |-> P]
        BY <2>2, <3>2, OnlyScansRecord DEF Recording
      <4> QED BY <4>1
    <3>3. \A d \in Calls : \A Q : d # c => ~Recording(call'[d], Q)
      BY <1>1, <2>2 DEF Recording
    <3> QED BY <3>1, <3>2, <3>3
  <2> HIDE DEF Recording
  <2>4. shown' \in [Campaigns -> Nat]
    BY <1>4 DEF ScanInv
  <2>5. "crash" \notin mishaps => shown[x] = 0
    BY <1>1, <1>4 DEF ScanInv
  <2>6. "crash" \notin mishaps' => \A y \in Campaigns :
          shown'[y] <= 1 /\ (shown'[y] = 1 => y \in settings.past \/ y = x)
    BY <1>1, <1>2, <1>4, <2>5 DEF ScanInv
  <2>7. settings'.past = settings.past
    BY <1>1
  <2>8. ASSUME "crash" \notin mishaps', NEW y \in Campaigns, shown'[y] = 1
        PROVE  \/ y \in settings'.past
               \/ \E d \in Calls : \E Q \in SUBSET Campaigns : Recording(call'[d], Q) /\ y \in Q
    BY <2>1, <2>3, <2>6, <2>7, <2>8
  <2>9. \A d \in Calls : \A Q \in SUBSET Campaigns :
          Recording(call'[d], Q) => settings'.past \subseteq Q
    BY <2>1, <2>3, <2>7
  <2>10. "crash" \notin mishaps' =>
           /\ \A y \in Campaigns : shown'[y] <= 1
           /\ \A y \in Campaigns : shown'[y] = 1 =>
                \/ y \in settings'.past
                \/ \E d \in Calls : \E Q \in SUBSET Campaigns : Recording(call'[d], Q) /\ y \in Q
    <3> SUFFICES ASSUME "crash" \notin mishaps', NEW y \in Campaigns
                 PROVE  /\ shown'[y] <= 1
                        /\ shown'[y] = 1 =>
                             \/ y \in settings'.past
                             \/ \E d \in Calls : \E Q \in SUBSET Campaigns :
                                  Recording(call'[d], Q) /\ y \in Q
      OBVIOUS
    <3>1. shown'[y] <= 1
      BY <2>6
    <3> QED BY <2>8, <3>1
  <2> QED BY <2>4, <2>9, <2>10 DEF ScanInv
<1>5. PICK x \in Campaigns :
        \/ End(c) /\ UNCHANGED shown
        \/ /\ x \notin settings.past /\ shown' = [shown EXCEPT ![x] = @ + 1]
           /\ Answered(c, <<[past |-> settings.past \cup {x}]>>, "idle")
  BY DEF MakeAnnouncements, GetAnnouncement
<1> QED BY <1>3, <1>4, <1>5

\* The other steps.
LEMMA OtherScan ==
  ASSUME AccountInv, ScanInv, [DesktopNext]_desktopVars, NEW c \in Calls, Step(c), ~Write(c),
         ~MakeAnnouncements(c), ~Exit
  PROVE  ScanInv'
<1>1. CallsOK /\ CallsOK' /\ UNCHANGED settings
  BY CallsStep, StepReads DEF AccountInv
<1>2. /\ \A d \in Calls : d # c => call'[d] = call[d]
      /\ call'[c].op = "scan" => call[c].op = "scan"
  BY <1>1, StepsAreOfOne
<1>3. UNCHANGED shown /\ call[c].at # "write"
  <2>1. CASE SetUserData(c) \/ UserConfig(c) \/ GetSalt(c) \/ Fail(c) \/ SignUp(c) \/ Login(c)
    BY <2>1 DEF SetUserData, UserConfig, GetSalt, Fail, SignUp, Login, Reply, Asks
  <2>2. CASE SignOut(c) \/ CompleteRecoveryByEmail(c) \/ DeleteAccount(c) \/ UserCreate(c)
    BY <2>2 DEF SignOut, CompleteRecoveryByEmail, DeleteAccount, UserCreate, Reply, Asks
  <2>3. CASE CheckCache(c) \/ ReadKey(c) \/ FetchUserData(c) \/ UserLinkValidate(c)
             \/ StartUpdate(c)
    BY <2>3 DEF CheckCache, ReadKey, FetchUserData, UserLinkValidate, StartUpdate, Reply, Asks
  <2>4. CASE UpdateUserData(c) \/ RedeemResellerCode(c) \/ FetchOrCreateUser(c)
             \/ RetryCreateUser(c)
    BY <2>4 DEF UpdateUserData, RedeemResellerCode, FetchOrCreateUser, RetryCreateUser, Reply, Asks
  <2> QED BY <2>1, <2>2, <2>3, <2>4 DEF Step
<1>4. call[c] \in Task /\ call \in [Calls -> Task]
  BY <1>1 DEF CallsOK
<1>5. call[c].op = "scan" => ~(call'[c].at = "write" /\ call'[c].next = "idle")
  <2> SUFFICES ASSUME call[c].op = "scan" PROVE ~(call'[c].at = "write" /\ call'[c].next = "idle")
    OBVIOUS
  <2>1. CASE SetUserData(c) \/ Fail(c) \/ UserCreate(c)
    BY <1>4, <2>1 DEF SetUserData, Fail, UserCreate, End, Idle
  <2>2. CASE UserConfig(c) \/ GetSalt(c)
    BY <1>4, <2>2 DEF UserConfig, GetSalt, Task
  <2>3. CASE CheckCache(c) \/ ReadKey(c)
    BY <1>4, <2>3 DEF CheckCache, ReadKey, End, Idle, Task
  <2>4. CASE StartUpdate(c)
    BY <1>4, <2>4 DEF StartUpdate, Task
  <2>5. CASE FetchUserData(c)
    <3>1. PICK txs, det : call' = [call EXCEPT ![c].at = "write", ![c].data = det,
                ![c].next = "announce", ![c].todo = txs]
      BY <2>5 DEF FetchUserData
    <3> QED BY <1>4, <3>1 DEF Task
  <2>6. CASE FetchOrCreateUser(c)
    BY <1>2, <1>4, <2>6 DEF FetchOrCreateUser, Task
  <2>7. ~(SignUp(c) \/ Login(c) \/ SignOut(c) \/ CompleteRecoveryByEmail(c) \/ DeleteAccount(c)
          \/ UserLinkValidate(c) \/ UpdateUserData(c) \/ RedeemResellerCode(c)
          \/ RetryCreateUser(c))
    BY DEF SignUp, Login, SignOut, CompleteRecoveryByEmail, DeleteAccount, UserLinkValidate,
           UpdateUserData, RedeemResellerCode, RetryCreateUser, Asks
  <2> QED BY <2>1, <2>2, <2>3, <2>4, <2>5, <2>6, <2>7 DEF Step
<1>6. \A P : ~Recording(call[c], P) /\ ~Recording(call'[c], P)
  <2>1. \A P : ~Recording(call[c], P)
    BY <1>3, CallsRecord
  <2>2. ASSUME NEW P, Recording(call'[c], P) PROVE FALSE
    <3>1. call'[c].op = "scan" /\ call'[c].at = "write" /\ call'[c].next = "idle"
      BY <1>1, <2>2, OnlyScansRecord DEF CallsOK, Able, Recording
    <3> QED BY <1>2, <1>5, <3>1
  <2> QED BY <2>1, <2>2
<1> QED BY <1>1, <1>2, <1>3, <1>6, SameScan

\* The only step of a call that ends the process.
LEMMA ExitIsRetrys ==
  ASSUME AccountInv, NEW c \in Calls, Step(c), Exit
  PROVE  /\ RetryCreateUser(c) /\ Asks(c, "retry")
         /\ mishaps' = IF \E d \in Calls \ {c} : Active(d) THEN mishaps \cup {"crash"} ELSE mishaps
<1>1. up /\ ~up'
  BY StepsAreOfActive DEF AccountInv, DownIsIdle, Active, Idle, Exit
<1>2. CASE SetUserData(c) \/ UserConfig(c) \/ GetSalt(c) \/ Fail(c) \/ SignUp(c) \/ Login(c)
  BY <1>1, <1>2 DEF SetUserData, UserConfig, GetSalt, Fail, SignUp, Login, Reply
<1>3. CASE SignOut(c) \/ CompleteRecoveryByEmail(c) \/ DeleteAccount(c) \/ UserCreate(c)
  BY <1>1, <1>3 DEF SignOut, CompleteRecoveryByEmail, DeleteAccount, UserCreate, Reply
<1>4. CASE CheckCache(c) \/ ReadKey(c) \/ FetchUserData(c) \/ UserLinkValidate(c)
           \/ StartUpdate(c)
  BY <1>1, <1>4 DEF CheckCache, ReadKey, FetchUserData, UserLinkValidate, StartUpdate, Reply
<1>5. CASE UpdateUserData(c) \/ RedeemResellerCode(c) \/ MakeAnnouncements(c)
           \/ FetchOrCreateUser(c) \/ Write(c)
  BY <1>1, <1>5 DEF UpdateUserData, RedeemResellerCode, MakeAnnouncements, FetchOrCreateUser,
                    Write, Reply
<1>6. RetryCreateUser(c)
  BY <1>2, <1>3, <1>4, <1>5 DEF Step
<1> QED BY <1>1, <1>6 DEF RetryCreateUser

LEMMA ScanStep == AccountInv /\ ScanInv /\ [DesktopNext]_desktopVars => ScanInv'
<1> SUFFICES ASSUME AccountInv, ScanInv, [DesktopNext]_desktopVars PROVE ScanInv'
  OBVIOUS
<1>0. CallsOK /\ ServerGrows
  BY ServerStep DEF AccountInv
<1>i. \A c \in Calls : ~Active(c) => call[c] = Idle /\ call[c].todo = << >>
  BY <1>0 DEF CallsOK, Able, Active, Idle
<1>1. CASE Crash
  <2>1. Quiet => \A c \in Calls : call[c].at # "write"
    BY DEF Quiet, Active
  <2> QED BY <1>1, <2>1, ExitScan DEF Crash
<1>2. ASSUME NEW c \in Calls, Step(c), Exit PROVE ScanInv'
  <2>2. call[c].at = "ask"
    BY <1>2, ExitIsRetrys DEF Asks
  <2>3. "crash" \in mishaps' \/ \A d \in Calls \ {c} : ~Active(d)
    BY <1>2, ExitIsRetrys
  <2>4. "crash" \in mishaps' \/ \A d \in Calls : call[d].at # "write"
    BY <2>2, <2>3 DEF Active
  <2> QED BY <1>2, <2>4, ExitScan
<1>3. ASSUME NEW c \in Calls,
             Scan(c) \/ BeginCredentials(c) \/ BeginSignedIn(c) \/ BeginProCall(c) \/ AfterStart(c)
      PROVE  ScanInv'
  <2>1. /\ \A d \in Calls : d # c => call'[d] = call[d]
        /\ call'[c].todo = << >> /\ UNCHANGED <<settings, shown>>
    BY <1>0, <1>3, BeginIsAble, Begins DEF CallsOK, Begin, AfterStart
  <2>2. call[c] = Idle
    BY <1>3, <1>i, Begins DEF Begin, AfterStart, AccountInv, DownIsIdle
  <2>3. \A P : ~Recording(call[c], P) /\ ~Recording(call'[c], P)
    BY <1>i, <2>1, <2>2 DEF Recording, Idle
  <2> QED BY <2>1, <2>3, SameScan
<1>4. CASE UNCHANGED desktopVars
  BY <1>4 DEF desktopVars, ScanInv, Recording
<1> QED BY <1>1, <1>2, <1>3, <1>4, WriteScan, AnnounceScan, OtherScan DEF DesktopNext

LEMMA ScanStart == DesktopInit => ScanInv
<1> SUFFICES ASSUME DesktopInit PROVE ScanInv
  OBVIOUS
<1>1. /\ shown = [x \in Campaigns |-> 0]
      /\ \A c \in Calls : call[c].todo = << >>
  BY DEF DesktopInit, Idle
<1>2. \A c \in Calls : \A P \in SUBSET Campaigns : ~Recording(call[c], P)
  BY <1>1 DEF Recording
<1>3. shown \in [Campaigns -> Nat] /\ \A x \in Campaigns : shown[x] = 0
  BY <1>1
<1>4. \A x \in Campaigns : shown[x] <= 1 /\ shown[x] # 1
  BY <1>3
<1> QED BY <1>2, <1>3, <1>4 DEF ScanInv

-----------------------------------------------------------------------------
(* What a list of transactions makes of the session, the part of the       *)
(* settings that says who uses the app.                                    *)

Sessions == [email : Addresses, salt : 0..MaxSalts, loggedIn : BOOLEAN, pro : BOOLEAN,
             userID : 0..MaxUsers]
Paths == {"email", "salt", "loggedIn", "pro", "userID"}

Now == [email |-> settings.email, salt |-> settings.salt, loggedIn |-> settings.loggedIn,
        pro |-> settings.pro, userID |-> settings.userID]

LEMMA NowIs == SessionOK => Now \in Sessions
  BY DEF SessionOK, Sessions, Now

\* The transactions q, one after the other, make session s of session d: on each path
\* is what the last of them that has the path puts there.
Ends(q, d, s) ==
  \A path \in Paths :
    \/ /\ \A i \in 1..Len(q) : path \notin DOMAIN q[i]
       /\ s[path] = d[path]
    \/ \E i \in 1..Len(q) :
         /\ path \in DOMAIN q[i] /\ s[path] = q[i][path]
         /\ \A j \in 1..Len(q) : j > i => path \notin DOMAIN q[j]

LEMMA SessionIs ==
  ASSUME NEW s \in Sessions, NEW t \in Sessions, \A path \in Paths : s[path] = t[path]
  PROVE  s = t
  BY DEF Sessions, Paths

LEMMA EndsNone == \A d \in Sessions, s \in Sessions : Ends(<< >>, d, s) <=> s = d
<1>1. ASSUME NEW d \in Sessions PROVE Ends(<< >>, d, d)
  BY DEF Ends
<1>2. ASSUME NEW d \in Sessions, NEW s \in Sessions, Ends(<< >>, d, s) PROVE s = d
  <2>1. \A path \in Paths : s[path] = d[path]
    BY <1>2 DEF Ends
  <2> QED BY <2>1, SessionIs
<1> QED BY <1>1, <1>2

LEMMA EndsJoined ==
  ASSUME NEW T, NEW q \in Seq(T), NEW r \in Seq(T), NEW d, NEW e, NEW s,
         Ends(q, d, e), Ends(r, e, s)
  PROVE  Ends(q \o r, d, s)
<1> DEFINE l == Len(q)
           n == Len(r)
           j == q \o r
<1>1. l \in Nat /\ n \in Nat /\ Len(j) = l + n
  OBVIOUS
<1>2. /\ \A i \in 1..l : j[i] = q[i]
      /\ \A i \in 1..n : j[l + i] = r[i]
      /\ \A i \in 1..Len(j) : i \in 1..l \/ (i - l \in 1..n /\ j[i] = r[i - l])
  OBVIOUS
<1> SUFFICES ASSUME NEW path \in Paths
             PROVE  \/ (\A i \in 1..Len(j) : path \notin DOMAIN j[i]) /\ s[path] = d[path]
                    \/ \E i \in 1..Len(j) : /\ path \in DOMAIN j[i] /\ s[path] = j[i][path]
                                            /\ \A k \in 1..Len(j) : k > i => path \notin DOMAIN j[k]
  BY DEF Ends
<1>3. \/ (\A i \in 1..n : path \notin DOMAIN r[i]) /\ s[path] = e[path]
      \/ \E i \in 1..n : /\ path \in DOMAIN r[i] /\ s[path] = r[i][path]
                         /\ \A k \in 1..n : k > i => path \notin DOMAIN r[k]
  BY DEF Ends
<1>4. \/ (\A i \in 1..l : path \notin DOMAIN q[i]) /\ e[path] = d[path]
      \/ \E i \in 1..l : /\ path \in DOMAIN q[i] /\ e[path] = q[i][path]
                         /\ \A k \in 1..l : k > i => path \notin DOMAIN q[k]
  BY DEF Ends
<1> HIDE DEF l, n, j
<1>5. ASSUME NEW i \in 1..n, path \in DOMAIN r[i], s[path] = r[i][path],
             \A k \in 1..n : k > i => path \notin DOMAIN r[k]
      PROVE  \E h \in 1..Len(j) : /\ path \in DOMAIN j[h] /\ s[path] = j[h][path]
                                  /\ \A k \in 1..Len(j) : k > h => path \notin DOMAIN j[k]
  <2>1. l + i \in 1..Len(j) /\ j[l + i] = r[i]
    BY <1>1, <1>2
  <2>2. ASSUME NEW k \in 1..Len(j), k > l + i PROVE path \notin DOMAIN j[k]
    <3>1. k - l \in 1..n /\ j[k] = r[k - l] /\ k - l > i
      BY <1>1, <1>2, <2>2
    <3> QED BY <3>1, <1>5
  <2> QED BY <1>5, <2>1, <2>2
<1>6. ASSUME NEW i \in 1..l, path \in DOMAIN q[i], s[path] = q[i][path],
             \A k \in 1..l : k > i => path \notin DOMAIN q[k],
             \A k \in 1..n : path \notin DOMAIN r[k]
      PROVE  \E h \in 1..Len(j) : /\ path \in DOMAIN j[h] /\ s[path] = j[h][path]
                                  /\ \A k \in 1..Len(j) : k > h => path \notin DOMAIN j[k]
  <2>1. i \in 1..Len(j) /\ j[i] = q[i]
    BY <1>1, <1>2
  <2>2. ASSUME NEW k \in 1..Len(j), k > i PROVE path \notin DOMAIN j[k]
    BY <1>1, <1>2, <1>6, <2>2
  <2> QED BY <1>6, <2>1, <2>2
<1>7. ASSUME \A k \in 1..l : path \notin DOMAIN q[k], \A k \in 1..n : path \notin DOMAIN r[k]
      PROVE  \A k \in 1..Len(j) : path \notin DOMAIN j[k]
  BY <1>2, <1>7
<1> QED BY <1>3, <1>4, <1>5, <1>6, <1>7

\* The first of the transactions is written.
LEMMA EndsWrite ==
  ASSUME NEW T, NEW q \in Seq(T), q # << >>, NEW d \in Sessions, NEW e, NEW s, Ends(q, d, s),
         e = [path \in Paths |-> IF path \in DOMAIN Head(q) THEN Head(q)[path] ELSE d[path]]
  PROVE  Ends(Tail(q), e, s)
<1> DEFINE n == Len(q)
           t == Tail(q)
<1>1. n \in Nat \ {0} /\ Len(t) = n - 1 /\ Head(q) = q[1]
  OBVIOUS
<1>2. \A i \in 1..Len(t) : t[i] = q[i + 1]
  OBVIOUS
<1> SUFFICES ASSUME NEW path \in Paths
             PROVE  \/ (\A i \in 1..Len(t) : path \notin DOMAIN t[i]) /\ s[path] = e[path]
                    \/ \E i \in 1..Len(t) : /\ path \in DOMAIN t[i] /\ s[path] = t[i][path]
                                            /\ \A k \in 1..Len(t) : k > i => path \notin DOMAIN t[k]
  BY DEF Ends
<1>3. \/ (\A i \in 1..n : path \notin DOMAIN q[i]) /\ s[path] = d[path]
      \/ \E i \in 1..n : /\ path \in DOMAIN q[i] /\ s[path] = q[i][path]
                         /\ \A k \in 1..n : k > i => path \notin DOMAIN q[k]
  BY DEF Ends
<1>4. e[path] = IF path \in DOMAIN q[1] THEN q[1][path] ELSE d[path]
  BY <1>1
<1> HIDE DEF n, t
<1>5. CASE (\A i \in 1..n : path \notin DOMAIN q[i]) /\ s[path] = d[path]
  BY <1>1, <1>2, <1>4, <1>5
<1>6. ASSUME NEW i \in 1..n, path \in DOMAIN q[i], s[path] = q[i][path],
             \A k \in 1..n : k > i => path \notin DOMAIN q[k]
      PROVE  \/ (\A h \in 1..Len(t) : path \notin DOMAIN t[h]) /\ s[path] = e[path]
             \/ \E h \in 1..Len(t) : /\ path \in DOMAIN t[h] /\ s[path] = t[h][path]
                                     /\ \A k \in 1..Len(t) : k > h => path \notin DOMAIN t[k]
  <2>1. CASE i = 1
    <3>1. ASSUME NEW h \in 1..Len(t) PROVE path \notin DOMAIN t[h]
      <4>1. h + 1 \in 1..n /\ h + 1 > i /\ t[h] = q[h + 1]
        BY <1>1, <1>2, <2>1
      <4> QED BY <1>6, <4>1
    <3>2. s[path] = e[path]
      BY <1>4, <1>6, <2>1
    <3> QED BY <3>1, <3>2
  <2>2. CASE i # 1
    <3>1. i - 1 \in 1..Len(t) /\ t[i - 1] = q[i]
      BY <1>1, <1>2, <2>2
    <3>2. ASSUME NEW k \in 1..Len(t), k > i - 1 PROVE path \notin DOMAIN t[k]
      <4>1. k + 1 \in 1..n /\ k + 1 > i /\ t[k] = q[k + 1]
        BY <1>1, <1>2, <3>2
      <4> QED BY <1>6, <4>1
    <3> QED BY <1>6, <3>1, <3>2
  <2> QED BY <2>1, <2>2
<1> QED BY <1>1, <1>3, <1>5, <1>6

-----------------------------------------------------------------------------

\* A session with this to read in it.
Is(s, email, salt, loggedIn, pro, userID) ==
  /\ s \in Sessions
  /\ s.email = email /\ s.salt = salt /\ s.loggedIn = loggedIn /\ s.pro = pro
  /\ s.userID = userID

\* From session d the transactions q make a session with this to read in it.
Makes(q, d, email, salt, loggedIn, pro, userID) ==
  \E s : Ends(q, d, s) /\ Is(s, email, salt, loggedIn, pro, userID)

\* One transaction.
LEMMA OneMakes ==
  ASSUME NEW d \in Sessions
  PROVE  /\ \A n \in 0..MaxSalts :
              Makes(<<[salt |-> n]>>, d, d.email, n, d.loggedIn, d.pro, d.userID)
         /\ \A e \in Addresses :
              Makes(<<[email |-> e]>>, d, e, d.salt, d.loggedIn, d.pro, d.userID)
         /\ \A b \in BOOLEAN :
              /\ Makes(<<[loggedIn |-> b]>>, d, d.email, d.salt, b, d.pro, d.userID)
              /\ Makes(<<[pro |-> b]>>, d, d.email, d.salt, d.loggedIn, b, d.userID)
         /\ \A u \in 0..MaxUsers :
              Makes(SetUserIDAndToken(u), d, d.email, d.salt, d.loggedIn, d.pro, u)
         /\ Makes(<< >>, d, d.email, d.salt, d.loggedIn, d.pro, d.userID)
         /\ Makes(<<[firstVisit |-> TRUE]>>, d, d.email, d.salt, d.loggedIn, d.pro, d.userID)
         /\ \A P : Makes(<<[past |-> P]>>, d, d.email, d.salt, d.loggedIn, d.pro, d.userID)
<1>0. ASSUME NEW tx, NEW s,
             \A path \in Paths : s[path] = IF path \in DOMAIN tx THEN tx[path] ELSE d[path]
      PROVE  Ends(<<tx>>, d, s)
  <2>1. Len(<<tx>>) = 1 /\ <<tx>>[1] = tx
    OBVIOUS
  <2> QED BY <1>0, <2>1 DEF Ends
<1> USE DEF Makes, Is
<1>1. ASSUME NEW n \in 0..MaxSalts
      PROVE  Makes(<<[salt |-> n]>>, d, d.email, n, d.loggedIn, d.pro, d.userID)
  <2> WITNESS [d EXCEPT !.salt = n]
  <2> QED BY <1>0 DEF Sessions, Paths
<1>2. ASSUME NEW e \in Addresses
      PROVE  Makes(<<[email |-> e]>>, d, e, d.salt, d.loggedIn, d.pro, d.userID)
  <2> WITNESS [d EXCEPT !.email = e]
  <2> QED BY <1>0 DEF Sessions, Paths
<1>3. ASSUME NEW b \in BOOLEAN
      PROVE  Makes(<<[loggedIn |-> b]>>, d, d.email, d.salt, b, d.pro, d.userID)
  <2> WITNESS [d EXCEPT !.loggedIn = b]
  <2> QED BY <1>0 DEF Sessions, Paths
<1>4. ASSUME NEW b \in BOOLEAN
      PROVE  Makes(<<[pro |-> b]>>, d, d.email, d.salt, d.loggedIn, b, d.userID)
  <2> WITNESS [d EXCEPT !.pro = b]
  <2> QED BY <1>0 DEF Sessions, Paths
<1>5. ASSUME NEW u \in 0..MaxUsers
      PROVE  Makes(SetUserIDAndToken(u), d, d.email, d.salt, d.loggedIn, d.pro, u)
  <2> WITNESS [d EXCEPT !.userID = u]
  <2> QED BY <1>0 DEF Sessions, Paths, SetUserIDAndToken
<1>6. Makes(<< >>, d, d.email, d.salt, d.loggedIn, d.pro, d.userID)
  BY EndsNone
<1>7. Makes(<<[firstVisit |-> TRUE]>>, d, d.email, d.salt, d.loggedIn, d.pro, d.userID)
  <2> WITNESS d
  <2> QED BY <1>0 DEF Sessions, Paths
<1>8. ASSUME NEW P PROVE Makes(<<[past |-> P]>>, d, d.email, d.salt, d.loggedIn, d.pro, d.userID)
  <2> WITNESS d
  <2> QED BY <1>0 DEF Sessions, Paths
<1> QED BY <1>1, <1>2, <1>3, <1>4, <1>5, <1>6, <1>7, <1>8

\* One list of transactions and then another.
LEMMA MakesJoined ==
  ASSUME NEW q \in Seq(Plain), NEW r \in Seq(Plain), NEW d,
         NEW e1, NEW n1, NEW l1, NEW p1, NEW u1, NEW e2, NEW n2, NEW l2, NEW p2, NEW u2,
         Makes(q, d, e1, n1, l1, p1, u1),
         \A s : Is(s, e1, n1, l1, p1, u1) => Makes(r, s, e2, n2, l2, p2, u2)
  PROVE  Makes(q \o r, d, e2, n2, l2, p2, u2)
<1>1. PICK s1 : Ends(q, d, s1) /\ Is(s1, e1, n1, l1, p1, u1)
  BY DEF Makes
<1>2. PICK s : Ends(r, s1, s) /\ Is(s, e2, n2, l2, p2, u2)
  BY <1>1 DEF Makes
<1>3. Ends(q \o r, d, s)
  BY <1>1, <1>2, EndsJoined
<1> QED BY <1>2, <1>3 DEF Makes

\* The lists of one transaction after the other.
Two(t1, t2) == <<t1>> \o <<t2>>
Three(t1, t2, t3) == Two(t1, t2) \o <<t3>>
Four(t1, t2, t3, t4) == Three(t1, t2, t3) \o <<t4>>

LEMMA ListsAre ==
  ASSUME NEW t1, NEW t2, NEW t3, NEW t4
  PROVE  /\ Two(t1, t2) = <<t1, t2>> /\ Three(t1, t2, t3) = <<t1, t2, t3>>
         /\ Four(t1, t2, t3, t4) = <<t1, t2, t3, t4>>
<1> DEFINE T == {t1, t2}
           q == <<t1, t2>>
           r == <<t1>> \o <<t2>>
<1>1. q \in Seq(T) /\ r \in Seq(T)
  OBVIOUS
<1>2. Len(q) = 2 /\ Len(r) = 2 /\ q[1] = r[1] /\ q[2] = r[2]
  OBVIOUS
<1>3. \A i \in 1..2 : i = 1 \/ i = 2
  OBVIOUS
<1> HIDE DEF q, r, T
<1>4. \A i \in 1..Len(q) : q[i] = r[i]
  BY <1>2, <1>3
<1>5. q = r
  BY <1>1, <1>2, <1>4, SeqEqual
<1>6. <<t1, t2, t3>> = <<t1, t2>> \o <<t3>>
  OBVIOUS
<1>7. <<t1, t2, t3, t4>> = <<t1, t2, t3>> \o <<t4>>
  OBVIOUS
<1>8. Two(t1, t2) = <<t1, t2>>
  BY <1>5 DEF Two, q, r
<1>9. Three(t1, t2, t3) = <<t1, t2, t3>>
  BY <1>6, <1>8 DEF Three
<1> QED BY <1>7, <1>8, <1>9 DEF Four

\* What an answer to signing in leaves: the account's address and salt.
LEMMA LoginMakes ==
  ASSUME NEW d \in Sessions, NEW e \in Emails, NEW n \in 0..MaxSalts
  PROVE  /\ Makes(<<[salt |-> n], [email |-> e], [loggedIn |-> TRUE]>>, d, e, n, TRUE, d.pro,
                  d.userID)
         /\ Makes(<<[salt |-> n], [loggedIn |-> TRUE], [email |-> e]>>, d, e, n, TRUE, d.pro,
                  d.userID)
<1> DEFINE a == <<[salt |-> n]>>
           b == <<[email |-> e]>>
           l == <<[loggedIn |-> TRUE]>>
<1>1. a \in Seq(Plain) /\ b \in Seq(Plain) /\ l \in Seq(Plain) /\ e \in Addresses
  <2>1. [salt |-> n] \in Plain /\ [email |-> e] \in Plain /\ [loggedIn |-> TRUE] \in Plain
    BY OnesAreTodo DEF Addresses
  <2> QED BY <2>1 DEF Addresses
<1>2. a \o b \in Seq(Plain) /\ a \o l \in Seq(Plain)
  BY <1>1
<1>3. Makes(a, d, d.email, n, d.loggedIn, d.pro, d.userID)
  BY OneMakes
<1>4. /\ \A s : Is(s, d.email, n, d.loggedIn, d.pro, d.userID)
                 => Makes(b, s, e, n, d.loggedIn, d.pro, d.userID)
      /\ \A s : Is(s, d.email, n, d.loggedIn, d.pro, d.userID)
                 => Makes(l, s, d.email, n, TRUE, d.pro, d.userID)
      /\ \A s : Is(s, e, n, d.loggedIn, d.pro, d.userID)
                 => Makes(l, s, e, n, TRUE, d.pro, d.userID)
      /\ \A s : Is(s, d.email, n, TRUE, d.pro, d.userID)
                 => Makes(b, s, e, n, TRUE, d.pro, d.userID)
  BY <1>1, OneMakes DEF Is
<1>5. /\ <<[salt |-> n], [email |-> e], [loggedIn |-> TRUE]>> = (a \o b) \o l
      /\ <<[salt |-> n], [loggedIn |-> TRUE], [email |-> e]>> = (a \o l) \o b
  <2> DEFINE x == [salt |-> n]
             y == [email |-> e]
             z == [loggedIn |-> TRUE]
  <2>1. Three(x, y, z) = <<x, y, z>> /\ Three(x, z, y) = <<x, z, y>>
    BY ListsAre
  <2> QED BY <2>1 DEF Three, Two
<1> HIDE DEF a, b, l
<1>6. Makes(a \o b, d, e, n, d.loggedIn, d.pro, d.userID)
  BY <1>1, <1>3, <1>4, MakesJoined
<1>7. Makes(a \o l, d, d.email, n, TRUE, d.pro, d.userID)
  BY <1>1, <1>3, <1>4, MakesJoined
<1>8. Makes((a \o b) \o l, d, e, n, TRUE, d.pro, d.userID)
  BY <1>1, <1>2, <1>4, <1>6, MakesJoined
<1>9. Makes((a \o l) \o b, d, e, n, TRUE, d.pro, d.userID)
  BY <1>1, <1>2, <1>4, <1>7, MakesJoined
<1> QED BY <1>5, <1>8, <1>9

\* Signing out, and deletion.
LEMMA ClearMakes ==
  ASSUME NEW d \in Sessions
  PROVE  /\ Makes(ClearLocalUserData, d, NoEmail, 0, FALSE, FALSE, d.userID)
         /\ Makes(ClearLocalUserData \o SetUserIDAndToken(0), d, NoEmail, 0, FALSE, FALSE, 0)
<1> DEFINE a == <<[salt |-> 0]>>
           b == <<[email |-> NoEmail]>>
           f == <<[pro |-> FALSE]>>
           l == <<[loggedIn |-> FALSE]>>
           z == SetUserIDAndToken(0)
           ab == a \o b
           abf == ab \o f
           abfl == abf \o l
<1>1. /\ a \in Seq(Plain) /\ b \in Seq(Plain) /\ f \in Seq(Plain) /\ l \in Seq(Plain)
      /\ z \in Seq(Plain) /\ ab \in Seq(Plain) /\ abf \in Seq(Plain) /\ abfl \in Seq(Plain)
  <2>1. /\ [salt |-> 0] \in Plain /\ [email |-> NoEmail] \in Plain /\ [pro |-> FALSE] \in Plain
        /\ [loggedIn |-> FALSE] \in Plain /\ [userID |-> 0, token |-> 0] \in Plain
    BY OnesAreTodo, ZeroIs
  <2>2. /\ a \in Seq(Plain) /\ b \in Seq(Plain) /\ f \in Seq(Plain) /\ l \in Seq(Plain)
        /\ z \in Seq(Plain)
    BY <2>1 DEF SetUserIDAndToken
  <2> HIDE DEF a, b, f, l, z
  <2> QED BY <2>2
<1>2. Makes(a, d, d.email, 0, d.loggedIn, d.pro, d.userID)
  BY OneMakes, ZeroIs
<1>3. /\ \A s : Is(s, d.email, 0, d.loggedIn, d.pro, d.userID)
                 => Makes(b, s, NoEmail, 0, d.loggedIn, d.pro, d.userID)
      /\ \A s : Is(s, NoEmail, 0, d.loggedIn, d.pro, d.userID)
                 => Makes(f, s, NoEmail, 0, d.loggedIn, FALSE, d.userID)
      /\ \A s : Is(s, NoEmail, 0, d.loggedIn, FALSE, d.userID)
                 => Makes(l, s, NoEmail, 0, FALSE, FALSE, d.userID)
      /\ \A s : Is(s, NoEmail, 0, FALSE, FALSE, d.userID)
                 => Makes(z, s, NoEmail, 0, FALSE, FALSE, 0)
  BY OneMakes, ZeroIs DEF Is
<1>4. ClearLocalUserData = abfl
  <2> DEFINE t1 == [salt |-> 0]
             t2 == [email |-> NoEmail]
             t3 == [pro |-> FALSE]
             t4 == [loggedIn |-> FALSE]
  <2>1. Four(t1, t2, t3, t4) = <<t1, t2, t3, t4>>
    BY ListsAre
  <2> QED BY <2>1 DEF Four, Three, Two, ClearLocalUserData
<1> HIDE DEF a, b, f, l, z
<1>5. Makes(ab, d, NoEmail, 0, d.loggedIn, d.pro, d.userID)
  BY <1>1, <1>2, <1>3, MakesJoined
<1> HIDE DEF ab
<1>6. Makes(abf, d, NoEmail, 0, d.loggedIn, FALSE, d.userID)
  BY <1>1, <1>3, <1>5, MakesJoined
<1> HIDE DEF abf
<1>7. Makes(abfl, d, NoEmail, 0, FALSE, FALSE, d.userID)
  BY <1>1, <1>3, <1>6, MakesJoined
<1> HIDE DEF abfl
<1>8. Makes(abfl \o z, d, NoEmail, 0, FALSE, FALSE, 0)
  BY <1>1, <1>3, <1>7, MakesJoined
<1> QED BY <1>4, <1>7, <1>8 DEF z

\* The details of user u, and the user a device is linked to.
LEMMA DetailsMake ==
  ASSUME NEW d \in Sessions, NEW u \in 0..MaxUsers, NEW e \in Addresses, NEW p \in BOOLEAN
  PROVE  /\ Makes(SetUserIDAndToken(u) \o <<[email |-> e], [pro |-> p]>>, d, e, d.salt, d.loggedIn,
                  p, u)
         /\ Makes(<<[pro |-> p]>> \o SetUserIDAndToken(u), d, d.email, d.salt, d.loggedIn, p, u)
         /\ Makes(<<[pro |-> p]>> \o SetUserIDAndToken(u)
                    \o (IF e = NoEmail THEN << >> ELSE <<[email |-> e]>>),
                  d, IF e = NoEmail THEN d.email ELSE e, d.salt, d.loggedIn, p, u)
<1> DEFINE a == SetUserIDAndToken(u)
           b == <<[email |-> e]>>
           f == <<[pro |-> p]>>
           o == IF e = NoEmail THEN << >> ELSE <<[email |-> e]>>
           x == IF e = NoEmail THEN d.email ELSE e
           ab == a \o b
           fa == f \o a
<1>1. /\ a \in Seq(Plain) /\ b \in Seq(Plain) /\ f \in Seq(Plain) /\ o \in Seq(Plain)
      /\ ab \in Seq(Plain) /\ fa \in Seq(Plain)
  <2>1. [email |-> e] \in Plain /\ [pro |-> p] \in Plain /\ [userID |-> u, token |-> u] \in Plain
    BY OnesAreTodo
  <2>2. a \in Seq(Plain) /\ b \in Seq(Plain) /\ f \in Seq(Plain) /\ << >> \in Seq(Plain)
    BY <2>1 DEF SetUserIDAndToken
  <2>3. o \in Seq(Plain)
    BY <2>2
  <2> HIDE DEF a, b, f
  <2> QED BY <2>2, <2>3
<1>2. /\ Makes(a, d, d.email, d.salt, d.loggedIn, d.pro, u)
      /\ Makes(f, d, d.email, d.salt, d.loggedIn, p, d.userID)
  BY OneMakes
<1>3. /\ \A s : Is(s, d.email, d.salt, d.loggedIn, d.pro, u)
                 => Makes(b, s, e, d.salt, d.loggedIn, d.pro, u)
      /\ \A s : Is(s, e, d.salt, d.loggedIn, d.pro, u) => Makes(f, s, e, d.salt, d.loggedIn, p, u)
      /\ \A s : Is(s, d.email, d.salt, d.loggedIn, p, d.userID)
                 => Makes(a, s, d.email, d.salt, d.loggedIn, p, u)
  BY OneMakes DEF Is
<1>4. \A s : Is(s, d.email, d.salt, d.loggedIn, p, u) => Makes(o, s, x, d.salt, d.loggedIn, p, u)
  <2>1. CASE e = NoEmail
    BY <2>1, OneMakes DEF Is
  <2>2. CASE e # NoEmail
    BY <2>2, OneMakes DEF Is
  <2> QED BY <2>1, <2>2
<1>5. a \o <<[email |-> e], [pro |-> p]>> = ab \o f
  <2>1. <<[email |-> e], [pro |-> p]>> = b \o f
    <3> DEFINE x1 == [email |-> e]
               x2 == [pro |-> p]
    <3>1. Two(x1, x2) = <<x1, x2>>
      BY ListsAre
    <3> QED BY <3>1 DEF Two
  <2> HIDE DEF a, b, f
  <2>2. (a \o b) \o f = a \o (b \o f)
    <3>1. a \in Seq(Plain) /\ b \in Seq(Plain) /\ f \in Seq(Plain)
      BY <1>1
    <3> QED BY <3>1, ConcatAssociative
  <2> QED BY <2>1, <2>2
<1> HIDE DEF a, b, f, o, x
<1>6. Makes(ab, d, e, d.salt, d.loggedIn, d.pro, u)
  BY <1>1, <1>2, <1>3, MakesJoined
<1>7. Makes(fa, d, d.email, d.salt, d.loggedIn, p, u)
  BY <1>1, <1>2, <1>3, MakesJoined
<1> HIDE DEF ab
<1>8. Makes(ab \o f, d, e, d.salt, d.loggedIn, p, u)
  BY <1>1, <1>3, <1>6, MakesJoined
<1> HIDE DEF fa
<1>9. Makes(fa \o o, d, x, d.salt, d.loggedIn, p, u)
  BY <1>1, <1>4, <1>7, MakesJoined
<1> QED BY <1>5, <1>7, <1>8, <1>9 DEF a, f, o, x, fa

-----------------------------------------------------------------------------
(* One call at a time.                                                     *)

\* The only call that runs, if one does.
OneCall == \A c, d \in Calls : Active(c) /\ Active(d) => c = d

\* What the call k has read is still so in session d, and it is where its operation goes.
Current(k, d) ==
  /\ k.op \in {"signup", "login", "validate"} /\ k.at \in {"salt", "ask", "ident"} => ~d.loggedIn
  /\ k.op = "recover" /\ k.at \in {"salt", "ask", "ident"} /\ d.loggedIn => k.email = d.email
  /\ k.op = "refresh" /\ k.at = "ident" => k.key = d.userID
  /\ k.op = "refresh" /\ k.at = "ask" => k.key = k.uid
  /\ k.at = "check" => k.op \in {"refresh", "scan"}
  /\ k.at = "key" => k.op = "refresh"
  /\ Stores(k) => k.data.id = k.key

\* The device is linked, and whether it is pro is still to be asked.
Unsure(k) ==
  (k.at = "write" /\ k.next = "update") \/ k.at = "update"
    \/ (k.op = "update" /\ k.at \in {"ident", "ask"})

\* The user is still to be created.
Anew(k) == (k.at = "write" /\ k.next = "ask") \/ (k.op = "retry" /\ k.at = "ask")

\* The cached salt, and pro, of any session and server.
Salted(srv, s) ==
  s.loggedIn /\ s.salt # 0
    => /\ s.email \in Emails /\ srv.account[s.email] # NoAccount
       /\ srv.account[s.email].salt = s.salt
ProIs(srv, s) == s.pro => s.userID # 0 /\ srv.pro[s.userID]

\* Session s is what it should be after the mishaps h, when pro is still to be asked
\* (unsure), or the user to be created (anew).
Right(srv, h, s, unsure, anew) ==
  /\ unsure => ~s.loggedIn
  /\ anew => s.userID = 0
  /\ h \subseteq {"deleted"} => Salted(srv, s)
  /\ h \subseteq {"refetch", "deleted"} => unsure \/ ProIs(srv, s)

\* The call k, which runs alone, will make a session that is right.
Good(k, d, srv, h) ==
  /\ Current(k, d)
  /\ \E s \in Sessions : Ends(k.todo, d, s) /\ Right(srv, h, s, Unsure(k), Anew(k))

\* While no two calls have overlapped, at most one runs, and it will make a session that is
\* right; the session is right already when none does.  What is cached under a user's ID is
\* that user's.
SoloInv ==
  "overlap" \notin mishaps =>
    /\ OneCall
    /\ \A u \in ProUsers : cache[u].id \in {0, u}
    /\ (\A c \in Calls : ~Active(c)) => Good(Idle, Now, server, mishaps)
    /\ \A c \in Calls : Active(c) => Good(call[c], Now, server, mishaps)

-----------------------------------------------------------------------------

\* Nothing to write: the session is as it will be.
LEMMA GoodNow ==
  ASSUME NEW d \in Sessions, NEW k, k.todo = << >>, NEW srv, NEW h
  PROVE  Good(k, d, srv, h) <=> Current(k, d) /\ Right(srv, h, d, Unsure(k), Anew(k))
<1>1. \A s \in Sessions : Ends(k.todo, d, s) <=> s = d
  BY EndsNone
<1> QED BY <1>1 DEF Good

\* Accounts stay, and who is pro does.
LEMMA RightGrows ==
  ASSUME NEW srv, NEW new, NEW h, NEW s \in Sessions, NEW a, NEW b,
         new.account = srv.account, \A u \in ProUsers : srv.pro[u] => new.pro[u],
         Right(srv, h, s, a, b)
  PROVE  Right(new, h, s, a, b)
<1>1. s.userID # 0 => s.userID \in ProUsers
  BY DEF Sessions, ProUsers
<1>2. ProIs(srv, s) => ProIs(new, s)
  BY <1>1 DEF ProIs
<1>3. Salted(srv, s) => Salted(new, s)
  BY DEF Salted
<1> QED BY <1>2, <1>3 DEF Right

\* More mishaps ask less; the app's start forgets a deletion.
LEMMA RightWeakens ==
  ASSUME NEW srv, NEW h, NEW g, NEW s, NEW a, NEW b, h \subseteq g \cup {"deleted"},
         Right(srv, h, s, a, b)
  PROVE  Right(srv, g, s, a, b)
  BY DEF Right

LEMMA IdleIsCurrent ==
  /\ \A d : Current(Idle, d)
  /\ ~Unsure(Idle) /\ ~Anew(Idle) /\ Idle.todo = << >>
  BY DEF Current, Idle, Unsure, Anew, Stores, NotCached

\* What the steps of a call start from.
Lone(c) == AccountInv /\ c \in Calls /\ Good(call[c], Now, server, mishaps)

LEMMA LoneReads ==
  ASSUME NEW c, Lone(c), call[c].at # "write"
  PROVE  /\ SessionOK /\ ServerOK /\ CallsOK /\ c \in Calls
         /\ call[c] \in Task /\ Able(call[c]) /\ Now \in Sessions
         /\ call[c].todo = << >> /\ Current(call[c], Now)
         /\ Right(server, mishaps, Now, Unsure(call[c]), Anew(call[c]))
<1>1. /\ SessionOK /\ ServerOK /\ CallsOK /\ c \in Calls
      /\ call[c] \in Task /\ Able(call[c]) /\ Now \in Sessions
  BY NowIs DEF Lone, AccountInv, CallsOK
<1>2. call[c].todo = << >>
  BY <1>1 DEF Able
<1> QED BY <1>1, <1>2, GoodNow DEF Lone

\* A step that goes on, with nothing to write.
LEMMA GoesIsGood ==
  ASSUME NEW c, Lone(c), call[c].at # "write", NEW k, call' = [call EXCEPT ![c] = k],
         k.todo = << >>, Current(k, Now), Unsure(k) <=> Unsure(call[c]), Anew(k) <=> Anew(call[c]),
         UNCHANGED settings, server'.account = server.account,
         \A u \in ProUsers : server.pro[u] => server'.pro[u], mishaps' = mishaps
  PROVE  Good(call'[c], Now', server', mishaps')
<1>1. /\ CallsOK /\ Now \in Sessions /\ c \in Calls
      /\ Right(server, mishaps, Now, Unsure(call[c]), Anew(call[c]))
  BY LoneReads
<1>2. call'[c] = k /\ Now' = Now
  BY <1>1 DEF CallsOK, Now
<1>3. Right(server, mishaps, Now, Unsure(k), Anew(k))
  BY <1>1 DEF Right
<1>4. Right(server', mishaps', Now, Unsure(k), Anew(k))
  BY <1>1, <1>3, RightGrows
<1> QED BY <1>1, <1>2, <1>4, GoodNow

\* A call that ends without a mishap.
LEMMA EndIsGood ==
  ASSUME NEW c, Lone(c), call[c].at # "write", End(c), ~Unsure(call[c]), ~Anew(call[c]),
         UNCHANGED settings, server'.account = server.account,
         \A u \in ProUsers : server.pro[u] => server'.pro[u], mishaps' = mishaps
  PROVE  Good(call'[c], Now', server', mishaps')
  BY GoesIsGood, IdleIsCurrent DEF End

LEMMA LostIsGood ==
  ASSUME SessionOK, CallsOK, NEW c \in Calls, End(c), "lost" \in mishaps', UNCHANGED settings
  PROVE  Good(call'[c], Now', server', mishaps')
<1>1. call'[c] = Idle /\ Now' = Now /\ Now \in Sessions
  BY NowIs DEF End, CallsOK, Now
<1>2. Right(server', mishaps', Now, Unsure(Idle), Anew(Idle))
  BY IdleIsCurrent DEF Right
<1> QED BY <1>1, <1>2, GoodNow, IdleIsCurrent

\* The call has writes to make, which make a right session.
LEMMA MakesIsGood ==
  ASSUME NEW k, NEW d, NEW srv, NEW h, Current(k, d), k.at = "write",
         NEW e, NEW n, NEW l, NEW p, NEW u, Makes(k.todo, d, e, n, l, p, u),
         \A s : Is(s, e, n, l, p, u) => Right(srv, h, s, k.next = "update", k.next = "ask")
  PROVE  Good(k, d, srv, h)
<1>1. PICK s : Ends(k.todo, d, s) /\ Is(s, e, n, l, p, u)
  BY DEF Makes
<1>2. Right(srv, h, s, k.next = "update", k.next = "ask") /\ s \in Sessions
  BY <1>1 DEF Is
<1>3. Right(srv, h, s, Unsure(k), Anew(k))
  BY <1>2 DEF Unsure, Anew, Right
<1> QED BY <1>1, <1>2, <1>3 DEF Good

\* An answer, whose writes make a right session.
LEMMA AnsweredIsGood ==
  ASSUME SessionOK, CallsOK, NEW c \in Calls, NEW txs, NEW next, Answered(c, txs, next),
         next # "store", UNCHANGED settings,
         NEW e, NEW n, NEW l, NEW p, NEW u, Makes(txs, Now, e, n, l, p, u),
         \A s : Is(s, e, n, l, p, u) => Right(server', mishaps', s, next = "update", next = "ask")
  PROVE  Good(call'[c], Now', server', mishaps')
<1> DEFINE k == [call[c] EXCEPT !.todo = txs, !.at = "write", !.next = next]
<1>1. k.at = "write" /\ k.todo = txs /\ k.next = next
  BY DEF CallsOK, Task
<1>2. call'[c] = k /\ Now' = Now
  BY DEF Answered, CallsOK, Now
<1> HIDE DEF k
<1>3. Current(k, Now)
  BY <1>1 DEF Current, Stores
<1>4. Good(k, Now, server', mishaps')
  BY <1>1, <1>3, MakesIsGood
<1> QED BY <1>2, <1>4

\* The same of an answer that may be lost.
LEMMA ReplyIsGood ==
  ASSUME SessionOK, CallsOK, NEW c \in Calls, NEW srv, NEW txs, NEW next, NEW what,
         Reply(c, srv, txs, next, what), next # "store",
         NEW e, NEW n, NEW l, NEW p, NEW u, Makes(txs, Now, e, n, l, p, u),
         \A s : Is(s, e, n, l, p, u)
                  => Right(srv, mishaps \cup what, s, next = "update", next = "ask")
  PROVE  Good(call'[c], Now', server', mishaps')
<1>1. server' = srv /\ UNCHANGED settings
  BY DEF Reply
<1>2. CASE Answered(c, txs, next) /\ mishaps' = mishaps \cup what
  BY <1>1, <1>2, AnsweredIsGood
<1>3. CASE End(c) /\ mishaps' = mishaps \cup {"lost"}
  BY <1>1, <1>3, LostIsGood
<1> QED BY <1>2, <1>3 DEF Reply

-----------------------------------------------------------------------------
(* What the servers answer, when the call runs alone.                      *)

LEMMA SignUpIsGood ==
  ASSUME NEW c, Lone(c), SignUp(c)
  PROVE  Good(call'[c], Now', server', mishaps')
<1> DEFINE e == call[c].email
           u == IF Identified(c) THEN call[c].uid ELSE NewUser
           srv == [server EXCEPT !.account[e] = [user |-> u, salt |-> NewSalt],
                                 !.salts = NewSalt,
                                 !.users = IF Identified(c) THEN @ ELSE NewUser]
           txs == <<[salt |-> NewSalt], [email |-> e], [loggedIn |-> TRUE]>>
<1>1. /\ SessionOK /\ ServerOK /\ CallsOK /\ c \in Calls /\ Now \in Sessions
      /\ Right(server, mishaps, Now, Unsure(call[c]), Anew(call[c])) /\ e \in Emails
  BY LoneReads DEF SignUp, Asks, Able, OfAccounts
<1>2. ~Unsure(call[c])
  BY DEF Unsure, SignUp, Asks
<1>3. NewSalt \in 0..MaxSalts /\ NewSalt # 0
  BY <1>1, NextNumbers, ZeroIs DEF SignUp
<1>4. Makes(txs, Now, e, NewSalt, TRUE, Now.pro, Now.userID)
  BY <1>1, <1>3, LoginMakes
<1>5. /\ srv.account = [server.account EXCEPT ![e] = [user |-> u, salt |-> NewSalt]]
      /\ srv.pro = server.pro
  BY <1>1 DEF ServerOK
<1>6. srv.account[e].salt = NewSalt /\ srv.account[e] # NoAccount
  <2>1. srv.account[e] = [user |-> u, salt |-> NewSalt]
    BY <1>1, <1>5 DEF ServerOK
  <2> HIDE DEF u, srv
  <2> QED BY <1>3, <2>1 DEF NoAccount
<1>7. Reply(c, srv, txs, "idle", {})
  BY DEF SignUp
<1> HIDE DEF srv, txs, e
<1>8. ASSUME NEW s, Is(s, e, NewSalt, TRUE, Now.pro, Now.userID)
      PROVE  Right(srv, mishaps \cup {}, s, "idle" = "update", "idle" = "ask")
  <2>1. Salted(srv, s)
    BY <1>1, <1>6, <1>8 DEF Salted, Is
  <2>2. mishaps \subseteq {"refetch", "deleted"} => ProIs(srv, s)
    BY <1>1, <1>2, <1>5, <1>8 DEF ProIs, Is, Right
  <2> QED BY <2>1, <2>2 DEF Right
<1> QED BY <1>1, <1>4, <1>7, <1>8, ReplyIsGood

LEMMA LoginIsGood ==
  ASSUME NEW c, Lone(c), Login(c)
  PROVE  Good(call'[c], Now', server', mishaps')
<1> DEFINE e == call[c].email
           n == call[c].salt
           u == server.account[e].user
           free == u \notin server.full
           det == IF free THEN UserDetails(u) ELSE DeviceLimitFlow(u)
           txs == <<[salt |-> n], [loggedIn |-> TRUE], [email |-> e]>>
           k == [call[c] EXCEPT !.key = u, !.next = "store", !.data = det,
                   !.at = IF free THEN "write" ELSE "store", !.todo = IF free THEN txs ELSE << >>]
<1>1. /\ SessionOK /\ ServerOK /\ CallsOK /\ c \in Calls /\ Now \in Sessions /\ call[c] \in Task
      /\ Right(server, mishaps, Now, Unsure(call[c]), Anew(call[c])) /\ e \in Emails
      /\ n \in 0..MaxSalts
  BY LoneReads DEF Login, Asks, Able, OfAccounts, Task
<1>2. ~Unsure(call[c]) /\ ~Anew(call[c]) /\ call[c].op = "login" /\ call[c].at = "ask"
  BY DEF Unsure, Anew, Login, Asks
<1>3. server.account[e] # NoAccount /\ server.account[e].salt = n
  BY DEF Login, Proves
<1>4. call' = [call EXCEPT ![c] = k] /\ UNCHANGED <<settings, mishaps>>
  BY DEF Login
<1>5. server'.account = server.account /\ server'.pro = server.pro
  BY <1>1 DEF Login, ServerOK
<1>6. /\ k.key = u /\ k.data = det /\ k.next = "store" /\ k.op = "login"
      /\ k.at = (IF free THEN "write" ELSE "store") /\ k.todo = (IF free THEN txs ELSE << >>)
  BY <1>1, <1>2 DEF Task
<1>7. det.id = u
  BY DEF UserDetails, DeviceLimitFlow
<1> HIDE DEF k, det
<1>8. Current(k, Now)
  BY <1>6, <1>7 DEF Current
<1>9. CASE free
  <2>1. Makes(txs, Now, e, n, TRUE, Now.pro, Now.userID)
    BY <1>1, LoginMakes
  <2>2. ASSUME NEW s, Is(s, e, n, TRUE, Now.pro, Now.userID)
        PROVE  Right(server', mishaps', s, k.next = "update", k.next = "ask")
    <3>1. Salted(server', s)
      BY <1>1, <1>3, <1>5, <2>2 DEF Salted, Is
    <3>2. mishaps \subseteq {"refetch", "deleted"} => ProIs(server', s)
      BY <1>1, <1>2, <1>5, <2>2 DEF ProIs, Is, Right
    <3> QED BY <1>4, <1>6, <3>1, <3>2 DEF Right
  <2>3. k.at = "write" /\ k.todo = txs
    BY <1>6, <1>9
  <2>4. call'[c] = k /\ Now' = Now
    BY <1>1, <1>4 DEF CallsOK, Now
  <2> HIDE DEF txs, e, n
  <2>5. Good(k, Now, server', mishaps')
    BY <1>8, <2>1, <2>2, <2>3, MakesIsGood
  <2> QED BY <2>4, <2>5
<1>10. CASE ~free
  <2>1. k.todo = << >> /\ ~Unsure(k) /\ ~Anew(k)
    BY <1>6, <1>10 DEF Unsure, Anew
  <2> QED BY <1>2, <1>4, <1>5, <1>8, <2>1, GoesIsGood
<1> QED BY <1>9, <1>10

\* Signed out, or deleted, nobody is logged in and nobody is pro.
LEMMA LeavingIsGood ==
  ASSUME NEW c, Lone(c), SignOut(c) \/ DeleteAccount(c)
  PROVE  Good(call'[c], Now', server', mishaps')
<1>1. SessionOK /\ CallsOK /\ c \in Calls /\ Now \in Sessions
  BY LoneReads DEF SignOut, DeleteAccount, Asks
<1>2. ASSUME NEW srv, NEW h, NEW s, NEW u, Is(s, NoEmail, 0, FALSE, FALSE, u)
      PROVE  Right(srv, h, s, "create" = "update", "create" = "ask")
  BY <1>2 DEF Right, Is, Salted, ProIs
<1>3. ASSUME NEW srv, Reply(c, srv, ClearLocalUserData, "create", {})
      PROVE  Good(call'[c], Now', server', mishaps')
  BY <1>1, <1>2, <1>3, ClearMakes, ReplyIsGood
<1>4. ASSUME NEW srv,
             Reply(c, srv, ClearLocalUserData \o SetUserIDAndToken(0), "create", {"deleted"})
      PROVE  Good(call'[c], Now', server', mishaps')
  BY <1>1, <1>2, <1>4, ClearMakes, ReplyIsGood
<1> QED BY <1>3, <1>4 DEF SignOut, DeleteAccount

LEMMA RecoveryIsGood ==
  ASSUME NEW c, Lone(c), CompleteRecoveryByEmail(c)
  PROVE  Good(call'[c], Now', server', mishaps')
<1> DEFINE e == call[c].email
           srv == [server EXCEPT !.account[e].salt = NewSalt, !.salts = NewSalt]
<1>1. /\ SessionOK /\ ServerOK /\ CallsOK /\ c \in Calls /\ Now \in Sessions
      /\ Right(server, mishaps, Now, Unsure(call[c]), Anew(call[c])) /\ e \in Emails
      /\ Current(call[c], Now)
  BY LoneReads DEF CompleteRecoveryByEmail, Asks, Able, OfAccounts
<1>2. ~Unsure(call[c])
  BY DEF Unsure, CompleteRecoveryByEmail, Asks
<1>3. NewSalt \in 0..MaxSalts
  BY <1>1, NextNumbers, ZeroIs DEF CompleteRecoveryByEmail
<1>4. Now.loggedIn => Now.email = e
  BY <1>1 DEF Current, CompleteRecoveryByEmail, Asks
<1>5. server.account[e] \in [user : ProUsers, salt : 1..MaxSalts]
  BY <1>1 DEF CompleteRecoveryByEmail, ServerOK
<1>6. /\ srv.account = [server.account EXCEPT ![e] = [server.account[e] EXCEPT !.salt = NewSalt]]
      /\ srv.pro = server.pro
  BY <1>1 DEF ServerOK
<1>7. srv.account[e].salt = NewSalt /\ srv.account[e] # NoAccount
  <2> DEFINE a == [server.account[e] EXCEPT !.salt = NewSalt]
  <2>1. a.salt = NewSalt /\ a.user # 0
    BY <1>5, ZeroIs
  <2>2. srv.account[e] = a
    BY <1>1, <1>6 DEF ServerOK
  <2> HIDE DEF a, srv
  <2> QED BY <2>1, <2>2 DEF NoAccount
<1>8. Reply(c, srv, <<[salt |-> NewSalt]>>, "idle", {})
  BY DEF CompleteRecoveryByEmail
<1>9. Makes(<<[salt |-> NewSalt]>>, Now, Now.email, NewSalt, Now.loggedIn, Now.pro, Now.userID)
  BY <1>1, <1>3, OneMakes
<1> HIDE DEF srv
<1>10. ASSUME NEW s, Is(s, Now.email, NewSalt, Now.loggedIn, Now.pro, Now.userID)
       PROVE  Right(srv, mishaps \cup {}, s, "idle" = "update", "idle" = "ask")
  <2>1. Salted(srv, s)
    BY <1>1, <1>4, <1>7, <1>10 DEF Salted, Is
  <2>2. mishaps \subseteq {"refetch", "deleted"} => ProIs(srv, s)
    BY <1>1, <1>2, <1>6, <1>10 DEF ProIs, Is, Right
  <2> QED BY <2>1, <2>2 DEF Right
<1> QED BY <1>1, <1>8, <1>9, <1>10, ReplyIsGood

\* A user is created after signing out, and nobody hears of it.
LEMMA CreatingIsGood ==
  ASSUME NEW c, Lone(c), UserCreate(c)
  PROVE  Good(call'[c], Now', server', mishaps')
<1>1. ServerOK /\ call[c].at = "create"
  BY LoneReads DEF UserCreate
<1>2. server'.account = server.account /\ server'.pro = server.pro
  BY <1>1 DEF UserCreate, ServerOK
<1>3. ~Unsure(call[c]) /\ ~Anew(call[c])
  <2>1. Able(call[c])
    BY DEF Lone, AccountInv, CallsOK
  <2> QED BY <1>1, <2>1 DEF Unsure, Anew
<1> QED BY <1>1, <1>2, <1>3, EndIsGood DEF UserCreate

\* The session gets the user created.
LEMMA RetryIsGood ==
  ASSUME NEW c, Lone(c), RetryCreateUser(c), ~Exit
  PROVE  Good(call'[c], Now', server', mishaps')
<1>1. /\ SessionOK /\ ServerOK /\ CallsOK /\ c \in Calls /\ Now \in Sessions
      /\ Right(server, mishaps, Now, Unsure(call[c]), Anew(call[c]))
      /\ Current(call[c], Now) /\ call[c].todo = << >>
  BY LoneReads DEF RetryCreateUser, Asks
<1>2. ~Unsure(call[c]) /\ Anew(call[c])
  BY DEF Unsure, Anew, RetryCreateUser, Asks
<1>3. /\ CanUser /\ server' = [server EXCEPT !.users = NewUser]
      /\ Answered(c, SetUserIDAndToken(NewUser), "idle") \/ UNCHANGED call
      /\ UNCHANGED <<settings, mishaps>>
  BY DEF RetryCreateUser
<1>4. server'.account = server.account /\ server'.pro = server.pro
  BY <1>1, <1>3 DEF ServerOK
<1>5. CASE UNCHANGED call
  <2>1. call' = [call EXCEPT ![c] = call[c]]
    BY <1>1, <1>5 DEF CallsOK
  <2> QED BY <1>1, <1>3, <1>4, <2>1, GoesIsGood DEF RetryCreateUser, Asks
<1>6. CASE Answered(c, SetUserIDAndToken(NewUser), "idle")
  <2>1. NewUser \in 0..MaxUsers
    BY <1>1, <1>3, NextNumbers, ZeroIs
  <2>2. Makes(SetUserIDAndToken(NewUser), Now, Now.email, Now.salt, Now.loggedIn, Now.pro, NewUser)
    BY <1>1, <2>1, OneMakes
  <2>3. ASSUME NEW s, Is(s, Now.email, Now.salt, Now.loggedIn, Now.pro, NewUser)
        PROVE  Right(server', mishaps', s, "idle" = "update", "idle" = "ask")
    <3>1. mishaps' \subseteq {"deleted"} => Salted(server', s)
      BY <1>1, <1>3, <1>4, <2>3 DEF Right, Salted, Is
    <3>2. mishaps' \subseteq {"refetch", "deleted"} => ProIs(server', s)
      BY <1>1, <1>2, <1>3, <2>3 DEF Right, ProIs, Is
    <3> QED BY <3>1, <3>2 DEF Right
  <2> QED BY <1>1, <1>3, <1>6, <2>2, <2>3, AnsweredIsGood
<1> QED BY <1>3, <1>5, <1>6

\* The details of the session's user.
LEMMA FetchIsGood ==
  ASSUME NEW c, Lone(c), FetchUserData(c)
  PROVE  Good(call'[c], Now', server', mishaps')
<1>1. /\ SessionOK /\ ServerOK /\ CallsOK /\ c \in Calls /\ Now \in Sessions /\ call[c] \in Task
      /\ Right(server, mishaps, Now, Unsure(call[c]), Anew(call[c])) /\ Current(call[c], Now)
      /\ call[c].op \in {"scan", "refresh"} /\ call[c].at = "ask"
  BY LoneReads DEF FetchUserData
<1> DEFINE u == call[c].uid
           next == IF call[c].op = "scan" THEN "announce" ELSE "store"
<1>2. u = Now.userID /\ u # 0 /\ u \in ProUsers /\ u \in 0..MaxUsers
  <2>1. Identified(c)
    BY DEF FetchUserData
  <2> QED BY <1>1, <2>1, IdentifiedIs, ZeroIs DEF Now
<1>3. server.pro[u] \in BOOLEAN
  BY <1>1, <1>2 DEF ServerOK
<1>4. PICK e \in EmailsOf(call[c].uid) :
        /\ call' = [call EXCEPT ![c].at = "write", ![c].data = UserDetails(call[c].uid),
              ![c].next = IF call[c].op = "scan" THEN "announce" ELSE "store",
              ![c].todo = SetUserIDAndToken(call[c].uid)
                            \o <<[email |-> e], [pro |-> server.pro[call[c].uid]]>>]
        /\ mishaps' = IF settings.loggedIn /\ e # settings.email
                      THEN mishaps \cup {"refetch"} ELSE mishaps
  BY DEF FetchUserData
<1> DEFINE list == SetUserIDAndToken(u) \o <<[email |-> e], [pro |-> server.pro[u]]>>
           k == [call[c] EXCEPT !.at = "write", !.data = UserDetails(u), !.next = next,
                                !.todo = list]
<1>e. e \in Addresses
  BY EmailsAre
<1>5. UNCHANGED <<settings, server>>
  BY DEF FetchUserData
<1>10. call'[c] = k /\ Now' = Now
  BY <1>1, <1>4, <1>5 DEF CallsOK, Now
<1>6. /\ k.at = "write" /\ k.data = UserDetails(u) /\ k.next = next
      /\ k.todo = list /\ k.op = call[c].op /\ k.key = call[c].key
  BY <1>1 DEF Task
<1>7. Makes(list, Now, e, Now.salt, Now.loggedIn, server.pro[u], u)
  BY <1>1, <1>2, <1>3, <1>e, DetailsMake
<1> HIDE DEF k, list
<1>8. Current(k, Now)
  <2>1. UserDetails(u).id = u
    BY DEF UserDetails
  <2>2. next = "store" => call[c].key = u
    BY <1>1 DEF Current
  <2> QED BY <1>6, <2>1, <2>2 DEF Current, Stores
<1>9. ASSUME NEW s, Is(s, e, Now.salt, Now.loggedIn, server.pro[u], u)
      PROVE  Right(server', mishaps', s, k.next = "update", k.next = "ask")
  <2>1. ~Unsure(call[c])
    BY <1>1 DEF Unsure
  <2>2. s.pro = server.pro[u] /\ s.userID = u /\ s.email = e /\ s.salt = Now.salt
        /\ s.loggedIn = Now.loggedIn
    BY <1>9 DEF Is
  <2>3. ProIs(server', s)
    BY <1>2, <1>5, <2>2 DEF ProIs
  <2>4. mishaps' \subseteq {"deleted"} => Salted(server', s)
    <3>1. Now.loggedIn = settings.loggedIn /\ Now.email = settings.email
      BY DEF Now
    <3>2. mishaps' \subseteq {"deleted"} /\ Now.loggedIn
            => e = Now.email /\ mishaps \subseteq {"deleted"}
      BY <1>4, <3>1
    <3> QED BY <1>1, <1>5, <2>2, <3>2 DEF Right, Salted
  <2>5. k.next # "update" /\ k.next # "ask"
    BY <1>6
  <2> QED BY <2>3, <2>4, <2>5 DEF Right
<1> HIDE DEF u, next
<1>11. Good(k, Now, server', mishaps')
  BY <1>6, <1>7, <1>8, <1>9, MakesIsGood
<1> QED BY <1>10, <1>11

\* The device is linked, and is said to be pro until its user's details say whether it is.
LEMMA LinkIsGood ==
  ASSUME NEW c, Lone(c), UserLinkValidate(c)
  PROVE  Good(call'[c], Now', server', mishaps')
<1>1. /\ SessionOK /\ ServerOK /\ CallsOK /\ c \in Calls /\ Now \in Sessions
      /\ Current(call[c], Now)
  BY LoneReads DEF UserLinkValidate, Asks
<1>2. ~Now.loggedIn
  BY <1>1 DEF Current, UserLinkValidate, Asks
<1>3. PICK u \in 1..server.users \ server.full :
        Reply(c, [server EXCEPT !.linked = @ \cup {u}],
              <<[pro |-> TRUE]>> \o SetUserIDAndToken(u), "update", {})
  BY DEF UserLinkValidate
<1>4. u \in 0..MaxUsers
  BY <1>1, DesktopAccountAssumption DEF ServerOK, DesktopAccountAssumption
<1>5. Makes(<<[pro |-> TRUE]>> \o SetUserIDAndToken(u), Now, Now.email, Now.salt, Now.loggedIn,
            TRUE, u)
  BY <1>1, <1>4, ZeroIs, DetailsMake
<1>6. ASSUME NEW srv, NEW s, Is(s, Now.email, Now.salt, Now.loggedIn, TRUE, u)
      PROVE  Right(srv, mishaps \cup {}, s, "update" = "update", "update" = "ask")
  BY <1>2, <1>6 DEF Right, Salted, Is
<1> QED BY <1>1, <1>3, <1>5, <1>6, ReplyIsGood

LEMMA UpdateIsGood ==
  ASSUME NEW c, Lone(c), UpdateUserData(c)
  PROVE  Good(call'[c], Now', server', mishaps')
<1> DEFINE u == call[c].uid
           pro == server.pro[u] /\ (settings.firstVisit \/ u \in server.linked)
<1>1. /\ SessionOK /\ ServerOK /\ CallsOK /\ c \in Calls /\ Now \in Sessions
      /\ Right(server, mishaps, Now, Unsure(call[c]), Anew(call[c])) /\ Identified(c)
  BY LoneReads DEF UpdateUserData, Asks
<1>2. Unsure(call[c])
  BY DEF Unsure, UpdateUserData, Asks
<1>3. ~Now.loggedIn
  BY <1>1, <1>2 DEF Right
<1>4. u # 0 /\ u \in ProUsers /\ u \in 0..MaxUsers
  BY <1>1, IdentifiedIs, ZeroIs
<1>5. pro \in BOOLEAN /\ (pro => server.pro[u])
  BY <1>1, <1>4 DEF ServerOK, SessionOK
<1>6. PICK e \in Addresses :
        Answered(c, <<[pro |-> pro]>> \o SetUserIDAndToken(u)
                      \o (IF e = NoEmail THEN << >> ELSE <<[email |-> e]>>), "idle")
  BY EmailsAre DEF UpdateUserData
<1>7. UNCHANGED <<settings, server, mishaps>>
  BY DEF UpdateUserData
<1> HIDE DEF u, pro
<1> DEFINE txs == <<[pro |-> pro]>> \o SetUserIDAndToken(u)
                    \o (IF e = NoEmail THEN << >> ELSE <<[email |-> e]>>)
           x == IF e = NoEmail THEN Now.email ELSE e
<1>8. Makes(txs, Now, x, Now.salt, Now.loggedIn, pro, u)
  BY <1>1, <1>4, <1>5, DetailsMake
<1> HIDE DEF txs, x
<1>9. ASSUME NEW s, Is(s, x, Now.salt, Now.loggedIn, pro, u)
      PROVE  Right(server', mishaps', s, "idle" = "update", "idle" = "ask")
  <2>1. ProIs(server', s)
    BY <1>4, <1>5, <1>7, <1>9 DEF ProIs, Is
  <2>2. Salted(server', s)
    BY <1>3, <1>9 DEF Salted, Is
  <2> QED BY <2>1, <2>2 DEF Right
<1>10. Answered(c, txs, "idle")
  BY <1>6 DEF txs
<1> QED BY <1>1, <1>7, <1>8, <1>9, <1>10, AnsweredIsGood

LEMMA RedeemIsGood ==
  ASSUME NEW c, Lone(c), RedeemResellerCode(c)
  PROVE  Good(call'[c], Now', server', mishaps')
<1> DEFINE u == call[c].uid
           srv == [server EXCEPT !.pro[u] = TRUE]
<1>1. /\ SessionOK /\ ServerOK /\ CallsOK /\ c \in Calls /\ Now \in Sessions
      /\ Right(server, mishaps, Now, Unsure(call[c]), Anew(call[c])) /\ Identified(c)
  BY LoneReads DEF RedeemResellerCode, Asks
<1>2. u # 0 /\ u \in ProUsers /\ u = Now.userID
  BY <1>1, IdentifiedIs, ZeroIs DEF Now
<1>3. srv.account = server.account /\ srv.pro[u] = TRUE
  BY <1>1, <1>2 DEF ServerOK
<1>4. Makes(<<[pro |-> TRUE]>>, Now, Now.email, Now.salt, Now.loggedIn, TRUE, Now.userID)
  BY <1>1, OneMakes
<1>5. Reply(c, srv, <<[pro |-> TRUE]>>, "idle", {})
  BY DEF RedeemResellerCode
<1> HIDE DEF srv
<1>6. ASSUME NEW s, Is(s, Now.email, Now.salt, Now.loggedIn, TRUE, Now.userID)
      PROVE  Right(srv, mishaps \cup {}, s, "idle" = "update", "idle" = "ask")
  <2>1. ProIs(srv, s)
    BY <1>2, <1>3, <1>6 DEF ProIs, Is
  <2>2. mishaps \subseteq {"deleted"} => Salted(srv, s)
    BY <1>1, <1>3, <1>6 DEF Right, Salted, Is
  <2> QED BY <2>1, <2>2 DEF Right
<1> QED BY <1>1, <1>4, <1>5, <1>6, ReplyIsGood

-----------------------------------------------------------------------------
(* The other steps of a call that runs alone.                              *)

\* The steps that only go on.
LEMMA ReadIsGood ==
  ASSUME NEW c, Lone(c),
         UserConfig(c) \/ GetSalt(c) \/ CheckCache(c) \/ ReadKey(c) \/ StartUpdate(c)
  PROVE  Good(call'[c], Now', server', mishaps')
<1> DEFINE t == call[c]
<1>1. /\ t \in Task /\ Able(t) /\ Now \in Sessions /\ CallsOK /\ c \in Calls
      /\ t.todo = << >> /\ Current(t, Now) /\ t.at # "write" /\ ServerOK
  BY LoneReads DEF UserConfig, GetSalt, CheckCache, ReadKey, StartUpdate
<1>2. /\ UNCHANGED settings /\ mishaps' = mishaps /\ server'.account = server.account
      /\ \A u \in ProUsers : server.pro[u] => server'.pro[u]
  BY DEF UserConfig, GetSalt, CheckCache, ReadKey, StartUpdate
<1>3. ASSUME NEW k, call' = [call EXCEPT ![c] = k], k.todo = << >>, Current(k, Now),
             Unsure(k) <=> Unsure(t), Anew(k) <=> Anew(t)
      PROVE  Good(call'[c], Now', server', mishaps')
  BY <1>1, <1>2, <1>3, GoesIsGood
<1>4. CASE UserConfig(c)
  <2> DEFINE k == [t EXCEPT !.uid = settings.userID, !.at = "ask"]
  <2>1. /\ k.todo = t.todo /\ k.at = "ask" /\ k.uid = settings.userID /\ k.op = t.op
        /\ k.next = t.next /\ k.email = t.email /\ k.key = t.key /\ k.data = t.data
    BY <1>1 DEF Task
  <2>2. call' = [call EXCEPT ![c] = k] /\ t.at = "ident"
    BY <1>4 DEF UserConfig
  <2>3. Now.userID = settings.userID
    BY DEF Now
  <2>4. t.op # "retry"
    BY <1>1, <2>2 DEF Able
  <2> HIDE DEF k, t
  <2>5. Current(k, Now)
    BY <1>1, <2>1, <2>2, <2>3 DEF Current, Stores
  <2>6. (Unsure(k) <=> Unsure(t)) /\ (Anew(k) <=> Anew(t))
    BY <2>1, <2>2, <2>4 DEF Unsure, Anew
  <2> QED BY <1>1, <1>3, <2>1, <2>2, <2>5, <2>6
<1>5. CASE GetSalt(c)
  <2> DEFINE k == [t EXCEPT !.salt = server.account[t.email].salt, !.at = "ask"]
  <2>1. /\ k.todo = t.todo /\ k.at = "ask" /\ k.op = t.op
        /\ k.next = t.next /\ k.email = t.email /\ k.key = t.key /\ k.data = t.data
    BY <1>1 DEF Task
  <2>2. call' = [call EXCEPT ![c] = k] /\ t.at = "salt"
    BY <1>5 DEF GetSalt
  <2>3. t.op \in {"login", "delete"}
    BY <1>1, <2>2 DEF Able
  <2> HIDE DEF k, t
  <2>4. Current(k, Now)
    BY <1>1, <2>1, <2>2, <2>3 DEF Current, Stores
  <2>5. (Unsure(k) <=> Unsure(t)) /\ (Anew(k) <=> Anew(t))
    BY <2>1, <2>2, <2>3 DEF Unsure, Anew
  <2> QED BY <1>1, <1>3, <2>1, <2>2, <2>4, <2>5
<1>6. CASE End(c) /\ t.at \in {"check", "key"}
  <2>1. ~Unsure(t) /\ ~Anew(t)
    <3>1. t.op \in {"refresh", "scan"}
      BY <1>1, <1>6 DEF Current
    <3> HIDE DEF t
    <3> QED BY <1>6, <3>1 DEF Unsure, Anew
  <2> QED BY <1>1, <1>2, <1>6, <2>1, EndIsGood
<1>7. ASSUME NEW place \in {"announce", "ident", "key"}, NEW key,
             place = "ident" /\ t.op = "refresh" => key = Now.userID,
             place = "key" => t.op = "refresh",
             t.at \in {"check", "key"},
             call' = [call EXCEPT ![c] = [t EXCEPT !.at = place, !.key = key]]
      PROVE  Good(call'[c], Now', server', mishaps')
  <2> DEFINE k == [t EXCEPT !.at = place, !.key = key]
  <2>1. /\ k.todo = t.todo /\ k.at = place /\ k.op = t.op /\ k.key = key
        /\ k.next = t.next /\ k.email = t.email /\ k.data = t.data
    BY <1>1 DEF Task
  <2>2. t.op \in {"refresh", "scan"}
    BY <1>1, <1>7 DEF Current
  <2>3. call' = [call EXCEPT ![c] = k]
    BY <1>7
  <2> HIDE DEF k, t
  <2>4. Current(k, Now)
    BY <1>7, <2>1, <2>2 DEF Current, Stores
  <2>5. (Unsure(k) <=> Unsure(t)) /\ (Anew(k) <=> Anew(t))
    BY <1>7, <2>1, <2>2 DEF Unsure, Anew
  <2> QED BY <1>1, <1>3, <2>1, <2>3, <2>4, <2>5
<1>8. CASE CheckCache(c)
  <2>1. t.at = "check" /\ t.op \in {"refresh", "scan"}
    BY <1>1, <1>8 DEF CheckCache, Current
  <2>2. ASSUME NEW place PROVE [t EXCEPT !.at = place, !.key = t.key] = [t EXCEPT !.at = place]
    BY <1>1 DEF Task
  <2>3. CASE UserCached /\ t.op = "scan"
    <3>1. call' = [call EXCEPT ![c] = [t EXCEPT !.at = "announce"]]
      BY <1>8, <2>3 DEF CheckCache
    <3>2. call' = [call EXCEPT ![c] = [t EXCEPT !.at = "announce", !.key = t.key]]
      BY <2>2, <3>1
    <3> HIDE DEF t
    <3> QED BY <1>7, <2>1, <3>2
  <2>4. CASE UserCached /\ t.op # "scan"
    BY <1>6, <1>8, <2>1, <2>4 DEF CheckCache
  <2>5. CASE ~UserCached /\ t.op = "scan"
    <3>1. call' = [call EXCEPT ![c] = [t EXCEPT !.at = "ident"]]
      BY <1>8, <2>5 DEF CheckCache
    <3>2. call' = [call EXCEPT ![c] = [t EXCEPT !.at = "ident", !.key = t.key]]
      BY <2>2, <3>1
    <3> HIDE DEF t
    <3> QED BY <1>7, <2>1, <2>5, <3>2
  <2>6. CASE ~UserCached /\ t.op # "scan"
    <3>1. call' = [call EXCEPT ![c] = [t EXCEPT !.at = "key"]]
      BY <1>8, <2>6 DEF CheckCache
    <3>2. call' = [call EXCEPT ![c] = [t EXCEPT !.at = "key", !.key = t.key]]
      BY <2>2, <3>1
    <3> HIDE DEF t
    <3> QED BY <1>7, <2>1, <2>6, <3>2
  <2> QED BY <2>3, <2>4, <2>5, <2>6
<1>9. CASE ReadKey(c)
  <2>1. t.at = "key"
    BY <1>9 DEF ReadKey
  <2>2. CASE settings.userID = 0
    BY <1>6, <1>9, <2>1, <2>2 DEF ReadKey
  <2>3. CASE settings.userID # 0
    <3>1. [t EXCEPT !.key = settings.userID, !.at = "ident"]
            = [t EXCEPT !.at = "ident", !.key = settings.userID]
      BY <1>1 DEF Task
    <3>2. call' = [call EXCEPT ![c] = [t EXCEPT !.at = "ident", !.key = settings.userID]]
      BY <1>9, <2>3, <3>1 DEF ReadKey
    <3>3. Now.userID = settings.userID
      BY DEF Now
    <3> HIDE DEF t
    <3> QED BY <1>7, <2>1, <3>2, <3>3
  <2> QED BY <2>2, <2>3
<1>10. CASE StartUpdate(c)
  <2> DEFINE k == [t EXCEPT !.op = "update", !.at = "ident"]
  <2>1. /\ k.todo = t.todo /\ k.at = "ident" /\ k.op = "update" /\ k.next = t.next
    BY <1>1 DEF Task
  <2>2. call' = [call EXCEPT ![c] = k] /\ t.at = "update"
    BY <1>10 DEF StartUpdate
  <2>3. t.op # "retry"
    BY <1>1, <2>2 DEF Able
  <2> HIDE DEF k, t
  <2>4. Current(k, Now)
    BY <2>1 DEF Current, Stores
  <2>5. (Unsure(k) <=> Unsure(t)) /\ (Anew(k) <=> Anew(t))
    BY <2>1, <2>2, <2>3 DEF Unsure, Anew
  <2> QED BY <1>1, <1>3, <2>1, <2>2, <2>4, <2>5
<1> QED BY <1>4, <1>5, <1>8, <1>9, <1>10

LEMMA StoreIsGood ==
  ASSUME NEW c, Lone(c), SetUserData(c)
  PROVE  Good(call'[c], Now', server', mishaps')
<1>1. call[c].at = "store" /\ Able(call[c])
  BY LoneReads DEF SetUserData
<1>2. ~Unsure(call[c]) /\ ~Anew(call[c])
  BY <1>1 DEF Unsure, Anew
<1> QED BY <1>1, <1>2, EndIsGood DEF SetUserData

LEMMA FailIsGood ==
  ASSUME NEW c, Lone(c), Fail(c)
  PROVE  Good(call'[c], Now', server', mishaps')
<1>1. /\ SessionOK /\ CallsOK /\ c \in Calls /\ Able(call[c])
      /\ call[c].at \in {"salt", "ask", "create"} /\ call[c].op # "retry"
  BY LoneReads DEF Fail
<1>2. CASE call[c].wrote
  BY <1>1, <1>2, LostIsGood DEF Fail
<1>3. CASE ~call[c].wrote
  <2>1. ~Unsure(call[c]) /\ ~Anew(call[c])
    BY <1>1, <1>3 DEF Unsure, Anew, Able
  <2> QED BY <1>1, <1>3, <2>1, EndIsGood DEF Fail
<1> QED BY <1>2, <1>3

LEMMA AnnounceIsGood ==
  ASSUME NEW c, Lone(c), MakeAnnouncements(c)
  PROVE  Good(call'[c], Now', server', mishaps')
<1>1. /\ SessionOK /\ CallsOK /\ c \in Calls /\ Able(call[c]) /\ call[c].at = "announce"
      /\ Now \in Sessions /\ Right(server, mishaps, Now, Unsure(call[c]), Anew(call[c]))
  BY LoneReads DEF MakeAnnouncements
<1>2. ~Unsure(call[c]) /\ ~Anew(call[c])
  BY <1>1 DEF Unsure, Anew, Able
<1>3. UNCHANGED <<settings, server, mishaps>>
  BY DEF MakeAnnouncements
<1>4. PICK P : End(c) \/ Answered(c, <<[past |-> P]>>, "idle")
  BY DEF MakeAnnouncements
<1>5. CASE End(c)
  BY <1>1, <1>2, <1>3, <1>5, EndIsGood
<1>6. CASE Answered(c, <<[past |-> P]>>, "idle")
  <2>1. Makes(<<[past |-> P]>>, Now, Now.email, Now.salt, Now.loggedIn, Now.pro, Now.userID)
    BY <1>1, OneMakes
  <2>2. ASSUME NEW s, Is(s, Now.email, Now.salt, Now.loggedIn, Now.pro, Now.userID)
        PROVE  Right(server', mishaps', s, "idle" = "update", "idle" = "ask")
    BY <1>1, <1>2, <1>3, <2>2 DEF Right, Salted, ProIs, Is
  <2> QED BY <1>1, <1>3, <1>6, <2>1, <2>2, AnsweredIsGood
<1> QED BY <1>4, <1>5, <1>6

\* The app has started: it has a user, or is to create one.
LEMMA InitIsGood ==
  ASSUME NEW c, Lone(c), FetchOrCreateUser(c)
  PROVE  Good(call'[c], Now', server', mishaps')
<1> DEFINE t == call[c]
<1>1. /\ SessionOK /\ CallsOK /\ c \in Calls /\ t \in Task /\ Able(t) /\ t.at = "init"
      /\ Now \in Sessions /\ Right(server, mishaps, Now, Unsure(t), Anew(t)) /\ t.todo = << >>
  BY LoneReads DEF FetchOrCreateUser
<1>2. ~Unsure(t) /\ ~Anew(t)
  BY <1>1 DEF Unsure, Anew
<1>3. UNCHANGED <<settings, server, mishaps>> /\ Now.userID = settings.userID
  BY DEF FetchOrCreateUser, Now
<1>4. CASE settings.userID = 0
  <2> DEFINE k == [t EXCEPT !.op = "retry", !.at = "write", !.todo = <<[firstVisit |-> TRUE]>>,
                            !.next = "ask"]
  <2>1. call' = [call EXCEPT ![c] = k]
    BY <1>4 DEF FetchOrCreateUser
  <2>2. k.at = "write" /\ k.next = "ask" /\ k.todo = <<[firstVisit |-> TRUE]>>
    BY <1>1 DEF Task
  <2> HIDE DEF k
  <2>3. Makes(<<[firstVisit |-> TRUE]>>, Now, Now.email, Now.salt, Now.loggedIn, Now.pro,
              Now.userID)
    BY <1>1, OneMakes
  <2>4. ASSUME NEW s, Is(s, Now.email, Now.salt, Now.loggedIn, Now.pro, Now.userID)
        PROVE  Right(server', mishaps', s, k.next = "update", k.next = "ask")
    BY <1>1, <1>2, <1>3, <1>4, <2>2, <2>4 DEF Right, Salted, ProIs, Is
  <2>5. Current(k, Now)
    BY <2>2 DEF Current, Stores
  <2>6. call'[c] = k /\ Now' = Now
    BY <1>1, <1>3, <2>1 DEF CallsOK, Now
  <2>7. Good(k, Now, server', mishaps')
    BY <2>2, <2>3, <2>4, <2>5, MakesIsGood
  <2> QED BY <2>6, <2>7
<1>5. CASE settings.userID # 0
  <2> DEFINE k == [t EXCEPT !.op = "refresh", !.at = "check"]
  <2>1. call' = [call EXCEPT ![c] = k]
    BY <1>5 DEF FetchOrCreateUser
  <2>2. k.at = "check" /\ k.op = "refresh" /\ k.todo = << >>
    BY <1>1 DEF Task
  <2> HIDE DEF k
  <2>3. Current(k, Now) /\ ~Unsure(k) /\ ~Anew(k)
    BY <2>2 DEF Current, Stores, Unsure, Anew
  <2> QED BY <1>1, <1>2, <1>3, <2>1, <2>2, <2>3, GoesIsGood
<1> QED BY <1>4, <1>5

LEMMA WriteIsGood ==
  ASSUME NEW c, Lone(c), Write(c)
  PROVE  Good(call'[c], Now', server', mishaps')
<1> DEFINE k == call[c]
           rest == Tail(k.todo)
           more == [k EXCEPT !.todo = rest, !.wrote = TRUE]
           on == [k EXCEPT !.todo = rest, !.wrote = TRUE, !.at = k.next]
<1>1. /\ CallsOK /\ SessionOK /\ c \in Calls /\ k \in Task /\ Able(k) /\ k.at = "write"
      /\ k.todo # << >> /\ k.todo \in Seq(Transaction) /\ Head(k.todo) \in Transaction
      /\ settings' = Put(Head(k.todo)) /\ Now \in Sessions
  BY HeadIs, NowIs DEF Lone, AccountInv, Write
<1>2. PICK s \in Sessions :
        Ends(k.todo, Now, s) /\ Right(server, mishaps, s, Unsure(k), Anew(k))
  BY DEF Lone, Good
<1>3. Now' = [path \in Paths |->
               IF path \in DOMAIN Head(k.todo) THEN Head(k.todo)[path] ELSE Now[path]]
  <2> DEFINE tx == Head(k.todo)
             d == [path \in Paths |-> IF path \in DOMAIN tx THEN tx[path] ELSE Now[path]]
  <2> HIDE DEF tx
  <2>1. /\ settings'.email = d["email"] /\ settings'.salt = d["salt"]
        /\ settings'.loggedIn = d["loggedIn"] /\ settings'.pro = d["pro"]
        /\ settings'.userID = d["userID"]
    BY <1>1 DEF SessionOK, Put, Now, Paths, tx
  <2>2. Now' = d
    BY <2>1 DEF Now, Paths
  <2> QED BY <2>2 DEF tx
<1>4. Ends(rest, Now', s)
  BY <1>1, <1>2, <1>3, EndsWrite
<1>5. call'[c] = IF rest # << >> THEN more ELSE IF k.next = "idle" THEN Idle ELSE on
  BY <1>1 DEF Write, CallsOK
<1>6. server' = server /\ mishaps' = mishaps
  BY DEF Write
<1>7. /\ Unsure(k) <=> k.next = "update"
      /\ Anew(k) <=> k.next = "ask"
  BY <1>1 DEF Unsure, Anew
<1>8. Stores(k) <=> k.next = "store"
  BY <1>1 DEF Stores
<1>c. Current(k, Now)
  BY DEF Lone, Good
<1>9. CASE rest # << >>
  <2>1. /\ more.at = "write" /\ more.todo = rest /\ more.next = k.next
        /\ more.data = k.data /\ more.key = k.key
    BY <1>1 DEF Task
  <2> HIDE DEF more, k
  <2>2. Current(more, Now') /\ (Unsure(more) <=> Unsure(k)) /\ (Anew(more) <=> Anew(k))
    BY <1>7, <1>8, <1>c, <2>1 DEF Current, Unsure, Anew, Stores
  <2>3. Right(server', mishaps', s, Unsure(more), Anew(more))
    BY <1>2, <1>6, <2>2 DEF Right
  <2> QED BY <1>2, <1>4, <1>5, <1>9, <2>1, <2>2, <2>3 DEF Good
<1>10. CASE rest = << >> /\ k.next = "idle"
  <2>1. Right(server', mishaps', s, Unsure(Idle), Anew(Idle))
    BY <1>2, <1>6, <1>7, <1>10, IdleIsCurrent DEF Right
  <2> QED BY <1>2, <1>4, <1>5, <1>10, <2>1, IdleIsCurrent DEF Good
<1>11. CASE rest = << >> /\ k.next # "idle"
  <2>1. /\ on.at = k.next /\ on.todo = rest /\ on.op = k.op /\ on.data = k.data /\ on.key = k.key
        /\ on.next = k.next /\ k.next \in {"create", "store", "announce", "update", "ask"}
    BY <1>1, <1>11 DEF Task, After
  <2>2. (k.next = "ask" => k.op = "retry") /\ (k.op = "retry" => k.next \in {"idle", "ask"})
    BY <1>1 DEF Able
  <2> HIDE DEF on, k
  <2>3. Current(on, Now')
    BY <1>8, <1>c, <2>1, <2>2 DEF Current, Stores
  <2>4. (Unsure(on) <=> Unsure(k)) /\ (Anew(on) <=> Anew(k))
    BY <1>7, <2>1, <2>2 DEF Unsure, Anew
  <2>5. Right(server', mishaps', s, Unsure(on), Anew(on))
    BY <1>2, <1>6, <2>4 DEF Right
  <2> QED BY <1>2, <1>4, <1>5, <1>11, <2>1, <2>3, <2>5 DEF Good
<1> QED BY <1>9, <1>10, <1>11

LEMMA StepIsGood ==
  ASSUME NEW c, Lone(c), Step(c), ~Exit
  PROVE  Good(call'[c], Now', server', mishaps')
  BY WriteIsGood, StoreIsGood, ReadIsGood, FailIsGood, SignUpIsGood, LoginIsGood, LeavingIsGood,
     RecoveryIsGood, CreatingIsGood, FetchIsGood, LinkIsGood, UpdateIsGood, RedeemIsGood,
     AnnounceIsGood, InitIsGood, RetryIsGood DEF Step

-----------------------------------------------------------------------------
(* What begins, and the end of the process.                                *)

\* The call k has looked at session d, and leaves nothing open.
Ready(k, d) == Current(k, d) /\ ~Unsure(k) /\ ~Anew(k)

LEMMA BeginsCurrent ==
  ASSUME CallsOK, NEW c \in Calls,
         Scan(c) \/ BeginCredentials(c) \/ BeginSignedIn(c) \/ BeginProCall(c) \/ AfterStart(c)
  PROVE  Ready(call'[c], Now)
<1>0. /\ Now.loggedIn = settings.loggedIn /\ Now.email = settings.email
      /\ Idle \in Task /\ Idle.next = "idle"
  BY IdleIsAble DEF Now, Idle
<1>1. ASSUME NEW k, call' = [call EXCEPT ![c] = k], Ready(k, Now) PROVE Ready(call'[c], Now)
  BY <1>1 DEF CallsOK
<1>2. ASSUME NEW e
      PROVE  /\ Ready(For("scan", "check", e), Now) /\ Ready(For("refresh", "check", e), Now)
             /\ Ready(For("redeem", "ident", e), Now) /\ Ready(For("logout", "ident", e), Now)
             /\ Ready(For("init", "init", e), Now)
  BY <1>0 DEF For, Task, Ready, Current, Unsure, Anew, Stores
<1>3. ASSUME NEW e, NEW n, NEW at \in {"salt", "ask"}
      PROVE  Ready([For("delete", at, e) EXCEPT !.salt = n], Now)
  <2> DEFINE k == [For("delete", at, e) EXCEPT !.salt = n]
  <2>1. k.op = "delete" /\ k.at = at /\ k.next = "idle"
    BY <1>0 DEF For, Task
  <2> HIDE DEF k
  <2>2. Ready(k, Now)
    BY <2>1 DEF Ready, Current, Unsure, Anew, Stores
  <2> QED BY <2>2 DEF k
<1>4. ASSUME NEW e, ~Now.loggedIn
      PROVE  Ready(For("signup", "ident", e), Now) /\ Ready(For("login", "salt", e), Now)
             /\ Ready(For("validate", "ask", e), Now)
  BY <1>0, <1>4 DEF For, Task, Ready, Current, Unsure, Anew, Stores
<1>5. ASSUME NEW e, Now.loggedIn => e = Now.email
      PROVE  Ready(For("recover", "ask", e), Now)
  BY <1>0, <1>5 DEF For, Task, Ready, Current, Unsure, Anew, Stores
<1>6. CASE Scan(c) \/ AfterStart(c)
  BY <1>1, <1>2, <1>6 DEF Scan, Begin, AfterStart
<1>7. CASE BeginCredentials(c)
  BY <1>0, <1>1, <1>4, <1>5, <1>7 DEF BeginCredentials, Begin
<1>8. CASE BeginSignedIn(c)
  <2>1. PICK k : call' = [call EXCEPT ![c] = k] /\ Ready(k, Now)
    BY <1>2, <1>3, <1>8 DEF BeginSignedIn, Begin
  <2> QED BY <1>1, <2>1
<1>9. CASE BeginProCall(c)
  BY <1>0, <1>1, <1>2, <1>4, <1>9 DEF BeginProCall, Begin
<1> QED BY <1>6, <1>7, <1>8, <1>9

\* Nothing runs, and the session is right.
Settled == \A c \in Calls : ~Active(c)

LEMMA SettledIsRight ==
  ASSUME AccountInv, SoloInv, "overlap" \notin mishaps, Settled
  PROVE  Now \in Sessions /\ Right(server, mishaps, Now, FALSE, FALSE)
<1>1. Now \in Sessions
  BY NowIs DEF AccountInv
<1>2. Good(Idle, Now, server, mishaps)
  BY DEF SoloInv, Settled
<1>3. Right(server, mishaps, Now, Unsure(Idle), Anew(Idle))
  BY <1>1, <1>2, IdleIsCurrent, GoodNow
<1> QED BY <1>1, <1>3, IdleIsCurrent DEF Right

LEMMA BeginSolo ==
  ASSUME AccountInv, SoloInv, CallsOK', "overlap" \notin mishaps', NEW c \in Calls,
         Scan(c) \/ BeginCredentials(c) \/ BeginSignedIn(c) \/ BeginProCall(c) \/ AfterStart(c)
  PROVE  SoloInv'
<1>1. Settled /\ "overlap" \notin mishaps
  <2>1. CASE AfterStart(c)
    BY <2>1 DEF AfterStart, AccountInv, DownIsIdle, Settled, Active, Idle
  <2>2. CASE ~AfterStart(c)
    BY <2>2, Begins DEF Begin, Settled
  <2> QED BY <2>1, <2>2
<1>2. mishaps \subseteq mishaps' \cup {"deleted"} /\ UNCHANGED <<settings, cache, server>>
  BY Begins DEF AfterStart, Begin
<1>3. /\ Now \in Sessions /\ Right(server, mishaps', Now, FALSE, FALSE) /\ Now' = Now
  BY <1>1, <1>2, SettledIsRight, RightWeakens DEF Now
<1>4. call' = [call EXCEPT ![c] = call'[c]] /\ call'[c].todo = << >> /\ CallsOK
  <2>1. ServerGrows
    BY <1>2, SameServer DEF AccountInv
  <2> QED BY <2>1, BeginIsAble DEF AccountInv
<1>5. \A d \in Calls : d # c => call'[d] = call[d]
  BY <1>4 DEF CallsOK
<1>6. Good(call'[c], Now', server', mishaps')
  <2>1. Current(call'[c], Now) /\ ~Unsure(call'[c]) /\ ~Anew(call'[c])
    BY <1>4, BeginsCurrent DEF Ready
  <2>2. Right(server', mishaps', Now, Unsure(call'[c]), Anew(call'[c]))
    BY <1>2, <1>3, <2>1 DEF Right
  <2> QED BY <1>3, <1>4, <2>1, <2>2, GoodNow
<1>7. Good(Idle, Now', server', mishaps')
  <2>1. Right(server', mishaps', Now, Unsure(Idle), Anew(Idle))
    BY <1>2, <1>3, IdleIsCurrent DEF Right
  <2> QED BY <1>3, <2>1, IdleIsCurrent, GoodNow
<1>8. \A d \in Calls : Active(d)' => d = c
  BY <1>1, <1>5 DEF Settled, Active
<1>9. OneCall'
  BY <1>8 DEF OneCall
<1>10. \A u \in ProUsers : cache'[u].id \in {0, u}
  BY <1>1, <1>2 DEF SoloInv
<1>11. \A d \in Calls : Active(d)' => Good(call'[d], Now', server', mishaps')
  BY <1>6, <1>8
<1> QED BY <1>7, <1>9, <1>10, <1>11 DEF SoloInv

LEMMA StepSolo ==
  ASSUME AccountInv, SoloInv, CallsOK', "overlap" \notin mishaps', NEW c \in Calls, Step(c), ~Exit,
         mishaps \subseteq mishaps' \cup {"deleted"}
  PROVE  SoloInv'
<1>1. /\ OneCall /\ Active(c) /\ Good(call[c], Now, server, mishaps)
      /\ \A u \in ProUsers : cache[u].id \in {0, u}
  BY StepsAreOfActive DEF SoloInv
<1>2. Lone(c)
  BY <1>1 DEF Lone
<1>3. Good(call'[c], Now', server', mishaps')
  BY <1>2, StepIsGood
<1>4. \A d \in Calls : d # c => call'[d] = call[d]
  BY StepsAreOfOne DEF AccountInv
<1>5. \A d \in Calls : Active(d)' => d = c
  BY <1>1, <1>4 DEF OneCall, Active
<1>6. OneCall'
  BY <1>5 DEF OneCall
<1>7. (\A d \in Calls : ~Active(d)') => call'[c] = Idle
  BY DEF CallsOK, Able, Active
<1>8. \A u \in ProUsers : cache'[u].id \in {0, u}
  <2>1. CASE SetUserData(c)
    <3>1. call[c].data.id = call[c].key
      BY <1>1, <2>1 DEF Good, Current, Stores, SetUserData
    <3> QED BY <1>1, <2>1, <3>1 DEF SetUserData, AccountInv, CacheOK
  <2>2. CASE ~SetUserData(c)
    BY <1>1, <2>2, KeepsCache
  <2> QED BY <2>1, <2>2
<1>9. \A d \in Calls : Active(d)' => Good(call'[d], Now', server', mishaps')
  BY <1>3, <1>5
<1>10. (\A d \in Calls : ~Active(d)') => Good(Idle, Now', server', mishaps')
  BY <1>3, <1>7
<1> QED BY <1>6, <1>8, <1>9, <1>10 DEF SoloInv

\* The process ends: the session is what it was.
LEMMA ExitSolo ==
  ASSUME AccountInv, SoloInv, "overlap" \notin mishaps', Exit,
         Crash \/ \E c \in Calls : Step(c)
  PROVE  SoloInv'
<1>1. /\ \A c \in Calls : call'[c] = Idle /\ ~Active(c)'
      /\ \A u \in ProUsers : cache'[u].id \in {0, u}
      /\ server' = server /\ Now' = Now /\ Now \in Sessions
  BY NowIs DEF Exit, Active, Idle, NotCached, Now, AccountInv
<1>2. Right(server, mishaps', Now, FALSE, FALSE)
  <2>1. CASE "crash" \in mishaps'
    BY <2>1 DEF Right
  <2>2. CASE Crash /\ "crash" \notin mishaps'
    <3>1. Settled /\ mishaps' = mishaps
      BY <2>2 DEF Crash, Quiet, Settled
    <3> QED BY <3>1, SettledIsRight
  <2>3. ASSUME NEW c \in Calls, Step(c), "crash" \notin mishaps'
        PROVE  Right(server, mishaps', Now, FALSE, FALSE)
    <3>1. mishaps' = mishaps /\ Asks(c, "retry") /\ Active(c)
      BY <2>3, ExitIsRetrys DEF Asks, Active
    <3>2. Lone(c)
      BY <3>1 DEF SoloInv, Lone
    <3>3. Right(server, mishaps, Now, Unsure(call[c]), Anew(call[c]))
      BY <3>1, <3>2, LoneReads DEF Asks
    <3>4. ~Unsure(call[c])
      BY <3>1 DEF Asks, Unsure
    <3> QED BY <3>1, <3>3, <3>4 DEF Right
  <2> QED BY <2>1, <2>2, <2>3
<1>3. Good(Idle, Now', server', mishaps')
  <2>1. Right(server', mishaps', Now, Unsure(Idle), Anew(Idle))
    BY <1>1, <1>2, IdleIsCurrent DEF Right
  <2> QED BY <1>1, <2>1, IdleIsCurrent, GoodNow
<1> QED BY <1>1, <1>3 DEF SoloInv, OneCall

LEMMA SoloStep == AccountInv /\ SoloInv /\ [DesktopNext]_desktopVars => SoloInv'
<1> SUFFICES ASSUME AccountInv, SoloInv, [DesktopNext]_desktopVars, "overlap" \notin mishaps'
             PROVE  SoloInv'
  BY DEF SoloInv
<1>1. CallsOK' /\ mishaps \subseteq mishaps' \cup {"deleted"}
  BY CallsStep, MishapsGrow
<1>2. CASE Crash
  BY <1>2, ExitSolo DEF Crash
<1>3. ASSUME NEW c \in Calls, Step(c) PROVE SoloInv'
  BY <1>1, <1>3, ExitSolo, StepSolo
<1>4. ASSUME NEW c \in Calls,
             Scan(c) \/ BeginCredentials(c) \/ BeginSignedIn(c) \/ BeginProCall(c) \/ AfterStart(c)
      PROVE  SoloInv'
  BY <1>1, <1>4, BeginSolo
<1>5. CASE UNCHANGED desktopVars
  BY <1>5 DEF desktopVars, SoloInv, OneCall, Active, Now
<1> QED BY <1>2, <1>3, <1>4, <1>5 DEF DesktopNext

LEMMA SoloStart == DesktopInit => SoloInv
<1> SUFFICES ASSUME DesktopInit PROVE SoloInv
  OBVIOUS
<1>1. /\ \A c \in Calls : ~Active(c)
      /\ \A u \in ProUsers : cache[u].id \in {0, u}
  BY DEF DesktopInit, Active, Idle, NotCached
<1>2. Now \in Sessions /\ ~Now.loggedIn /\ ~Now.pro
  BY AccountStart, NowIs DEF AccountInv, DesktopInit, Now
<1>3. Right(server, mishaps, Now, Unsure(Idle), Anew(Idle))
  BY <1>2, IdleIsCurrent DEF Right, Salted, ProIs
<1>4. Good(Idle, Now, server, mishaps)
  BY <1>2, <1>3, IdleIsCurrent, GoodNow
<1> QED BY <1>1, <1>4 DEF SoloInv, OneCall

LEMMA AccountHolds == DesktopSpec => [](AccountInv /\ ScanInv /\ SoloInv)
<1>1. DesktopInit => AccountInv /\ ScanInv /\ SoloInv
  BY AccountStart, ScanStart, SoloStart
<1>2. AccountInv /\ ScanInv /\ SoloInv /\ [DesktopNext]_desktopVars
        => (AccountInv /\ ScanInv /\ SoloInv)'
  BY AccountStep, ScanStep, SoloStep
<1> QED BY <1>1, <1>2, PTL DEF DesktopSpec

\* What holds whenever no call runs and none has overlapped another.
LEMMA QuietSession ==
  ASSUME AccountInv, SoloInv, Quiet, "overlap" \notin mishaps
  PROVE  /\ SessionOK /\ CacheOK /\ Right(server, mishaps, settings, FALSE, FALSE)
         /\ \A u \in ProUsers : cache[u].id \in {0, u}
<1>1. Right(server, mishaps, Now, FALSE, FALSE)
  BY SettledIsRight DEF Quiet, Settled
<1>2. /\ Now.loggedIn = settings.loggedIn /\ Now.email = settings.email
      /\ Now.salt = settings.salt /\ Now.pro = settings.pro /\ Now.userID = settings.userID
  BY DEF Now
<1>3. Right(server, mishaps, settings, FALSE, FALSE)
  BY <1>1, <1>2 DEF Right, Salted, ProIs
<1> QED BY <1>3 DEF AccountInv, SoloInv

-----------------------------------------------------------------------------

\* At any time the session's token is its user's, whatever calls overlap, fail or are cut short
\* by a crash, the servers hold only accounts of users that exist, at most one scan runs, and
\* details cached or about to be cached say pro only of users whom the server knows as pro.
THEOREM AccountIsSound == DesktopSpec => []AccountInv
  BY AccountHolds, PTL

\* However many scans and restarts there are, and whatever signs in or out between them, an
\* announcement is shown a second time only if the process died over a call.
THEOREM ShownAtMostOnce == DesktopSpec => []AnnouncedOnce
<1>1. ScanInv => AnnouncedOnce
  BY DEF ScanInv, AnnouncedOnce
<1> QED BY AccountHolds, <1>1, PTL

\* As long as calls follow one another, the salt kept beside the address proves the password at
\* the auth server: after every chain of signing up, signing in, recovering and deleting.
THEOREM CachedSaltIsTheServers == DesktopSpec => []SaltProves
<1>1. AccountInv /\ SoloInv => SaltProves
  BY QuietSession, ZeroIs DEF SaltProves, Right, Salted, Proves
<1> QED BY AccountHolds, <1>1, PTL

\* As long as calls follow one another, what is cached under the ID of a user is that user's:
\* also of the user of a device too many, of whom the session does not hear.
THEOREM CachedUnderItsOwn == DesktopSpec => []CacheIsOwn
<1>1. SoloInv => CacheIsOwn
  BY DEF SoloInv, CacheIsOwn
<1> QED BY AccountHolds, <1>1, PTL

\* Pro in the settings, or in the cached details of the session's user, is pro on the server,
\* though linking a device says pro before it has asked.
THEOREM ShownProIsPro == DesktopSpec => []NeverProForFree
<1>1. ASSUME AccountInv, SoloInv PROVE NeverProForFree
  <2> SUFFICES ASSUME Quiet, mishaps \subseteq {"refetch", "deleted"}, settings.userID # 0,
                      settings.pro \/ cache[settings.userID].pro
               PROVE  server.pro[settings.userID]
    BY DEF NeverProForFree
  <2>1. /\ SessionOK /\ CacheOK /\ Right(server, mishaps, settings, FALSE, FALSE)
        /\ \A u \in ProUsers : cache[u].id \in {0, u}
    BY <1>1, QuietSession
  <2>2. CASE settings.pro
    BY <2>1, <2>2 DEF Right, ProIs
  <2>3. CASE cache[settings.userID].pro
    <3>1. settings.userID \in ProUsers
      BY <2>1 DEF SessionOK, ProUsers
    <3> QED BY <2>1, <2>3, <3>1 DEF CacheOK, Known
  <2> QED BY <2>2, <2>3
<1> QED BY AccountHolds, <1>1, PTL
=============================================================================
