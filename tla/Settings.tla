------------------------------ MODULE Settings -------------------------------
(***************************************************************************)
(* desktop/app/settings.go: the settings of the desktop app.  A setter     *)
(* changes the map under the lock and then, without it, rewrites           *)
(* settings.yaml and tells the listeners and the UI.  Setters run on the   *)
(* goroutines of many parts of the app; one of them, read, serves the      *)
(* messages of the UI.  GetInt64Eventually waits for the user ID.  The     *)
(* process may crash at any point; LoadSettings starts the next one from   *)
(* the file.                                                               *)
(*                                                                         *)
(* The map is reduced to the user ID, its token and one more persistent    *)
(* setting; value 0 is the default and the shortest when written.          *)
(***************************************************************************)
EXTENDS Integers, FiniteSets

CONSTANTS Setters,     \* goroutines calling a setter
          UIReader,    \* those of them that serve the messages of the UI (read)
          Users,       \* identities SetUserIDAndToken is called with
          Values,      \* values of the other setting
          MaxEntries,  \* bound: settings in a message of the UI
          MaxSets,     \* bound: setter calls per process
          MaxCrashes   \* bound: restarts

ASSUME SettingsAssumption ==
  /\ UIReader \subseteq Setters /\ IsFiniteSet(Users \cup Values)
  /\ Users \subseteq Nat \ {0} /\ Values \subseteq Nat \ {0}
  /\ {MaxEntries, MaxSets, MaxCrashes} \subseteq Nat

None == -1
Names == {"userID", "userToken", "other"}
Map == [Names -> {0} \cup Users \cup Values]
Default == [n \in Names |-> 0]

\* What setVals is called with: by the setters of a single name, also on behalf of the
\* UI, and by SetUserIDAndToken, which deleteAccount calls with no user.
Single == {[n \in {"other"} |-> v] : v \in Values}
Identity == {[n \in {"userID", "userToken"} |-> u] : u \in {0} \cup Users}
Update(t) == Single \cup (IF t \in UIReader THEN {} ELSE Identity)

\* The map s with the values of u.
With(u, s) == [n \in Names |-> IF n \in DOMAIN u THEN u[n] ELSE s[n]]

\* A map is the longer, when written, the fewer defaults it has.
Size(s) == Cardinality({n \in Names : s[n] # 0})

\* settings.yaml: nothing (truncated), a complete map, or garbage, that is a map
\* followed by the tail of a longer one.  Whether the parser takes the tail for an
\* error or for keys nobody knows depends on where it begins.
Empty == [kind |-> "empty", vals |-> Default, size |-> 0]
Yaml(s) == [kind |-> "yaml", vals |-> s, size |-> Size(s)]
Garbage(s, k) == [kind |-> "garbage", vals |-> s, size |-> k]

VARIABLES
  m,         \* Settings.m
  file,      \* settings.yaml
  pc,        \* setter: "idle", "create", "snapshot", "write", "notify", "uiMap", "send";
             \* read: also "read", "final", "finalSend"
  left,      \* settings of the message that read has not come to
  todo,      \* names the setter has not notified yet
  setting,   \* the setter's argument
  snap,      \* the map the setter has copied for the file or the UI
  listener,  \* the value each name's change notifier has received last
  service,   \* StartService: "none", "registered" with the channel, "started": wsOut is set
  window,    \* the UI's window: "none", "greeting", "greeted"
  hello,     \* the map it is being greeted with
  ui,        \* the map it has received last
  waiter,    \* GetInt64Eventually(SNUserID): "none", "registered", "blocked", "returned"
  nval,      \* what its notifier has received, or what it has returned
  overlap,   \* history: one of setter, StartService and greeting has begun before another
             \* was done
  sets, crashes             \* bound counters

vars == <<m, file, pc, left, todo, setting, snap, listener, service, window, hello, ui,
          waiter, nval, overlap, sets, crashes>>
channel == <<service, window, hello>>
waiting == <<waiter, nval>>
bounds == <<sets, crashes>>

\* What yaml.Unmarshal can make of what is on disk: an error leaves the defaults.
Loads(f) == {f.vals} \cup (IF f.kind = "garbage" THEN {Default} ELSE {})

Alone(t) ==
  /\ \A u \in Setters \ {t} : pc[u] = "idle"
  /\ service # "registered" /\ window # "greeting"

AtRest == \A t \in Setters : pc[t] = "idle" /\ Alone(t)

\* Reading a number (getInt64, getVal): of a map without the name it is 0.
GetInt64(n) == m[n]

Fresh ==
  /\ pc' = [t \in Setters |-> "idle"]
  /\ left' = [t \in Setters |-> 0]
  /\ todo' = [t \in Setters |-> {}]
  /\ snap' = [t \in Setters |-> Default]
  /\ setting' = [t \in Setters |-> Default]
  /\ service' = "none" /\ window' = "none" /\ hello' = Default /\ ui' = Default
  /\ waiter' = "none" /\ nval' = None

Init ==
  /\ m = Default
  /\ file = Empty
  /\ pc = [t \in Setters |-> "idle"]
  /\ left = [t \in Setters |-> 0]
  /\ todo = [t \in Setters |-> {}]
  /\ setting = [t \in Setters |-> Default]
  /\ snap = [t \in Setters |-> Default]
  /\ listener = Default
  /\ service = "none" /\ window = "none" /\ hello = Default /\ ui = Default
  /\ waiter = "none" /\ nval = None
  /\ overlap = FALSE
  /\ sets = 0
  /\ crashes = 0

-----------------------------------------------------------------------------
(* Mutated forms of the actions below: plausible slips in this code that   *)
(* the properties must notice.  No specification uses them.                *)

\* SetUserIDAndToken is two calls of setVal: the token stays behind.
SetVals_OneByOne(t) ==
  /\ sets < MaxSets /\ t \notin UIReader /\ pc[t] = "idle"
  /\ \E u \in Update(t), n \in Names :
       /\ n \in DOMAIN u
       /\ m' = [m EXCEPT ![n] = u[n]]
       /\ setting' = [setting EXCEPT ![t] = With(u, Default)]
       /\ todo' = [todo EXCEPT ![t] = {n}]
  /\ pc' = [pc EXCEPT ![t] = "create"]
  /\ overlap' = (overlap \/ ~Alone(t))
  /\ sets' = sets + 1
  /\ UNCHANGED <<file, left, snap, listener, channel, ui, waiting, crashes>>

\* Nothing is written (an early return on a transient error).
SaveWrite_Skipped(t) ==
  /\ pc[t] = "write"
  /\ pc' = [pc EXCEPT ![t] = "notify"]
  /\ UNCHANGED <<m, file, left, todo, setting, snap, listener, channel, ui, waiting, overlap,
                 sets, crashes>>

\* A call of onChange is lost after the first name: setVals returns.
Returned_AfterOne(t) == IF t \in UIReader THEN "read" ELSE "idle"

-----------------------------------------------------------------------------
(* setVals *)

\* All values are put into the map in one critical section.  read comes here for each
\* setting of the message whose name and type are known.
SetVals(t) ==
  /\ sets < MaxSets
  /\ IF t \in UIReader
     THEN pc[t] = "read" /\ left[t] > 0 /\ left' = [left EXCEPT ![t] = @ - 1]
     ELSE pc[t] = "idle" /\ UNCHANGED left
  /\ \E u \in Update(t) :
       /\ m' = With(u, m)
       /\ setting' = [setting EXCEPT ![t] = With(u, Default)]
       /\ todo' = [todo EXCEPT ![t] = DOMAIN u]
  /\ pc' = [pc EXCEPT ![t] = "create"]
  /\ overlap' = (overlap \/ ~Alone(t))
  /\ sets' = sets + 1
  /\ UNCHANGED <<file, snap, listener, channel, ui, waiting, crashes>>

\* saveDefault: os.Create truncates the file.
SaveCreate(t) ==
  /\ pc[t] = "create"
  /\ file' = Empty
  /\ pc' = [pc EXCEPT ![t] = "snapshot"]
  /\ UNCHANGED <<m, left, todo, setting, snap, listener, channel, ui, waiting, overlap,
                 sets, crashes>>

\* mapToSave copies the map under the read lock.
SaveSnapshot(t) ==
  /\ pc[t] = "snapshot"
  /\ snap' = [snap EXCEPT ![t] = m]
  /\ pc' = [pc EXCEPT ![t] = "write"]
  /\ UNCHANGED <<m, file, left, todo, setting, listener, channel, ui, waiting, overlap,
                 sets, crashes>>

\* The copy is written from the start of the file; what another setter has
\* written beyond its end stays.
SaveWrite(t) ==
  /\ pc[t] = "write"
  /\ file' = IF file.size > Size(snap[t]) THEN Garbage(snap[t], file.size) ELSE Yaml(snap[t])
  /\ pc' = [pc EXCEPT ![t] = "notify"]
  /\ UNCHANGED <<m, left, todo, setting, snap, listener, channel, ui, waiting, overlap,
                 sets, crashes>>

\* Where the setter is when onChange has returned for one of its names.
Returned(t) ==
  IF todo'[t] # {} THEN "notify" ELSE IF t \in UIReader THEN "read" ELSE "idle"

\* onChange of one of the names, in any order: its notifiers run, the one of
\* GetInt64Eventually too, and if wsOut is set the UI comes next.
Notify(t) ==
  /\ pc[t] = "notify"
  /\ \E n \in todo[t] :
       /\ listener' = [listener EXCEPT ![n] = setting[t][n]]
       /\ todo' = [todo EXCEPT ![t] = @ \ {n}]
       /\ nval' = IF n = "userID" /\ waiter \in {"registered", "blocked"}
                  THEN setting[t][n] ELSE nval
  /\ pc' = [pc EXCEPT ![t] = IF service = "started" THEN "uiMap" ELSE Returned(t)]
  /\ UNCHANGED <<m, file, left, setting, snap, channel, ui, waiter, overlap, sets, crashes>>

\* uiMap copies the map for the UI ...
NotifyUIMap(t) ==
  /\ pc[t] = "uiMap"
  /\ pc' = [pc EXCEPT ![t] = "send"]
  /\ snap' = [snap EXCEPT ![t] = m]
  /\ UNCHANGED <<m, file, left, todo, setting, listener, channel, ui, waiting, overlap,
                 sets, crashes>>

\* ... and the copy is sent to the window, if there is one.
Send(t) == ui' = IF window = "none" THEN ui ELSE snap[t]

NotifySend(t) ==
  /\ pc[t] = "send"
  /\ Send(t)
  /\ UNCHANGED todo
  /\ pc' = [pc EXCEPT ![t] = Returned(t)]
  /\ UNCHANGED <<m, file, left, setting, snap, listener, channel, waiting, overlap, sets,
                 crashes>>

-----------------------------------------------------------------------------
(* The UI: StartService, the greeting of its window and read *)

\* A message arrives; of its settings, these many have a known name and a value of the
\* name's type.
ReadMessage(t) ==
  /\ t \in UIReader /\ pc[t] = "idle" /\ service = "started" /\ window # "none"
  /\ \E entries \in 0..MaxEntries : left' = [left EXCEPT ![t] = entries]
  /\ pc' = [pc EXCEPT ![t] = "read"]
  /\ overlap' = (overlap \/ ~Alone(t))
  /\ UNCHANGED <<m, file, todo, setting, snap, listener, channel, ui, waiting, sets, crashes>>

\* After the last of them the map is copied and sent once more.
ReadUIMap(t) ==
  /\ pc[t] = "read" /\ left[t] = 0
  /\ snap' = [snap EXCEPT ![t] = m]
  /\ pc' = [pc EXCEPT ![t] = "finalSend"]
  /\ UNCHANGED <<m, file, left, todo, setting, listener, channel, ui, waiting, overlap,
                 sets, crashes>>

ReadSend(t) ==
  /\ pc[t] = "finalSend"
  /\ Send(t)
  /\ pc' = [pc EXCEPT ![t] = "idle"]
  /\ UNCHANGED <<m, file, left, todo, setting, snap, listener, channel, waiting, overlap,
                 sets, crashes>>

\* StartService registers with the channel, which greets windows from now on ...
Register ==
  /\ service = "none"
  /\ service' = "registered"
  /\ overlap' = (overlap \/ ~AtRest)
  /\ UNCHANGED <<m, file, pc, left, todo, setting, snap, listener, window, hello, ui,
                 waiting, sets, crashes>>

\* ... and stores wsOut; from here on changes are sent.
Start ==
  /\ service = "registered"
  /\ service' = "started"
  /\ UNCHANGED <<m, file, pc, left, todo, setting, snap, listener, window, hello, ui,
                 waiting, overlap, sets, crashes>>

\* A window connects and helloFn copies the map for it ...
Hello ==
  /\ window = "none" /\ service # "none"
  /\ window' = "greeting"
  /\ hello' = m
  /\ overlap' = (overlap \/ ~AtRest)
  /\ UNCHANGED <<m, file, pc, left, todo, setting, snap, listener, service, ui, waiting,
                 sets, crashes>>

\* ... which reaches the window on a way of its own.
Greeted ==
  /\ window = "greeting"
  /\ window' = "greeted"
  /\ ui' = hello
  /\ UNCHANGED <<m, file, pc, left, todo, setting, snap, listener, service, hello, waiting,
                 overlap, sets, crashes>>

-----------------------------------------------------------------------------
(* GetInt64Eventually(SNUserID) *)

\* It registers its notifier first ...
WaitRegister ==
  /\ waiter = "none"
  /\ waiter' = "registered"
  /\ UNCHANGED <<m, file, pc, left, todo, setting, snap, listener, channel, ui, nval,
                 overlap, sets, crashes>>

\* ... then looks at the map and blocks if there is no user yet.
WaitRead ==
  /\ waiter = "registered"
  /\ IF GetInt64("userID") > 0
     THEN waiter' = "returned" /\ nval' = GetInt64("userID")
     ELSE waiter' = "blocked" /\ UNCHANGED nval
  /\ UNCHANGED <<m, file, pc, left, todo, setting, snap, listener, channel, ui, overlap,
                 sets, crashes>>

WaitReturn ==
  /\ waiter = "blocked" /\ nval # None
  /\ waiter' = "returned"
  /\ UNCHANGED <<m, file, pc, left, todo, setting, snap, listener, channel, ui, nval,
                 overlap, sets, crashes>>

-----------------------------------------------------------------------------
\* The process dies and the next one runs LoadSettingsFrom.
Restart ==
  /\ crashes < MaxCrashes
  /\ crashes' = crashes + 1
  /\ m' \in Loads(file)
  /\ listener' = m'
  /\ Fresh
  /\ UNCHANGED <<file, overlap, sets>>

Next ==
  \/ \E t \in Setters :
       \/ SetVals(t) \/ SaveCreate(t) \/ SaveSnapshot(t) \/ SaveWrite(t)
       \/ Notify(t) \/ NotifyUIMap(t) \/ NotifySend(t)
       \/ ReadMessage(t) \/ ReadUIMap(t) \/ ReadSend(t)
  \/ Register \/ Start \/ Hello \/ Greeted
  \/ WaitRegister \/ WaitRead \/ WaitReturn
  \/ Restart

Spec == Init /\ [][Next]_vars
-----------------------------------------------------------------------------
(* Properties *)

\* SetUserIDAndToken is atomic for everything that copies the whole map: memory,
\* the UI and the file, also after a crash in the middle of a save, hold an
\* identity and the token that goes with it, never parts of two.
IdentityNotTorn ==
  /\ m["userID"] = m["userToken"]
  /\ ui["userID"] = ui["userToken"]
  /\ \A s \in Loads(file) : s["userID"] = s["userToken"]

\* Once no setter runs, the file holds what memory holds: the setting that was made
\* last survives a restart.
SavedAtRest == AtRest => Loads(file) = {m}

\* As long as setters, StartService and greetings do not overlap, that is so, over any
\* number of crashes, and the listeners and a window that is open have heard of every
\* change in the order memory saw them.
SynchronizedUnlessOverlapped ==
  AtRest /\ ~overlap =>
    /\ Loads(file) = {m} /\ listener = m
    /\ window = "greeted" /\ service = "started" => ui = m

\* GetInt64Eventually misses no user, whenever the ID is set between its registration,
\* its look at the map and its wait: while it blocks with nothing to return, and no setter
\* has yet to call it, there is no user.
WaitMissesNoUser ==
  waiter = "blocked" /\ nval = None /\ (\A t \in Setters : pc[t] = "idle") => m["userID"] = 0
=============================================================================
