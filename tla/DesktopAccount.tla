--------------------------- MODULE DesktopAccount ---------------------------
(***************************************************************************)
(* The account of the desktop app: the exported calls of lib.go and        *)
(* auth.go, the users cached by app/pro.go, the start of the app that      *)
(* fetches or creates its user, and the scanner that asks whether the user *)
(* is pro and shows each announcement once.  Every exported call runs on a *)
(* thread of the UI's, the rest in goroutines; a call sends requests and   *)
(* each answer leaves settings to be saved one at a time, between which    *)
(* other calls run and the process may die.  The settings survive (module  *)
(* Settings models the saving of one); calls and cached users do not.      *)
(*                                                                         *)
(* Unlike on a phone (module Account), signing in does not change the      *)
(* session's user: its details are only cached under its own ID.  A user   *)
(* of the pro server is its number, which is also its token; 0 is none.    *)
(***************************************************************************)
EXTENDS Naturals, Sequences, FiniteSets

CONSTANTS Emails,       \* addresses of accounts
          NoEmail,      \* the empty string
          Campaigns,    \* announcements
          Calls,        \* slots for threads and goroutines
          MaxUsers,     \* bound: users the pro server creates
          MaxSalts,     \* bound: salts ever generated
          MaxCalls,     \* bound: calls and scans, plus mishaps before the last
          MaxBoots      \* bound: starts of the process

ASSUME DesktopAccountAssumption ==
    /\ NoEmail \notin Emails
    /\ {MaxUsers, MaxSalts} \subseteq Nat \ {0} /\ {MaxCalls, MaxBoots} \subseteq Nat

VARIABLES settings,  \* persistent
          cache,     \* userCache: user -> its cached details
          server,    \* accounts of the auth server and users of the pro server
          up,        \* the process runs
          call,      \* slot -> the call in it
          shown,     \* history: campaign -> how often it was shown
          used,      \* bound counters: calls and boots
          mishaps    \* history: what has come between a call and its effect

desktopVars == <<settings, cache, server, up, call, shown, used, mishaps>>

ProUsers == 1..MaxUsers
NoAccount == [user |-> 0, salt |-> 0]
NotCached == [id |-> 0, pro |-> FALSE]

Idle == [op |-> "none", at |-> "idle", email |-> NoEmail, key |-> 0, uid |-> 0,
         salt |-> 0, data |-> NotCached, todo |-> << >>, next |-> "idle", wrote |-> FALSE]

Active(c) == call[c].at # "idle"
Quiet == up /\ \A c \in Calls : ~Active(c)

\* UserData: the session's user when it is cached.
UserCached == settings.userID # 0 /\ cache[settings.userID] # NotCached

Put(tx) == [name \in DOMAIN settings |-> IF name \in DOMAIN tx THEN tx[name] ELSE settings[name]]

SetUserIDAndToken(u) == <<[userID |-> u, token |-> u]>>

ClearLocalUserData ==
    <<[salt |-> 0], [email |-> NoEmail], [pro |-> FALSE], [loggedIn |-> FALSE]>>

\* The address the pro server has for a user.
EmailsOf(u) == LET of == {e \in Emails : server.account[e].user = u}
               IN  IF of = {} THEN {NoEmail} ELSE of

-----------------------------------------------------------------------------
(* The steps of a call.                                                    *)

End(c) == call' = [call EXCEPT ![c] = Idle]

\* An answer arrives: settings are now to be saved, then the call is at `next`.
Answered(c, txs, next) ==
    call' = [call EXCEPT ![c].todo = txs, ![c].at = "write", ![c].next = next]

\* The server has done `srv` and its answer arrives, or is lost on the way.
Reply(c, srv, txs, next, what) ==
    /\ server' = srv
    /\ \/ Answered(c, txs, next) /\ mishaps' = mishaps \cup what
       \/ End(c) /\ mishaps' = mishaps \cup {"lost"}
    /\ UNCHANGED <<settings, cache, up, shown, used>>

\* A request is not delivered or is refused: the call returns the error.
Fail(c) ==
    /\ call[c].at \in {"salt", "ask", "create"} /\ call[c].op # "retry"
    /\ End(c)
    /\ mishaps' = IF call[c].wrote THEN mishaps \cup {"lost"} ELSE mishaps
    /\ UNCHANGED <<settings, cache, server, up, shown, used>>

\* One setting (or the pair) is saved.
Write(c) ==
    /\ call[c].at = "write"
    /\ settings' = Put(Head(call[c].todo))
    /\ LET rest == Tail(call[c].todo)
       IN  call' = [call EXCEPT ![c] =
             IF rest # << >> THEN [call[c] EXCEPT !.todo = rest, !.wrote = TRUE]
             ELSE IF call[c].next = "idle" THEN Idle
             ELSE [call[c] EXCEPT !.todo = rest, !.wrote = TRUE, !.at = call[c].next]]
    /\ UNCHANGED <<cache, server, up, shown, used, mishaps>>

\* mutant: cached under the session's user
SetUserData_Session(c) ==
    /\ call[c].at = "store"
    /\ cache' = [cache EXCEPT ![settings.userID] = call[c].data]
    /\ End(c)
    /\ UNCHANGED <<settings, server, up, shown, used, mishaps>>

SetUserData(c) ==
    /\ call[c].at = "store"
    /\ cache' = [cache EXCEPT ![call[c].key] = call[c].data]
    /\ End(c)
    /\ UNCHANGED <<settings, server, up, shown, used, mishaps>>

\* The user config of a request reads the user ID, and then the token.
UserConfig(c) ==
    /\ call[c].at = "ident"
    /\ call' = [call EXCEPT ![c].uid = settings.userID, ![c].at = "ask"]
    /\ UNCHANGED <<settings, cache, server, up, shown, used, mishaps>>

\* The pro server knows the user, and the token is the user's.
Identified(c) == call[c].uid # 0 /\ settings.token = call[c].uid

For(op, at, e) == [Idle EXCEPT !.op = op, !.at = at, !.email = e]

Begin(c, task) ==
    /\ up /\ ~Active(c) /\ used.calls + Cardinality(mishaps) < MaxCalls
    /\ call' = [call EXCEPT ![c] = task]
    /\ used' = [used EXCEPT !.calls = @ + 1]
    /\ mishaps' = IF \E d \in Calls : Active(d) THEN mishaps \cup {"overlap"} ELSE mishaps
    /\ UNCHANGED <<settings, cache, server, up, shown>>

Asks(c, op) == call[c].op = op /\ call[c].at = "ask"

-----------------------------------------------------------------------------
(* auth.go                                                                 *)

NewSalt == server.salts + 1
CanSalt == server.salts < MaxSalts
NewUser == server.users + 1
CanUser == server.users < MaxUsers

\* The secure remote password exchange ends well when the client's salt is the
\* one the server's verifier was made with.
Proves(e, salt) == e # NoEmail /\ server.account[e] # NoAccount /\ server.account[e].salt = salt

\* getUserSalt: the salt of the settings whatever the email is; 0: ask.
CachedSalt == settings.salt

GetSalt(c) ==
    /\ call[c].at = "salt" /\ call[c].email # NoEmail
    /\ server.account[call[c].email] # NoAccount
    /\ call' = [call EXCEPT ![c].salt = server.account[call[c].email].salt, ![c].at = "ask"]
    /\ UNCHANGED <<settings, cache, server, up, shown, used, mishaps>>

\* The account is that of the session's user; without one the server makes a
\* user, of whom the session does not hear.
SignUp(c) ==
    LET e == call[c].email
        u == IF Identified(c) THEN call[c].uid ELSE NewUser
    IN  /\ Asks(c, "signup") /\ server.account[e] = NoAccount /\ CanSalt
        /\ Identified(c) \/ CanUser
        /\ Reply(c, [server EXCEPT !.account[e] = [user |-> u, salt |-> NewSalt],
                                   !.salts = NewSalt,
                                   !.users = IF Identified(c) THEN @ ELSE NewUser],
                 <<[salt |-> NewSalt], [email |-> e], [loggedIn |-> TRUE]>>, "idle", {})

\* The details in the answer to a sign in, and those of a user with too many
\* devices: its level is missing there.
UserDetails(u) == [id |-> u, pro |-> server.pro[u]]
DeviceLimitFlow(u) == [id |-> u, pro |-> FALSE]

\* With a device too many the user is cached, and the call returns an error.
Login(c) ==
    LET e == call[c].email
        u == server.account[e].user
        free == u \notin server.full
    IN  /\ Asks(c, "login") /\ Proves(e, call[c].salt)
        /\ call' = [call EXCEPT ![c].key = u, ![c].next = "store",
              ![c].data = IF free THEN UserDetails(u) ELSE DeviceLimitFlow(u),
              ![c].at = IF free THEN "write" ELSE "store",
              ![c].todo = IF free THEN <<[salt |-> call[c].salt], [loggedIn |-> TRUE],
                                         [email |-> e]>> ELSE << >>]
        /\ server' = IF free THEN [server EXCEPT !.linked = @ \cup {u}] ELSE server
        /\ UNCHANGED <<settings, cache, up, shown, used, mishaps>>

SignOut(c) ==
    /\ Asks(c, "logout") /\ Identified(c)
    /\ Reply(c, [server EXCEPT !.linked = @ \ {call[c].uid}], ClearLocalUserData, "create", {})

\* mutant: the salt of the settings is kept
CompleteRecoveryByEmail_OldSalt(c) ==
    LET e == call[c].email
    IN  /\ Asks(c, "recover") /\ server.account[e] # NoAccount /\ CanSalt
        /\ Reply(c, [server EXCEPT !.account[e].salt = NewSalt, !.salts = NewSalt],
                 <<[salt |-> CachedSalt]>>, "idle", {})

CompleteRecoveryByEmail(c) ==
    LET e == call[c].email
    IN  /\ Asks(c, "recover") /\ server.account[e] # NoAccount /\ CanSalt
        /\ Reply(c, [server EXCEPT !.account[e].salt = NewSalt, !.salts = NewSalt],
                 <<[salt |-> NewSalt]>>, "idle", {})

DeleteAccount(c) ==
    LET e == call[c].email
    IN  /\ Asks(c, "delete") /\ Proves(e, call[c].salt)
        /\ Reply(c, [server EXCEPT !.account[e] = NoAccount],
                 ClearLocalUserData \o SetUserIDAndToken(0), "create", {"deleted"})

\* After signing out and deletion a user is created, and its answer dropped:
\* the session keeps the user it has, or has none until the next start.
UserCreate(c) ==
    /\ call[c].at = "create" /\ CanUser
    /\ server' = [server EXCEPT !.users = NewUser]
    /\ End(c)
    /\ UNCHANGED <<settings, cache, up, shown, used, mishaps>>

-----------------------------------------------------------------------------
(* app/pro.go and the calls of lib.go.                                     *)

\* RefreshUserData and IsProUser look into the cache first.
CheckCache(c) ==
    /\ call[c].at = "check"
    /\ IF UserCached
       THEN IF call[c].op = "scan" THEN call' = [call EXCEPT ![c].at = "announce"] ELSE End(c)
       ELSE call' = [call EXCEPT ![c].at = IF call[c].op = "scan" THEN "ident" ELSE "key"]
    /\ UNCHANGED <<settings, cache, server, up, shown, used, mishaps>>

\* The ID the refreshed details will be stored under.
ReadKey(c) ==
    /\ call[c].at = "key"
    /\ IF settings.userID = 0 THEN End(c)
       ELSE call' = [call EXCEPT ![c].key = settings.userID, ![c].at = "ident"]
    /\ UNCHANGED <<settings, cache, server, up, shown, used, mishaps>>

\* The details of the session's user are stored, its email even if empty: who
\* signed in to another user's account loses the one shown.
FetchUserData(c) == \E e \in EmailsOf(call[c].uid) :
    LET u == call[c].uid
    IN  /\ call[c].op \in {"scan", "refresh"} /\ call[c].at = "ask" /\ Identified(c)
        /\ call' = [call EXCEPT ![c].at = "write", ![c].data = UserDetails(u),
              ![c].next = IF call[c].op = "scan" THEN "announce" ELSE "store",
              ![c].todo = SetUserIDAndToken(u) \o <<[email |-> e], [pro |-> server.pro[u]]>>]
        /\ mishaps' = IF settings.loggedIn /\ e # settings.email
                      THEN mishaps \cup {"refetch"} ELSE mishaps
        /\ UNCHANGED <<settings, cache, server, up, shown, used>>

\* This device becomes one of the user the mailed code belongs to: pro first,
\* then its identity; the details are fetched in a goroutine.
UserLinkValidate(c) == \E u \in 1..server.users \ server.full :
    /\ Asks(c, "validate")
    /\ Reply(c, [server EXCEPT !.linked = @ \cup {u}],
             <<[pro |-> TRUE]>> \o SetUserIDAndToken(u), "update", {})

StartUpdate(c) ==
    /\ call[c].at = "update"
    /\ call' = [call EXCEPT ![c].op = "update", ![c].at = "ident"]
    /\ UNCHANGED <<settings, cache, server, up, shown, used, mishaps>>

\* mutant: who has linked the device stays pro
UpdateUserData_Trusting(c) ==
    LET u == call[c].uid
    IN  /\ Asks(c, "update") /\ Identified(c)
        /\ Answered(c, SetUserIDAndToken(u), "idle")
        /\ UNCHANGED <<settings, cache, server, up, shown, used, mishaps>>

\* Pro is a pro user on this device: one of the user's, or on its first visit.
UpdateUserData(c) == \E e \in EmailsOf(call[c].uid) :
    LET u == call[c].uid
        pro == server.pro[u] /\ (settings.firstVisit \/ u \in server.linked)
    IN  /\ Asks(c, "update") /\ Identified(c)
        /\ Answered(c, <<[pro |-> pro]>> \o SetUserIDAndToken(u)
                         \o (IF e = NoEmail THEN << >> ELSE <<[email |-> e]>>), "idle")
        /\ UNCHANGED <<settings, cache, server, up, shown, used, mishaps>>

\* A reseller's code: the user the request named is pro from now on, and the
\* cached details go on saying otherwise.
RedeemResellerCode(c) ==
    /\ Asks(c, "redeem") /\ Identified(c)
    /\ Reply(c, [server EXCEPT !.pro[call[c].uid] = TRUE], <<[pro |-> TRUE]>>, "idle", {})

-----------------------------------------------------------------------------
(* The scanner of announcements, one goroutine.                            *)

\* One scan: first the user must be known to be pro or not.
Scan(c) ==
    /\ \A d \in Calls : call[d].op # "scan"
    /\ Begin(c, For("scan", "check", NoEmail))

\* The announcement of the day in the file fetched: for the language, for pro
\* or free users, not expired.
GetAnnouncement == Campaigns

\* mutant: only the latest campaign is remembered
MakeAnnouncements_Latest(c) == \E k \in GetAnnouncement :
    /\ call[c].at = "announce"
    /\ IF k \in settings.past THEN End(c) /\ UNCHANGED shown
       ELSE \/ End(c) /\ UNCHANGED shown
            \/ shown' = [shown EXCEPT ![k] = @ + 1] /\ Answered(c, <<[past |-> {k}]>>, "idle")
    /\ UNCHANGED <<settings, cache, server, up, used, mishaps>>

\* The campaign of the day is shown unless it is among the past ones, to which
\* it is added when the system has shown it.
MakeAnnouncements(c) == \E k \in GetAnnouncement :
    /\ call[c].at = "announce"
    /\ IF k \in settings.past THEN End(c) /\ UNCHANGED shown
       ELSE \/ End(c) /\ UNCHANGED shown
            \/ /\ shown' = [shown EXCEPT ![k] = @ + 1]
               /\ Answered(c, <<[past |-> settings.past \cup {k}]>>, "idle")
    /\ UNCHANGED <<settings, cache, server, up, used, mishaps>>

-----------------------------------------------------------------------------
(* The calls the screens offer.                                            *)

\* Recovery is offered to whoever is not logged in, or for the address shown.
BeginCredentials(c) == \E e \in Emails :
    \/ ~settings.loggedIn /\ Begin(c, For("signup", "ident", e))
    \/ ~settings.loggedIn /\ Begin(c, For("login", "salt", e))
    \/ /\ settings.loggedIn => e = settings.email
       /\ Begin(c, For("recover", "ask", e))

BeginSignedIn(c) ==
    /\ settings.loggedIn
    /\ \/ Begin(c, For("logout", "ident", settings.email))
       \/ Begin(c, [For("delete", IF CachedSalt = 0 THEN "salt" ELSE "ask", settings.email)
                      EXCEPT !.salt = CachedSalt])

BeginProCall(c) ==
    \/ ~settings.loggedIn /\ Begin(c, For("validate", "ask", NoEmail))
    \/ Begin(c, For("redeem", "ident", NoEmail))
    \/ Begin(c, For("refresh", "check", NoEmail))

-----------------------------------------------------------------------------
(* The life of the process.                                                *)

\* The app starts; after the proxies have, it fetches or creates its user.
AfterStart(c) ==
    /\ ~up /\ used.boots < MaxBoots
    /\ up' = TRUE
    /\ call' = [call EXCEPT ![c] = For("init", "init", NoEmail)]
    /\ used' = [used EXCEPT !.boots = @ + 1]
    /\ mishaps' = mishaps \ {"deleted"}
    /\ UNCHANGED <<settings, cache, server, shown>>

FetchOrCreateUser(c) ==
    /\ call[c].at = "init"
    /\ IF settings.userID = 0
       THEN call' = [call EXCEPT ![c].op = "retry", ![c].at = "write",
                        ![c].todo = <<[firstVisit |-> TRUE]>>, ![c].next = "ask"]
       ELSE call' = [call EXCEPT ![c].op = "refresh", ![c].at = "check"]
    /\ UNCHANGED <<settings, cache, server, up, shown, used, mishaps>>

\* The process ends: its calls and cached users are gone.
Exit ==
    /\ up' = FALSE
    /\ call' = [c \in Calls |-> Idle] /\ cache' = [u \in ProUsers |-> NotCached]
    /\ UNCHANGED <<settings, server, shown, used>>

Crash ==
    /\ up /\ Exit
    /\ mishaps' = IF Quiet THEN mishaps ELSE mishaps \cup {"crash"}

\* A failed attempt is repeated until, after five minutes, the process ends
\* (log.Fatal); an attempt may have made a user all the same.
RetryCreateUser(c) ==
    /\ Asks(c, "retry")
    /\ \/ /\ CanUser /\ server' = [server EXCEPT !.users = NewUser]
          /\ Answered(c, SetUserIDAndToken(NewUser), "idle") \/ UNCHANGED call
          /\ UNCHANGED <<settings, cache, up, shown, used, mishaps>>
       \/ /\ Exit
          /\ mishaps' = IF \E d \in Calls \ {c} : Active(d) THEN mishaps \cup {"crash"}
                        ELSE mishaps

-----------------------------------------------------------------------------

\* An account whose user is pro exists already, from another device.
DesktopInit ==
    /\ settings = [userID |-> 0, token |-> 0, email |-> NoEmail, salt |-> 0, loggedIn |-> FALSE,
                   pro |-> FALSE, firstVisit |-> FALSE, past |-> {}]
    /\ cache = [u \in ProUsers |-> NotCached]
    /\ \E e \in Emails, full \in SUBSET {1} :
         server = [account |-> [f \in Emails |-> IF f = e THEN [user |-> 1, salt |-> 1]
                                                ELSE NoAccount],
                   users |-> 1, salts |-> 1, pro |-> [u \in ProUsers |-> u = 1],
                   linked |-> {}, full |-> full]
    /\ up = FALSE
    /\ call = [c \in Calls |-> Idle]
    /\ shown = [k \in Campaigns |-> 0]
    /\ used = [calls |-> 0, boots |-> 0]
    /\ mishaps = {}

Step(c) ==
    \/ Write(c) \/ SetUserData(c) \/ UserConfig(c) \/ GetSalt(c) \/ Fail(c)
    \/ SignUp(c) \/ Login(c) \/ SignOut(c) \/ CompleteRecoveryByEmail(c)
    \/ DeleteAccount(c) \/ UserCreate(c)
    \/ CheckCache(c) \/ ReadKey(c) \/ FetchUserData(c)
    \/ UserLinkValidate(c) \/ StartUpdate(c) \/ UpdateUserData(c) \/ RedeemResellerCode(c)
    \/ MakeAnnouncements(c) \/ FetchOrCreateUser(c) \/ RetryCreateUser(c)

DesktopNext ==
    \/ Crash
    \/ \E c \in Calls :
          \/ AfterStart(c) \/ Step(c) \/ Scan(c)
          \/ BeginCredentials(c) \/ BeginSignedIn(c) \/ BeginProCall(c)

DesktopSpec == DesktopInit /\ [][DesktopNext]_desktopVars

-----------------------------------------------------------------------------
(* Properties.                                                             *)

\* What may come between a call and its effect (`mishaps`):
\*   crash    the process died while a call ran
\*   lost     a request failed, or its answer, after a part of its call was done
\*   overlap  a call began while another ran
\*   refetch  details of the session's user were stored over those of the one signed in
\*   deleted  the account was deleted since the last start

\* The cached salt proves the password of the address shown: who is logged in
\* can delete the account.
SaltProves ==
    Quiet /\ mishaps \subseteq {"deleted"} /\ settings.loggedIn /\ settings.salt # 0
        => Proves(settings.email, settings.salt)

\* The details cached under a user's ID are that user's.
CacheIsOwn ==
    "overlap" \notin mishaps => \A u \in ProUsers : cache[u].id \in {0, u}

\* Nobody is shown as pro whose user the server does not know as pro, neither
\* by the settings nor by the cached details flashlight and the UI look at.
NeverProForFree ==
    Quiet /\ mishaps \subseteq {"refetch", "deleted"} /\ settings.userID # 0
        /\ (settings.pro \/ cache[settings.userID].pro) => server.pro[settings.userID]

\* Each announcement is shown only once, unless the process dies after it was
\* shown and before it is recorded.
AnnouncedOnce == "crash" \notin mishaps => \A k \in Campaigns : shown[k] <= 1
=============================================================================
