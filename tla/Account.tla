------------------------------ MODULE Account ------------------------------
(***************************************************************************)
(* The account of the mobile client: SessionModel's sign up, sign in, sign *)
(* out, deletion, recovery, change of email, device linking, purchases and *)
(* the user record it caches, over the auth client (SRP) and the pro       *)
(* client.  Every call runs in a goroutine of its own (the UI's method     *)
(* channel, `go`, the start of the process): it sends requests, and each   *)
(* answer leaves a list of database transactions, written one at a time,   *)
(* between which other calls run and the process may die.  The database    *)
(* survives; calls and the identity captured by the auth client do not.    *)
(*                                                                         *)
(* A user of the pro server is its number, its token the same number, 0    *)
(* for none.  Referral code, level, expiry and the list of devices are     *)
(* cached beside `pro` and decide nothing here.                            *)
(***************************************************************************)
EXTENDS Naturals, Sequences, FiniteSets

CONSTANTS Emails,       \* addresses of accounts
          NoEmail,      \* the empty string
          Calls,        \* slots for goroutines
          MaxUsers,     \* bound: users the pro server creates
          MaxSalts,     \* bound: salts ever generated
          MaxCalls,     \* bound: calls the user makes, plus mishaps before the last
          MaxBoots      \* bound: starts of the process

ASSUME AccountAssumption ==
    /\ NoEmail \notin Emails
    /\ {MaxUsers, MaxSalts} \subseteq Nat \ {0} /\ {MaxCalls, MaxBoots} \subseteq Nat

VARIABLES db,        \* the session's paths, persistent
          server,    \* accounts of the auth server and users of the pro server
          up,        \* the process runs
          captured,  \* the user ID in the auth client's user config
          call,      \* slot -> the goroutine in it
          used,      \* bound counters: calls and boots
          mishaps    \* history: what has come between a call and its effect

vars == <<db, server, up, captured, call, used, mishaps>>

Users == 1..MaxUsers
Account == [user: 0..MaxUsers, salt: 0..MaxSalts]
NoAccount == [user |-> 0, salt |-> 0]

Idle == [op |-> "none", at |-> "idle", email |-> NoEmail, to |-> NoEmail,
         uid |-> 0, salt |-> 0, todo |-> << >>, next |-> "idle", wrote |-> FALSE]

Active(c) == call[c].at # "idle"
Quiet == up /\ \A c \in Calls : ~Active(c)

-----------------------------------------------------------------------------
(* Transactions and the writes an answer leaves behind.                    *)

Put(tx) == [path \in DOMAIN db |-> IF path \in DOMAIN tx THEN tx[path] ELSE db[path]]

\* mutant: two transactions
SetUserIDAndToken_Apart(u) == <<[userID |-> u], [token |-> u]>>

SetUserIDAndToken(u) == <<[userID |-> u, token |-> u]>>

SetLoggedIn(b) == <<[loggedIn |-> b]>>

SaveUserSalt(s) == <<[salt |-> s]>>

SetProUser(b) == <<[pro |-> b]>>

SetEmail(e) == IF e = NoEmail THEN << >> ELSE <<[email |-> e]>>

\* mutant: the identity is not stored
CacheUserDetail_NoIdentity(u, e) == SetEmail(e) \o SetProUser(server.pro[u])

\* The user is pro by the server's level alone: whether this device is found
\* among the user's devices changes only what is logged.
CacheUserDetail(u, e) ==
    SetEmail(e) \o SetProUser(server.pro[u]) \o SetUserIDAndToken(u)

\* mutant: the user stays pro
ClearLocalUserData_KeepsPro == <<[salt |-> 0, email |-> NoEmail]>> \o SetLoggedIn(FALSE)

ClearLocalUserData ==
    <<[salt |-> 0, email |-> NoEmail]>> \o SetLoggedIn(FALSE) \o SetProUser(FALSE)

\* The device is not the user's yet: it gets its identity, to remove another.
DeviceLimitFlow(u) == SetUserIDAndToken(u)

\* The cached salt, whatever the email is; 0: ask the server.
CachedSalt == db.salt

EmailsOf(u) == {e \in Emails : server.account[e].user = u}

-----------------------------------------------------------------------------
(* The steps of a call.                                                    *)

Goto(c, at) == call' = [call EXCEPT ![c].at = at]
End(c) == call' = [call EXCEPT ![c] = Idle]

\* An answer arrives: its writes are now to be done, then the call is at `next`.
Answered(c, txs, next) ==
    call' = [call EXCEPT ![c].todo = txs, ![c].at = "write", ![c].next = next]

\* The server has done `srv` and its answer arrives, or is lost on the way.
Reply(c, srv, txs, next) ==
    /\ server' = srv
    /\ \/ Answered(c, txs, next) /\ UNCHANGED mishaps
       \/ server' # server /\ End(c) /\ mishaps' = mishaps \cup {"lost"}
    /\ UNCHANGED <<db, up, captured, used>>

\* A request is not delivered or is refused: the call returns the error (a
\* refresh hides it).  What the call had written stays.
Fail(c) ==
    /\ call[c].at \in {"salt", "ask", "create"} /\ call[c].op # "retry"
    /\ End(c)
    /\ mishaps' = IF call[c].wrote THEN mishaps \cup {"lost"} ELSE mishaps
    /\ UNCHANGED <<db, server, up, captured, used>>

\* One transaction.  After the last one the call ends, goes on to create a
\* user, or to refresh the user's details.
Write(c) ==
    /\ call[c].at = "write"
    /\ db' = Put(Head(call[c].todo))
    /\ LET rest == Tail(call[c].todo)
       IN  call' = [call EXCEPT ![c] =
             IF rest # << >> THEN [call[c] EXCEPT !.todo = rest, !.wrote = TRUE]
             ELSE IF call[c].next = "idle" THEN Idle
             ELSE [call[c] EXCEPT !.todo = rest, !.wrote = TRUE, !.at = call[c].next]]
    /\ UNCHANGED <<server, up, captured, used, mishaps>>

\* The pro client's user config reads the user ID, and then the token.  The
\* refresh that ends other calls begins here, too.
ReadUserID(c) ==
    /\ call[c].at \in {"ident", "refresh"}
    /\ call' = [call EXCEPT ![c].uid = db.userID, ![c].at = "ask",
                           ![c].op = IF call[c].at = "refresh" THEN "refresh" ELSE @]
    /\ UNCHANGED <<db, server, up, captured, used, mishaps>>

\* The pro server knows the user, and the token is the user's.
Identified(c) == call[c].uid # 0 /\ db.token = call[c].uid

\* A call of the UI starts in a free slot, as `new`.
Begin(c, new) ==
    /\ up /\ ~Active(c) /\ used.calls + Cardinality(mishaps) < MaxCalls
    /\ call' = [call EXCEPT ![c] = new]
    /\ used' = [used EXCEPT !.calls = @ + 1]
    /\ mishaps' = mishaps \cup (IF \E d \in Calls : Active(d) THEN {"overlap"} ELSE {})
                          \cup (IF new.todo # << >> THEN {"contact"} ELSE {})
    /\ UNCHANGED <<db, server, up, captured>>

Asks(c, op) == call[c].op = op /\ call[c].at = "ask"

-----------------------------------------------------------------------------
(* The auth client: sign up, sign in and the proof of the password.        *)

NewSalt == server.salts + 1
CanSalt == server.salts < MaxSalts
NewUser == server.users + 1
CanUser == server.users < MaxUsers

\* The secure remote password exchange ends well when the client's salt is the
\* one the server's verifier was made with.
Proves(e, salt) == server.account[e] # NoAccount /\ server.account[e].salt = salt

\* The user header of the sign up request, from the config captured at the
\* start of the process; without one the server makes a new user.
UserHeader == IF captured = 0 THEN NewUser ELSE captured

SrpSignUp(e) ==
    /\ server.account[e] = NoAccount /\ CanSalt
    /\ captured = 0 => CanUser
    /\ server' = [server EXCEPT !.account[e] = [user |-> UserHeader, salt |-> NewSalt],
                                !.salts = NewSalt, !.linked = @ \cup {UserHeader},
                                !.users = IF captured = 0 THEN NewUser ELSE @]

SignUp(c) ==
    LET e == call[c].email
    IN  /\ Asks(c, "signup") /\ SrpSignUp(e)
        /\ \/ /\ Answered(c, <<[salt |-> NewSalt, email |-> e]>> \o SetLoggedIn(TRUE), "idle")
              /\ mishaps' = IF UserHeader # db.userID THEN mishaps \cup {"header"} ELSE mishaps
           \/ End(c) /\ mishaps' = mishaps \cup {"lost"}
        /\ UNCHANGED <<db, up, captured, used>>

\* The salt of the email is asked for, by sign in always, by the others when
\* none is cached.
GetSalt(c) ==
    /\ up /\ call[c].at = "salt" /\ server.account[call[c].email] # NoAccount
    /\ call' = [call EXCEPT ![c].salt = server.account[call[c].email].salt, ![c].at = "ask"]
    /\ UNCHANGED <<db, server, up, captured, used, mishaps>>

Login(c) ==
    LET e == call[c].email
        u == server.account[e].user
        free == u \in server.linked \/ u \notin server.full
    IN  /\ Asks(c, "login") /\ Proves(e, call[c].salt)
        /\ IF free
           THEN Reply(c, [server EXCEPT !.linked = @ \cup {u}],
                      SetLoggedIn(TRUE) \o SaveUserSalt(call[c].salt) \o CacheUserDetail(u, e), "idle")
           ELSE /\ Answered(c, DeviceLimitFlow(u), "idle")
                /\ mishaps' = mishaps \cup {"limit"}
                /\ UNCHANGED <<db, server, up, captured, used>>

\* mutant: no new user is created
SignOut_KeepsUser(c) ==
    /\ Asks(c, "signout") /\ Identified(c)
    /\ Reply(c, [server EXCEPT !.linked = @ \ {call[c].uid}], ClearLocalUserData, "idle")

\* The server unlinks this device from the user.
SignOut(c) ==
    /\ Asks(c, "signout") /\ Identified(c)
    /\ Reply(c, [server EXCEPT !.linked = @ \ {call[c].uid}], ClearLocalUserData, "create")

DeleteAccount(c) ==
    LET e == call[c].email
    IN  /\ Asks(c, "delete") /\ Proves(e, call[c].salt)
        /\ Reply(c, [server EXCEPT !.account[e] = NoAccount,
                                   !.linked = @ \ {server.account[e].user}],
                 <<[email |-> NoEmail, userID |-> 0, pro |-> FALSE]>> \o ClearLocalUserData, "create")

\* After sign out and deletion, a user without an account is created.
UserCreate(c) ==
    /\ call[c].at = "create" /\ CanUser
    /\ Reply(c, [server EXCEPT !.users = NewUser], SetUserIDAndToken(NewUser), "idle")

\* A code is sent to the address.
StartRecoveryByEmail(c) ==
    /\ Asks(c, "startrecovery") /\ server.account[call[c].email] # NoAccount
    /\ server' = [server EXCEPT !.coded = @ \cup {call[c].email}]
    /\ End(c)
    /\ UNCHANGED <<db, up, captured, used, mishaps>>

\* The code entered is found right: it is not used up.
ValidateRecoveryByEmail(c) ==
    /\ Asks(c, "validaterecovery") /\ call[c].email \in server.coded
    /\ End(c)
    /\ UNCHANGED <<db, server, up, captured, used, mishaps>>

\* The server takes the new salt from who has the code sent to the address.
TakesSalt(e) ==
    [server EXCEPT !.account[e].salt = NewSalt, !.salts = NewSalt, !.coded = @ \ {e}]

\* mutant: the new salt is not stored
CompleteRecoveryByEmail_OldSalt(c) ==
    LET e == call[c].email
    IN  /\ Asks(c, "recover") /\ e \in server.coded /\ server.account[e] # NoAccount /\ CanSalt
        /\ Reply(c, TakesSalt(e), SaveUserSalt(CachedSalt), "refresh")

CompleteRecoveryByEmail(c) ==
    LET e == call[c].email
    IN  /\ Asks(c, "recover") /\ e \in server.coded /\ server.account[e] # NoAccount /\ CanSalt
        /\ Reply(c, TakesSalt(e), SaveUserSalt(NewSalt), "refresh")

StartChangeEmail(c) ==
    /\ Asks(c, "startchange") /\ Proves(call[c].email, call[c].salt)
    /\ server' = [server EXCEPT !.changing = call[c].email]
    /\ End(c)
    /\ UNCHANGED <<db, up, captured, used, mishaps>>

\* The account moves to the new address with a new salt.  The client stores
\* the address, and keeps the salt it has cached.
CompleteChangeEmail(c) ==
    LET e == call[c].email
        f == call[c].to
    IN  /\ Asks(c, "change") /\ server.changing = e /\ CanSalt
        /\ server.account[e] # NoAccount /\ server.account[f] = NoAccount
        /\ server' = [server EXCEPT !.changing = NoEmail, !.salts = NewSalt,
                        !.account[f] = [user |-> server.account[e].user, salt |-> NewSalt],
                        !.account[e] = NoAccount]
        /\ \/ Answered(c, SetEmail(f), "idle") /\ mishaps' = mishaps \cup {"email"}
           \/ End(c) /\ mishaps' = mishaps \cup {"email", "lost"}
        /\ UNCHANGED <<db, up, captured, used>>

-----------------------------------------------------------------------------
(* The pro client: devices, purchases and the user's details.              *)

\* Another device has approved the code, or the code mailed to the user was
\* entered: this device now is that user's.
Linked(c, u, txs, what) ==
    /\ u \in 1..server.users \ server.full
    /\ server' = [server EXCEPT !.linked = @ \cup {u}]
    /\ \/ Answered(c, SetUserIDAndToken(u) \o txs, "refresh") /\ mishaps' = mishaps \cup what
       \/ End(c) /\ mishaps' = mishaps \cup {"lost"}
    /\ UNCHANGED <<db, up, captured, used>>

LinkCodeRedeem(c) ==
    Asks(c, "redeem") /\ \E u \in Users : Linked(c, u, << >>, {})

\* The user is logged in from here on, with no email or salt stored.
ValidateDeviceRecoveryCode(c) ==
    Asks(c, "validate") /\ \E u \in Users : Linked(c, u, SetLoggedIn(TRUE), {"code"})

LinkCodeApprove(c) ==
    /\ Asks(c, "approve") /\ Identified(c)
    /\ Goto(c, "refresh")
    /\ UNCHANGED <<db, server, up, captured, used, mishaps>>

\* Another device is removed from the user's devices.
UserLinkRemove(c) ==
    /\ Asks(c, "remove") /\ Identified(c)
    /\ server' = [server EXCEPT !.full = @ \ {call[c].uid}]
    /\ Goto(c, "refresh")
    /\ UNCHANGED <<db, up, captured, used, mishaps>>

\* The purchase is credited to the user of the request's header.
PurchaseRequest(c) == [server EXCEPT !.pro[call[c].uid] = TRUE]

\* Reseller code, Apple, Google, Stripe, restored purchase: each ends by
\* marking the user of the session pro, before its details are fetched again.
Purchase(c) ==
    /\ Asks(c, "purchase") /\ Identified(c)
    /\ Reply(c, PurchaseRequest(c), SetProUser(TRUE), "idle")

\* The email of a user who is logged in is not overwritten.
UserDetail(c) ==
    LET u == call[c].uid
    IN  /\ Asks(c, "refresh") /\ Identified(c)
        /\ \E e \in IF db.loggedIn \/ EmailsOf(u) = {} THEN {NoEmail} ELSE EmailsOf(u) :
             Answered(c, CacheUserDetail(u, e), "idle")
        /\ UNCHANGED <<db, server, up, captured, used, mishaps>>

-----------------------------------------------------------------------------
(* The calls the screens offer.  Signing up and in and linking this device *)
(* are offered to a user who is not logged in; signing out, deletion and a *)
(* change of email to one who is, with the email shown.                    *)

\* A call for an address, which asks at once or for the address's salt first.
ForEmail(op, at, e) == [Idle EXCEPT !.op = op, !.at = at, !.email = e]

BeginCredentials(c) == \E e \in Emails :
    /\ ~db.loggedIn
    /\ Begin(c, ForEmail("signup", "ask", e)) \/ Begin(c, ForEmail("login", "salt", e))

BeginRecovery(c) == \E e \in Emails :
    /\ db.loggedIn => e = db.email
    /\ \E op \in {"startrecovery", "validaterecovery", "recover"} :
          Begin(c, ForEmail(op, "ask", e))

BeginSignOut(c) ==
    /\ db.loggedIn /\ db.email # NoEmail
    /\ Begin(c, [ForEmail("signout", "ask", db.email) EXCEPT !.uid = db.userID])

\* Deletion and the start of a change of email prove the password with the
\* cached salt, else with the server's.
BeginWithProof(c) ==
    /\ db.loggedIn /\ db.email # NoEmail
    /\ \E op \in {"delete", "startchange"} :
          Begin(c, [ForEmail(op, IF CachedSalt = 0 THEN "salt" ELSE "ask", db.email)
                      EXCEPT !.salt = CachedSalt])

BeginChangeEmail(c) == \E e \in Emails :
    /\ db.loggedIn /\ db.email # NoEmail
    /\ Begin(c, [ForEmail("change", "ask", db.email) EXCEPT !.to = e])

BeginLink(c) == \E op \in {"redeem", "validate"} :
    ~db.loggedIn /\ Begin(c, ForEmail(op, "ident", NoEmail))

BeginProCall(c) == \E op \in {"approve", "remove", "purchase", "refresh"} :
    Begin(c, ForEmail(op, "ident", NoEmail))

\* A reseller's code is redeemed with an email typed in, which is stored
\* first: it need not be that of the account.
BeginReseller(c) == \E e \in Emails :
    Begin(c, [ForEmail("purchase", "write", NoEmail) EXCEPT !.todo = SetEmail(e), !.next = "ident"])

\* So is an issue reported.
BeginReport(c) == \E e \in Emails :
    Begin(c, [ForEmail("report", "write", NoEmail) EXCEPT !.todo = SetEmail(e)])

-----------------------------------------------------------------------------
(* The life of the process.                                                *)

\* The process starts: the auth client captures the user ID and token of this
\* moment, and the session model is initialised in a goroutine.
NewSessionModel(c) ==
    /\ ~up /\ used.boots < MaxBoots
    /\ up' = TRUE /\ captured' = db.userID
    /\ call' = [call EXCEPT ![c] = [Idle EXCEPT !.op = "init", !.at = "init"]]
    /\ used' = [used EXCEPT !.boots = @ + 1]
    /\ UNCHANGED <<db, server, mishaps>>

\* Without a user one is created, retried with backoff; else its details are
\* refreshed.
InitSessionModel(c) ==
    /\ call[c].at = "init"
    /\ call' = [call EXCEPT ![c] = [Idle EXCEPT !.op = IF db.userID = 0 THEN "retry" ELSE "refresh",
                                               !.at = IF db.userID = 0 THEN "ask" ELSE "ident"]]
    /\ UNCHANGED <<db, server, up, captured, used, mishaps>>

\* The process ends: all its goroutines with it.
Exit ==
    /\ up' = FALSE /\ captured' = 0
    /\ call' = [c \in Calls |-> Idle]
    /\ UNCHANGED <<db, server, used>>

Crash ==
    /\ up /\ Exit
    /\ mishaps' = IF Quiet THEN mishaps ELSE mishaps \cup {"crash"}

\* mutant: a failed attempt is not repeated
RetryCreateUser_Once(c) ==
    /\ Asks(c, "retry")
    /\ \/ /\ CanUser /\ server' = [server EXCEPT !.users = NewUser]
          /\ Answered(c, SetUserIDAndToken(NewUser), "idle")
       \/ End(c) /\ UNCHANGED server
    /\ UNCHANGED <<db, up, captured, used, mishaps>>

\* A failed attempt is repeated, until the maximal time is over and the
\* process ends (log.Fatal); an attempt may have made a user all the same.
RetryCreateUser(c) ==
    /\ Asks(c, "retry")
    /\ \/ /\ CanUser /\ server' = [server EXCEPT !.users = NewUser]
          /\ Answered(c, SetUserIDAndToken(NewUser), "idle") \/ UNCHANGED call
          /\ UNCHANGED <<db, up, captured, used, mishaps>>
       \/ Exit /\ UNCHANGED mishaps

\* This device is removed from the user's devices on another one.
Elsewhere == \E u \in server.linked :
    /\ server' = [server EXCEPT !.linked = @ \ {u}]
    /\ mishaps' = mishaps \cup {"removed"}
    /\ UNCHANGED <<db, up, captured, call, used>>

-----------------------------------------------------------------------------

Init ==
    /\ db = [email |-> NoEmail, salt |-> 0, loggedIn |-> FALSE, pro |-> FALSE,
             userID |-> 0, token |-> 0]
    /\ \E e \in Emails, full \in SUBSET {1}, coded \in BOOLEAN :
         server = [account |-> [f \in Emails |-> IF f = e THEN [user |-> 1, salt |-> 1]
                                                ELSE NoAccount],
                   users |-> 1, salts |-> 1, pro |-> [u \in Users |-> u = 1],
                   linked |-> {}, full |-> full, changing |-> NoEmail,
                   coded |-> IF coded THEN {e} ELSE {}]
    /\ up = FALSE /\ captured = 0
    /\ call = [c \in Calls |-> Idle]
    /\ used = [calls |-> 0, boots |-> 0]
    /\ mishaps = {}

\* doInvokeMethod: the methods of the account
Invoke(c) ==
    \/ BeginCredentials(c) \/ BeginRecovery(c) \/ BeginSignOut(c) \/ BeginWithProof(c)
    \/ BeginChangeEmail(c) \/ BeginLink(c) \/ BeginProCall(c) \/ BeginReseller(c) \/ BeginReport(c)

Step(c) ==
    \/ InitSessionModel(c) \/ RetryCreateUser(c)
    \/ Write(c) \/ ReadUserID(c) \/ GetSalt(c) \/ Fail(c)
    \/ SignUp(c) \/ Login(c) \/ SignOut(c) \/ DeleteAccount(c) \/ UserCreate(c)
    \/ StartRecoveryByEmail(c) \/ ValidateRecoveryByEmail(c) \/ CompleteRecoveryByEmail(c)
    \/ StartChangeEmail(c) \/ CompleteChangeEmail(c)
    \/ LinkCodeRedeem(c) \/ ValidateDeviceRecoveryCode(c)
    \/ LinkCodeApprove(c) \/ UserLinkRemove(c) \/ Purchase(c) \/ UserDetail(c)

Next ==
    \/ Crash \/ Elsewhere
    \/ \E c \in Calls : NewSessionModel(c) \/ Invoke(c) \/ Step(c)

Spec == Init /\ [][Next]_vars

-----------------------------------------------------------------------------
(* Properties.                                                             *)

TypeOK ==
    /\ db \in [email : Emails \cup {NoEmail}, salt : 0..MaxSalts, loggedIn : BOOLEAN,
               pro : BOOLEAN, userID : 0..MaxUsers, token : 0..MaxUsers]
    /\ up \in BOOLEAN /\ captured \in 0..MaxUsers
    /\ server.account \in [Emails -> Account]
    /\ server.users \in 0..MaxUsers /\ server.salts \in 0..MaxSalts

\* What may come between a call and its effect (`mishaps`):
\*   crash    the process died while a call ran
\*   lost     a request failed, or its answer, after a part of its call was done
\*   overlap  two calls ran at a time
\*   header   a sign up bound the account to the user of the last start
\*   limit    a sign in was refused because the user has too many devices
\*   code     a recovery code linked the device: no email is stored
\*   contact  an email typed in for a purchase or a report replaced the one shown
\*   email    the address was changed
\*   removed  the device was removed on another device

\* The token stored is that of the user stored, at every moment, whatever
\* calls overlap and wherever the process dies (a user ID of 0 is no user).
TokenIsTheUsers == db.userID # 0 => db.token = db.userID

\* A user shown as logged in is the user of the account whose email is shown.
\* A change of email, too many devices and a removal do not break it.
WholeLogin ==
    Quiet /\ mishaps \subseteq {"email", "limit", "removed"} /\ db.loggedIn =>
        /\ db.email # NoEmail
        /\ server.account[db.email].user = db.userID

\* The cached salt proves the password: who is logged in can delete the
\* account or change its address (unless that was done before).
SaltProves ==
    Quiet /\ mishaps \subseteq {"header", "limit", "removed"} /\ db.loggedIn /\ db.salt # 0
        => db.email # NoEmail /\ Proves(db.email, db.salt)

\* What was signed out of or deleted stays gone: while nobody is logged in the
\* session's user is one without an account, or one this device is linked to.
SignedOutIsAnonymous ==
    Quiet /\ mishaps \subseteq {"code", "contact", "email", "header"} /\ ~db.loggedIn /\ db.userID # 0
        => db.userID \in server.linked \/ EmailsOf(db.userID) = {}

\* Whenever nothing runs the session has a user, unless a request failed in
\* the middle of a call: a start and a deletion end with a new one.
QuietHasUser == Quiet /\ "lost" \notin mishaps => db.userID # 0

\* The session says pro when the server does.
ProIsTheServers ==
    Quiet /\ mishaps \subseteq {"code", "contact", "email", "header", "removed"}
        => db.pro = (db.userID # 0 /\ server.pro[db.userID])
=============================================================================
