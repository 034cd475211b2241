---------------------------- MODULE Account_proof ----------------------------
(* The session of the phone, for any number of goroutines, accounts, users *)
(* and calls.                                                              *)
EXTENDS Account, SequenceTheorems, TLAPS

(***************************************************************************)
(* The strengthenings, each on the one before:                             *)
(*   IInv     an identity still to be written is paired with its token in  *)
(*            one transaction, in every list that a goroutine has to write *)
(*   KInv     no user is named that the server has not made, and each      *)
(*            goroutine is sound: it has a list only while it writes, one  *)
(*            that forgets the user is to be followed by a new one         *)
(*   HasUser  without a user some goroutine is about to bring one          *)
(*   SoloInv  while calls do not overlap one goroutine runs: the session   *)
(*            its list makes is right already, and what it has read is     *)
(*            still so                                                     *)
(***************************************************************************)

E == Emails \cup {NoEmail}

\* What an answer may leave to be written.
Transaction ==
  [loggedIn : BOOLEAN] \cup [pro : BOOLEAN] \cup [salt : 0..MaxSalts] \cup [email : E]
  \cup [salt : 0..MaxSalts, email : E] \cup [email : E, userID : {0}, pro : BOOLEAN]
  \cup {[userID |-> u, token |-> u] : u \in 0..MaxUsers}

\* What an answer leaves is something to write.
Todo == Seq(Transaction) \ {<< >>}

\* Calls that act on the account of their email.
AccountCalls == {"signup", "login", "startrecovery", "validaterecovery", "recover", "delete",
                 "startchange", "change"}

Operation == AccountCalls \cup
  {"none", "signout", "redeem", "validate", "approve", "remove", "purchase", "refresh", "report",
   "init", "retry"}

After == {"idle", "ident", "create", "refresh"}
Place == After \cup {"salt", "ask", "write", "init"}

Call == [op : Operation, at : Place, email : E, to : E, uid : 0..MaxUsers, salt : 0..MaxSalts,
         todo : Seq(Transaction), next : After, wrote : BOOLEAN]

\* A goroutine that writes has something to write, and one that asks for a salt or acts on
\* an account has its email.
Able(k) ==
  /\ k.at = "write" => k.todo # << >>
  /\ k.at = "salt" => k.email \in Emails
  /\ k.op \in AccountCalls => k.email \in Emails
  /\ k.op = "change" => k.to \in Emails

SessionOK == db \in [email : E, salt : 0..MaxSalts, loggedIn : BOOLEAN, pro : BOOLEAN,
                     userID : 0..MaxUsers, token : 0..MaxUsers]

ServerOK ==
  /\ captured \in 0..MaxUsers
  /\ server \in [account : [Emails -> {NoAccount} \cup [user : Users, salt : 0..MaxSalts]],
                 users : 0..MaxUsers, salts : 0..MaxSalts, pro : [Users -> BOOLEAN],
                 linked : SUBSET (0..MaxUsers), full : SUBSET (0..MaxUsers), changing : E,
                 coded : SUBSET Emails]

CallsOK == call \in [Calls -> Call] /\ \A c \in Calls : Able(call[c])

IInv == SessionOK /\ ServerOK /\ CallsOK /\ TokenIsTheUsers

-----------------------------------------------------------------------------
(* Lists of transactions.                                                  *)

\* Each setter leaves something to write.
LEMMA Setters ==
  /\ \A u \in 0..MaxUsers : SetUserIDAndToken(u) \in Todo
  /\ \A b \in BOOLEAN : SetLoggedIn(b) \in Todo /\ SetProUser(b) \in Todo
  /\ \A s \in 0..MaxSalts : SaveUserSalt(s) \in Todo
  /\ \A e \in Emails : SetEmail(e) \in Todo
  /\ \A e \in E : SetEmail(e) \in Seq(Transaction)
  /\ \A s \in 0..MaxSalts, e \in E : <<[salt |-> s, email |-> e]>> \in Todo
  /\ <<[email |-> NoEmail, userID |-> 0, pro |-> FALSE]>> \in Todo
<1> USE AccountAssumption DEF AccountAssumption, E, Transaction, Todo
<1>1. ASSUME NEW u \in 0..MaxUsers PROVE SetUserIDAndToken(u) \in Todo
  <2>1. [userID |-> u, token |-> u] \in Transaction
    OBVIOUS
  <2> QED BY <2>1 DEF SetUserIDAndToken
<1>2. \A b \in BOOLEAN : SetLoggedIn(b) \in Todo /\ SetProUser(b) \in Todo
  BY DEF SetLoggedIn, SetProUser
<1>3. \A s \in 0..MaxSalts : SaveUserSalt(s) \in Todo
  BY DEF SaveUserSalt
<1>4. \A e \in Emails : SetEmail(e) \in Todo
  BY DEF SetEmail
<1>5. ASSUME NEW e \in E PROVE SetEmail(e) \in Seq(Transaction)
  <2>1. CASE e = NoEmail
    <3>1. SetEmail(e) = << >>
      BY <2>1 DEF SetEmail
    <3> QED BY <3>1
  <2>2. CASE e \in Emails
    BY <1>4, <2>2
  <2> QED BY <2>1, <2>2
<1>6. \A s \in 0..MaxSalts, e \in E : <<[salt |-> s, email |-> e]>> \in Todo
  OBVIOUS
<1>7. <<[email |-> NoEmail, userID |-> 0, pro |-> FALSE]>> \in Todo
  OBVIOUS
<1> QED BY <1>1, <1>2, <1>3, <1>4, <1>5, <1>6, <1>7

\* Two lists, one of which is not empty, are one that is not empty.
LEMMA Joined ==
  ASSUME NEW s \in Seq(Transaction), NEW t \in Seq(Transaction), s # << >> \/ t # << >>
  PROVE  s \o t \in Todo
  BY DEF Todo

\* What several setters leave together.
LEMMA Compounds ==
  /\ ClearLocalUserData \in Todo
  /\ ServerOK => \A u \in Users, e \in E : CacheUserDetail(u, e) \in Todo
<1>1. ClearLocalUserData \in Todo
  <2>1. <<[salt |-> 0, email |-> NoEmail]>> \in Todo
    BY Setters, AccountAssumption DEF AccountAssumption, E
  <2>2. SetLoggedIn(FALSE) \in Todo /\ SetProUser(FALSE) \in Todo
    BY Setters
  <2> QED BY <2>1, <2>2, Joined DEF ClearLocalUserData, Todo
<1>2. ASSUME ServerOK, NEW u \in Users, NEW e \in E PROVE CacheUserDetail(u, e) \in Todo
  <2>1. server.pro[u] \in BOOLEAN /\ u \in 0..MaxUsers
    BY <1>2, AccountAssumption DEF ServerOK, Users, AccountAssumption
  <2>2. SetEmail(e) \in Seq(Transaction) /\ SetProUser(server.pro[u]) \in Todo
        /\ SetUserIDAndToken(u) \in Todo
    BY <2>1, Setters
  <2> QED BY <2>2, Joined DEF CacheUserDetail, Todo
<1> QED BY <1>1, <1>2

\* A transaction that is written leaves the session an identity with its token.
LEMMA PutPairs ==
  ASSUME SessionOK, TokenIsTheUsers, NEW tx \in Transaction, db' = Put(tx)
  PROVE  SessionOK' /\ TokenIsTheUsers'
<1> USE AccountAssumption DEF AccountAssumption, SessionOK, TokenIsTheUsers, Put, E
<1>1. CASE tx \in [loggedIn : BOOLEAN]
  BY <1>1
<1>2. CASE tx \in [pro : BOOLEAN]
  BY <1>2
<1>3. CASE tx \in [salt : 0..MaxSalts]
  BY <1>3
<1>4. CASE tx \in [email : E]
  BY <1>4
<1>5. CASE tx \in [salt : 0..MaxSalts, email : E]
  BY <1>5
<1>6. CASE tx \in [email : E, userID : {0}, pro : BOOLEAN]
  BY <1>6
<1>7. CASE tx \in {[userID |-> u, token |-> u] : u \in 0..MaxUsers}
  BY <1>7
<1> QED BY <1>1, <1>2, <1>3, <1>4, <1>5, <1>6, <1>7 DEF Transaction

-----------------------------------------------------------------------------
(* The steps of a goroutine.                                               *)

\* A goroutine that becomes another able one.
LEMMA Becomes ==
  ASSUME CallsOK, NEW c \in Calls, NEW k \in Call, Able(k), call' = [call EXCEPT ![c] = k]
  PROVE  CallsOK'
  BY DEF CallsOK

LEMMA IdleIsAble == Idle \in Call /\ Able(Idle)
<1>1. 0 \in 0..MaxUsers /\ 0 \in 0..MaxSalts /\ NoEmail \in E /\ << >> \in Seq(Transaction)
  BY AccountAssumption DEF AccountAssumption, E
<1>2. Idle \in Call
  BY <1>1 DEF Idle, Call, Operation, Place, After
<1>3. Able(Idle)
  BY DEF Idle, Able, AccountCalls
<1> QED BY <1>2, <1>3

\* Each answer leaves its list to write.
LEMMA AnsweredIsAble ==
  ASSUME CallsOK, NEW c \in Calls, NEW txs \in Todo,
         NEW next \in After, Answered(c, txs, next)
  PROVE  CallsOK'
<1> DEFINE k == [call[c] EXCEPT !.todo = txs, !.at = "write", !.next = next]
<1>1. call[c] \in Call /\ Able(call[c])
  BY DEF CallsOK
<1>2. k \in Call /\ Able(k)
  <2>1. txs \in Seq(Transaction) /\ txs # << >>
    BY DEF Todo
  <2>2. k \in Call
    BY <1>1, <2>1 DEF Call, Place
  <2>3. k.op = call[c].op /\ k.email = call[c].email /\ k.to = call[c].to /\ k.todo = txs
    BY <1>1 DEF Call
  <2>4. Able(k)
    BY <1>1, <2>1, <2>3 DEF Able
  <2> QED BY <2>2, <2>4
<1>3. call' = [call EXCEPT ![c] = k]
  BY <1>1 DEF Answered
<1> QED BY <1>2, <1>3, Becomes

LEMMA EndIsAble == ASSUME CallsOK, NEW c \in Calls, End(c) PROVE CallsOK'
  BY IdleIsAble, Becomes DEF End

\* A reply is an answer or the end.
LEMMA ReplyIsAble ==
  ASSUME CallsOK, NEW c \in Calls, NEW srv, NEW txs \in Todo,
         NEW next \in After, Reply(c, srv, txs, next)
  PROVE  CallsOK'
  BY AnsweredIsAble, EndIsAble DEF Reply

\* A call that acts on an account has its email.
LEMMA HasEmail ==
  ASSUME CallsOK, NEW c \in Calls, call[c].op \in AccountCalls
  PROVE  call[c].email \in Emails /\ (call[c].op = "change" => call[c].to \in Emails)
  BY DEF CallsOK, Able

-----------------------------------------------------------------------------
(* The session: only Write changes it.                                     *)
LEMMA SessionStep == IInv /\ [Next]_vars => SessionOK' /\ TokenIsTheUsers'
<1> SUFFICES ASSUME IInv, [Next]_vars PROVE SessionOK' /\ TokenIsTheUsers'
  OBVIOUS
<1> USE DEF IInv
<1>1. ASSUME NEW c \in Calls, Write(c) PROVE SessionOK' /\ TokenIsTheUsers'
  <2>1. call[c].todo \in Seq(Transaction) /\ call[c].todo # << >>
    BY <1>1 DEF Write, CallsOK, Call, Able
  <2>2. Head(call[c].todo) \in Transaction
    BY <2>1
  <2>3. db' = Put(Head(call[c].todo))
    BY <1>1 DEF Write
  <2> QED BY <2>2, <2>3, PutPairs
<1>2. CASE UNCHANGED db
  BY <1>2 DEF SessionOK, TokenIsTheUsers
<1>3. CASE Crash \/ Elsewhere
  BY <1>2, <1>3 DEF Crash, Exit, Elsewhere
<1>4. ASSUME NEW c \in Calls, NewSessionModel(c) \/ Invoke(c) PROVE UNCHANGED db
  BY <1>4 DEF NewSessionModel, Invoke, Begin, BeginCredentials, BeginRecovery, BeginSignOut,
              BeginWithProof, BeginChangeEmail, BeginLink, BeginProCall, BeginReseller, BeginReport
<1>5. ASSUME NEW c \in Calls, Step(c), ~Write(c) PROVE UNCHANGED db
  <2>1. CASE InitSessionModel(c) \/ RetryCreateUser(c) \/ ReadUserID(c) \/ GetSalt(c) \/ Fail(c)
    BY <2>1 DEF InitSessionModel, RetryCreateUser, Exit, ReadUserID, GetSalt, Fail
  <2>2. CASE SignUp(c) \/ Login(c) \/ SignOut(c) \/ DeleteAccount(c) \/ UserCreate(c)
    BY <2>2 DEF SignUp, Login, SignOut, DeleteAccount, UserCreate, Reply
  <2>3. CASE StartRecoveryByEmail(c) \/ ValidateRecoveryByEmail(c) \/ CompleteRecoveryByEmail(c)
             \/ StartChangeEmail(c) \/ CompleteChangeEmail(c)
    BY <2>3 DEF StartRecoveryByEmail, ValidateRecoveryByEmail, CompleteRecoveryByEmail,
                StartChangeEmail, CompleteChangeEmail, Reply
  <2>4. CASE LinkCodeRedeem(c) \/ ValidateDeviceRecoveryCode(c) \/ LinkCodeApprove(c)
             \/ UserLinkRemove(c) \/ Purchase(c) \/ UserDetail(c)
    BY <2>4 DEF LinkCodeRedeem, ValidateDeviceRecoveryCode, Linked, LinkCodeApprove,
                UserLinkRemove, Purchase, UserDetail, Reply
  <2> QED BY <1>5, <2>1, <2>2, <2>3, <2>4 DEF Step
<1>6. CASE UNCHANGED vars
  BY <1>2, <1>6 DEF vars
<1> QED BY <1>1, <1>2, <1>3, <1>4, <1>5, <1>6 DEF Next

-----------------------------------------------------------------------------
(* The servers: an account has a user, and a user a number.                *)
LEMMA ServerStep == IInv /\ [Next]_vars => ServerOK'
<1> SUFFICES ASSUME IInv, [Next]_vars PROVE ServerOK'
  OBVIOUS
<1> USE AccountAssumption DEF AccountAssumption, IInv, E, Users
<1>1. CASE UNCHANGED <<server, captured>>
  BY <1>1 DEF ServerOK
<1>2. CASE Crash \/ Elsewhere
  <2>1. CASE Crash
    <3>1. server' = server /\ captured' = 0
      BY <2>1 DEF Crash, Exit
    <3> QED BY <3>1 DEF ServerOK
  <2>2. CASE Elsewhere
    <3>1. PICK u \in server.linked : server' = [server EXCEPT !.linked = server.linked \ {u}]
      BY <2>2 DEF Elsewhere
    <3>2. captured' = captured
      BY <2>2 DEF Elsewhere
    <3> HIDE DEF Users
    <3> QED BY <3>1, <3>2 DEF ServerOK
  <2> QED BY <1>2, <2>1, <2>2
<1>3. ASSUME NEW c \in Calls, NewSessionModel(c) PROVE ServerOK'
  BY <1>3 DEF NewSessionModel, ServerOK, SessionOK
<1>4. ASSUME NEW c \in Calls, Invoke(c) PROVE ServerOK'
  BY <1>1, <1>4 DEF Invoke, Begin, BeginCredentials, BeginRecovery, BeginSignOut,
              BeginWithProof, BeginChangeEmail, BeginLink, BeginProCall, BeginReseller, BeginReport
<1>5. ASSUME NEW c \in Calls, InitSessionModel(c) \/ Write(c) \/ ReadUserID(c) \/ GetSalt(c)
             \/ Fail(c) \/ ValidateRecoveryByEmail(c) \/ LinkCodeApprove(c) \/ UserDetail(c)
      PROVE  ServerOK'
  BY <1>1, <1>5 DEF InitSessionModel, Write, ReadUserID, GetSalt, Fail, ValidateRecoveryByEmail,
              LinkCodeApprove, UserDetail
<1>6. ASSUME NEW c \in Calls, SignUp(c) PROVE ServerOK'
  <2>1. call[c].email \in Emails
    BY <1>6, HasEmail DEF SignUp, Asks, AccountCalls
  <2>2. UserHeader \in Users /\ NewSalt \in 0..MaxSalts /\ (captured = 0 => NewUser \in 0..MaxUsers)
    BY <1>6 DEF SignUp, SrpSignUp, UserHeader, NewUser, NewSalt, CanUser, CanSalt, ServerOK
  <2>3. server' = [server EXCEPT !.account[call[c].email] = [user |-> UserHeader, salt |-> NewSalt],
                                 !.salts = NewSalt, !.linked = @ \cup {UserHeader},
                                 !.users = IF captured = 0 THEN NewUser ELSE @]
        /\ captured' = captured
    BY <1>6 DEF SignUp, SrpSignUp
  <2>4. [user |-> UserHeader, salt |-> NewSalt] \in [user : Users, salt : 0..MaxSalts]
    BY <2>2
  <2>5. UserHeader \in 0..MaxUsers
    BY <2>2
  <2> HIDE DEF Users
  <2> QED BY <2>1, <2>2, <2>3, <2>4, <2>5 DEF ServerOK
<1>7. ASSUME NEW c \in Calls, Login(c) PROVE ServerOK'
  <2>1. call[c].email \in Emails
    BY <1>7, HasEmail DEF Login, Asks, AccountCalls
  <2>2. server.account[call[c].email].user \in 0..MaxUsers
    BY <1>7, <2>1 DEF Login, Proves, ServerOK
  <2>3. server' \in {server, [server EXCEPT !.linked = @ \cup {server.account[call[c].email].user}]}
        /\ captured' = captured
    BY <1>7 DEF Login, Reply
  <2> QED BY <2>2, <2>3 DEF ServerOK
<1>8. ASSUME NEW c \in Calls, SignOut(c) PROVE ServerOK'
  BY <1>8 DEF SignOut, Reply, ServerOK
<1>9. ASSUME NEW c \in Calls, DeleteAccount(c) PROVE ServerOK'
  BY <1>9 DEF DeleteAccount, Reply, ServerOK
<1>10. ASSUME NEW c \in Calls, UserCreate(c) PROVE ServerOK'
  BY <1>10 DEF UserCreate, Reply, NewUser, CanUser, ServerOK
<1>11. ASSUME NEW c \in Calls, StartRecoveryByEmail(c) PROVE ServerOK'
  <2>1. call[c].email \in Emails
    BY <1>11, HasEmail DEF StartRecoveryByEmail, Asks, AccountCalls
  <2> QED BY <1>11, <2>1 DEF StartRecoveryByEmail, ServerOK
<1>12. ASSUME NEW c \in Calls, CompleteRecoveryByEmail(c) PROVE ServerOK'
  <2>1. call[c].email \in Emails
    BY <1>12, HasEmail DEF CompleteRecoveryByEmail, Asks, AccountCalls
  <2>2. NewSalt \in 0..MaxSalts
        /\ server.account[call[c].email] \in [user : Users, salt : 0..MaxSalts]
    BY <1>12, <2>1 DEF CompleteRecoveryByEmail, NewSalt, CanSalt, ServerOK
  <2>3. server' = TakesSalt(call[c].email) /\ captured' = captured
    BY <1>12 DEF CompleteRecoveryByEmail, Reply
  <2>4. [server.account[call[c].email] EXCEPT !.salt = NewSalt] \in [user : Users, salt : 0..MaxSalts]
    BY <2>2
  <2> HIDE DEF Users
  <2> QED BY <2>1, <2>2, <2>3, <2>4 DEF TakesSalt, ServerOK
<1>13. ASSUME NEW c \in Calls, StartChangeEmail(c) PROVE ServerOK'
  <2>1. call[c].email \in Emails
    BY <1>13, HasEmail DEF StartChangeEmail, Asks, AccountCalls
  <2> QED BY <1>13, <2>1 DEF StartChangeEmail, ServerOK
<1>14. ASSUME NEW c \in Calls, CompleteChangeEmail(c) PROVE ServerOK'
  <2>1. call[c].email \in Emails /\ call[c].to \in Emails
    BY <1>14, HasEmail DEF CompleteChangeEmail, Asks, AccountCalls
  <2>2. NewSalt \in 0..MaxSalts
        /\ [user |-> server.account[call[c].email].user, salt |-> NewSalt]
              \in [user : Users, salt : 0..MaxSalts]
    BY <1>14, <2>1 DEF CompleteChangeEmail, NewSalt, CanSalt, ServerOK
  <2>3. server' = [server EXCEPT !.changing = NoEmail, !.salts = NewSalt,
           !.account[call[c].to] = [user |-> server.account[call[c].email].user, salt |-> NewSalt],
           !.account[call[c].email] = NoAccount]
        /\ captured' = captured
    BY <1>14 DEF CompleteChangeEmail
  <2> HIDE DEF Users
  <2> QED BY <2>1, <2>2, <2>3 DEF ServerOK
<1>15. ASSUME NEW c \in Calls, LinkCodeRedeem(c) \/ ValidateDeviceRecoveryCode(c) PROVE ServerOK'
  <2>1. PICK u \in Users : u \in 1..server.users /\ server' = [server EXCEPT !.linked = @ \cup {u}]
    BY <1>15 DEF LinkCodeRedeem, ValidateDeviceRecoveryCode, Linked
  <2>2. captured' = captured
    BY <1>15 DEF LinkCodeRedeem, ValidateDeviceRecoveryCode, Linked
  <2> QED BY <2>1, <2>2 DEF ServerOK
<1>16. ASSUME NEW c \in Calls, UserLinkRemove(c) PROVE ServerOK'
  <2>1. server' = [server EXCEPT !.full = server.full \ {call[c].uid}] /\ captured' = captured
    BY <1>16 DEF UserLinkRemove
  <2> HIDE DEF Users
  <2> QED BY <2>1 DEF ServerOK
<1>17. ASSUME NEW c \in Calls, Purchase(c) PROVE ServerOK'
  <2>1. captured' = captured
        /\ server' = [server EXCEPT !.pro = [server.pro EXCEPT ![call[c].uid] = TRUE]]
    BY <1>17 DEF Purchase, PurchaseRequest, Reply
  <2> HIDE DEF Users
  <2> QED BY <2>1 DEF ServerOK
<1>18. ASSUME NEW c \in Calls, RetryCreateUser(c) PROVE ServerOK'
  <2>1. server' \in {server, [server EXCEPT !.users = NewUser]} /\ captured' \in {captured, 0}
        /\ (server' # server => CanUser)
    BY <1>18 DEF RetryCreateUser, Exit
  <2>2. CanUser => NewUser \in 0..MaxUsers
    BY DEF NewUser, CanUser, ServerOK
  <2> HIDE DEF Users
  <2> QED BY <2>1, <2>2 DEF ServerOK
<1>19. CASE UNCHANGED vars
  BY <1>1, <1>19 DEF vars
<1> QED
  BY <1>2, <1>3, <1>4, <1>5, <1>6, <1>7, <1>8, <1>9, <1>10, <1>11, <1>12, <1>13, <1>14, <1>15,
     <1>16, <1>17, <1>18, <1>19 DEF Next, Step

-----------------------------------------------------------------------------
(* The goroutines: what each of them does next.                            *)

\* A call begun is able.
LEMMA BeginIsAble ==
  ASSUME CallsOK, NEW c \in Calls, NEW k \in Call, Able(k), Begin(c, k)
  PROVE  CallsOK'
  BY Becomes DEF Begin

LEMMA ForEmailIsAble ==
  ASSUME NEW op \in Operation, NEW at \in Place, NEW e \in E, at # "write", op # "change",
         op \in AccountCalls => e \in Emails, at = "salt" => e \in Emails
  PROVE  ForEmail(op, at, e) \in Call /\ Able(ForEmail(op, at, e))
<1>1. Idle \in Call
  BY IdleIsAble
<1>2. ForEmail(op, at, e) \in Call
  BY <1>1 DEF ForEmail, Call
<1>3. Able(ForEmail(op, at, e))
  BY <1>1 DEF ForEmail, Able, Call, Idle
<1> QED BY <1>2, <1>3

\* The calls of the screens.
LEMMA InvokeStep == ASSUME IInv, NEW c \in Calls, Invoke(c) PROVE CallsOK'
<1> USE DEF IInv
<1>1. CASE BeginCredentials(c) \/ BeginRecovery(c) \/ BeginLink(c) \/ BeginProCall(c)
  <2>1. PICK op \in Operation, at \in Place, e \in E :
          /\ at # "write" /\ op # "change" /\ (op \in AccountCalls \/ at = "salt" => e \in Emails)
          /\ Begin(c, ForEmail(op, at, e))
    BY <1>1 DEF BeginCredentials, BeginRecovery, BeginLink, BeginProCall, Operation, AccountCalls,
                Place, After, E
  <2> QED BY <2>1, ForEmailIsAble, BeginIsAble
<1>2. CASE BeginSignOut(c)
  <2> DEFINE k == [ForEmail("signout", "ask", db.email) EXCEPT !.uid = db.userID]
  <2>1. Idle \in Call /\ db.email \in E /\ db.userID \in 0..MaxUsers
    BY IdleIsAble DEF SessionOK
  <2>2. k \in Call
    BY <2>1 DEF ForEmail, Call, Operation, Place
  <2>3. Able(k)
    BY <2>1 DEF ForEmail, Able, Call, AccountCalls
  <2> QED BY <1>2, <2>2, <2>3, BeginIsAble DEF BeginSignOut
<1>3. CASE BeginWithProof(c)
  <2> DEFINE k(op) == [ForEmail(op, IF CachedSalt = 0 THEN "salt" ELSE "ask", db.email)
                         EXCEPT !.salt = CachedSalt]
  <2>1. PICK op \in {"delete", "startchange"} : Begin(c, k(op))
    BY <1>3 DEF BeginWithProof
  <2>2. Idle \in Call /\ db.email \in Emails /\ CachedSalt \in 0..MaxSalts
    BY <1>3, IdleIsAble DEF SessionOK, BeginWithProof, CachedSalt, E
  <2>3. k(op) \in Call
    BY <2>2 DEF ForEmail, Call, Operation, AccountCalls, Place, E
  <2>4. Able(k(op))
    BY <2>2 DEF ForEmail, Able, Call
  <2> QED BY <2>1, <2>3, <2>4, BeginIsAble
<1>4. CASE BeginChangeEmail(c)
  <2> DEFINE k(e) == [ForEmail("change", "ask", db.email) EXCEPT !.to = e]
  <2>1. PICK e \in Emails : Begin(c, k(e))
    BY <1>4 DEF BeginChangeEmail
  <2>2. Idle \in Call /\ db.email \in Emails
    BY <1>4, IdleIsAble DEF SessionOK, BeginChangeEmail, E
  <2>3. k(e) \in Call
    BY <2>2 DEF ForEmail, Call, Operation, AccountCalls, Place, E
  <2>4. Able(k(e))
    BY <2>2 DEF ForEmail, Able, Call
  <2> QED BY <2>1, <2>3, <2>4, BeginIsAble
<1>5. CASE BeginReseller(c)
  <2> DEFINE k(e) == [ForEmail("purchase", "write", NoEmail) EXCEPT !.todo = SetEmail(e),
                                                                   !.next = "ident"]
  <2>1. PICK e \in Emails : Begin(c, k(e))
    BY <1>5 DEF BeginReseller
  <2>2. Idle \in Call /\ SetEmail(e) \in Todo
    BY IdleIsAble, Setters
  <2>3. k(e) \in Call
    BY <2>2 DEF ForEmail, Call, Operation, Place, After, E, Todo
  <2>4. Able(k(e))
    BY <2>2 DEF ForEmail, Able, Call, AccountCalls, Todo
  <2> QED BY <2>1, <2>3, <2>4, BeginIsAble
<1>6. CASE BeginReport(c)
  <2> DEFINE k(e) == [ForEmail("report", "write", NoEmail) EXCEPT !.todo = SetEmail(e)]
  <2>1. PICK e \in Emails : Begin(c, k(e))
    BY <1>6 DEF BeginReport
  <2>2. Idle \in Call /\ SetEmail(e) \in Todo
    BY IdleIsAble, Setters
  <2>3. k(e) \in Call
    BY <2>2 DEF ForEmail, Call, Operation, Place, E, Todo
  <2>4. Able(k(e))
    BY <2>2 DEF ForEmail, Able, Call, AccountCalls, Todo
  <2> QED BY <2>1, <2>3, <2>4, BeginIsAble
<1> QED BY <1>1, <1>2, <1>3, <1>4, <1>5, <1>6 DEF Invoke

\* What a goroutine does next.
LEMMA StepIsAble == ASSUME IInv, NEW c \in Calls, Step(c) PROVE CallsOK'
<1> USE DEF IInv
<1>c. call[c] \in Call /\ Able(call[c])
  BY DEF CallsOK
<1>n. NewUser \in Nat /\ NewSalt \in Nat /\ (CanUser => NewUser \in 0..MaxUsers)
      /\ (CanSalt => NewSalt \in 0..MaxSalts)
  BY AccountAssumption DEF AccountAssumption, ServerOK, NewUser, NewSalt, CanUser, CanSalt
<1>1. CASE InitSessionModel(c)
  <2> DEFINE k == [Idle EXCEPT !.op = IF db.userID = 0 THEN "retry" ELSE "refresh",
                               !.at = IF db.userID = 0 THEN "ask" ELSE "ident"]
  <2>1. k \in Call
    BY IdleIsAble DEF Call, Operation, Place, After
  <2>2. Able(k)
    BY IdleIsAble DEF Able, Call, AccountCalls
  <2> QED BY <1>1, <2>1, <2>2, Becomes DEF InitSessionModel
<1>2. CASE RetryCreateUser(c)
  <2>1. CASE Exit
    BY <2>1, IdleIsAble DEF Exit, CallsOK
  <2>2. CASE UNCHANGED call
    BY <2>2 DEF CallsOK
  <2>3. CASE CanUser /\ Answered(c, SetUserIDAndToken(NewUser), "idle")
    BY <1>n, <2>3, Setters, AnsweredIsAble DEF After
  <2> QED BY <1>2, <2>1, <2>2, <2>3 DEF RetryCreateUser
<1>3. CASE Write(c)
  <2> DEFINE rest == Tail(call[c].todo)
             more == [call[c] EXCEPT !.todo = rest, !.wrote = TRUE]
             on == [call[c] EXCEPT !.todo = rest, !.wrote = TRUE, !.at = call[c].next]
  <2>1. rest \in Seq(Transaction)
    <3>1. call[c].todo \in Seq(Transaction) /\ call[c].todo # << >>
      BY <1>c, <1>3 DEF Write, Able, Call
    <3> QED BY <3>1
  <2>2. CASE rest # << >>
    <3>1. more \in Call
      BY <1>c, <2>1 DEF Call
    <3>2. Able(more)
      BY <1>c, <2>2 DEF Able, Call
    <3>3. call' = [call EXCEPT ![c] = more]
      BY <1>3, <2>2 DEF Write
    <3> QED BY <3>1, <3>2, <3>3, Becomes
  <2>3. CASE rest = << >> /\ call[c].next = "idle"
    BY <1>3, <2>3, IdleIsAble, Becomes DEF Write
  <2>4. CASE rest = << >> /\ call[c].next # "idle"
    <3>1. call[c].next \in After
      BY <1>c DEF Call
    <3>2. on \in Call
      BY <1>c, <2>1, <3>1 DEF Call, Place
    <3>3. Able(on)
      BY <1>c, <3>1 DEF Able, Call, After
    <3>4. call' = [call EXCEPT ![c] = on]
      BY <1>3, <2>4 DEF Write
    <3> QED BY <3>2, <3>3, <3>4, Becomes
  <2> QED BY <2>2, <2>3, <2>4
<1>4. CASE ReadUserID(c)
  <2> DEFINE k == [call[c] EXCEPT !.uid = db.userID, !.at = "ask",
                                  !.op = IF call[c].at = "refresh" THEN "refresh" ELSE @]
  <2>1. k \in Call
    BY <1>c DEF SessionOK, Call, Operation, Place
  <2>2. Able(k)
    BY <1>c DEF Able, Call, AccountCalls
  <2>3. call' = [call EXCEPT ![c] = k]
    BY <1>4 DEF ReadUserID
  <2> QED BY <2>1, <2>2, <2>3, Becomes
<1>5. CASE GetSalt(c)
  <2> DEFINE e == call[c].email
             k == [call[c] EXCEPT !.salt = server.account[e].salt, !.at = "ask"]
  <2>1. SUFFICES k \in Call /\ Able(k)
    BY <1>5, Becomes DEF GetSalt
  <2>2. Able(k)
    BY <1>c DEF Able, Call
  <2>3. server.account[e].salt \in 0..MaxSalts => k \in Call
    BY <1>c DEF Call, Place
  <2>4. e \in Emails => server.account[e].salt \in 0..MaxSalts
    BY <1>5 DEF GetSalt, ServerOK
  <2>5. call[c].at = "salt"
    BY <1>5 DEF GetSalt
  <2> QED BY <1>c, <2>2, <2>3, <2>4, <2>5 DEF Able
<1>6. CASE Fail(c)
  BY <1>6, EndIsAble DEF Fail
<1>7. CASE SignUp(c)
  <2>1. call[c].email \in Emails /\ NewSalt \in 0..MaxSalts
    BY <1>7, <1>n, HasEmail DEF SignUp, SrpSignUp, Asks, AccountCalls
  <2>2. <<[salt |-> NewSalt, email |-> call[c].email]>> \o SetLoggedIn(TRUE) \in Todo
    BY <2>1, Setters, Joined DEF E, Todo
  <2> QED BY <1>7, <2>2, AnsweredIsAble, EndIsAble DEF SignUp, After
<1>8. CASE Login(c)
  <2> DEFINE u == server.account[call[c].email].user
  <2>1. call[c].email \in Emails
    BY <1>8, HasEmail DEF Login, Asks, AccountCalls
  <2>2. u \in Users /\ u \in 0..MaxUsers
    BY <1>8, <2>1, AccountAssumption DEF AccountAssumption, Login, Proves, ServerOK, Users
  <2>3. call[c].salt \in 0..MaxSalts /\ call[c].email \in E
    BY <1>c, <2>1 DEF Call, E
  <2>4. SetLoggedIn(TRUE) \in Todo /\ SaveUserSalt(call[c].salt) \in Todo
        /\ CacheUserDetail(u, call[c].email) \in Todo /\ DeviceLimitFlow(u) \in Todo
    BY <2>2, <2>3, Setters, Compounds DEF DeviceLimitFlow
  <2>5. SetLoggedIn(TRUE) \o SaveUserSalt(call[c].salt) \o CacheUserDetail(u, call[c].email) \in Todo
    BY <2>4, Joined DEF Todo
  <2> QED BY <1>8, <2>4, <2>5, ReplyIsAble, AnsweredIsAble DEF Login, After
<1>9. CASE SignOut(c)
  BY <1>9, Compounds, ReplyIsAble DEF SignOut, After
<1>10. CASE DeleteAccount(c)
  <2>1. <<[email |-> NoEmail, userID |-> 0, pro |-> FALSE]>> \o ClearLocalUserData \in Todo
    BY Setters, Compounds, Joined DEF Todo
  <2> QED BY <1>10, <2>1, ReplyIsAble DEF DeleteAccount, After
<1>11. CASE UserCreate(c)
  BY <1>11, <1>n, Setters, ReplyIsAble DEF UserCreate, After
<1>12. CASE StartRecoveryByEmail(c) \/ ValidateRecoveryByEmail(c) \/ StartChangeEmail(c)
  BY <1>12, EndIsAble DEF StartRecoveryByEmail, ValidateRecoveryByEmail, StartChangeEmail
<1>13. CASE CompleteRecoveryByEmail(c)
  BY <1>13, <1>n, Setters, ReplyIsAble DEF CompleteRecoveryByEmail, After
<1>14. CASE CompleteChangeEmail(c)
  <2>1. call[c].to \in Emails
    BY <1>14, HasEmail DEF CompleteChangeEmail, Asks, AccountCalls
  <2> QED BY <1>14, <2>1, Setters, AnsweredIsAble, EndIsAble DEF CompleteChangeEmail, After
<1>15. ASSUME NEW u \in Users, NEW txs \in Seq(Transaction), NEW what, Linked(c, u, txs, what)
       PROVE  CallsOK'
  <2>1. u \in 0..MaxUsers
    BY AccountAssumption DEF AccountAssumption, Users
  <2>2. SetUserIDAndToken(u) \o txs \in Todo
    BY <2>1, Setters, Joined DEF Todo
  <2> QED BY <1>15, <2>2, AnsweredIsAble, EndIsAble DEF Linked, After
<1>16. CASE LinkCodeRedeem(c)
  <2>1. << >> \in Seq(Transaction)
    OBVIOUS
  <2> QED BY <1>15, <1>16, <2>1 DEF LinkCodeRedeem
<1>17. CASE ValidateDeviceRecoveryCode(c)
  <2>1. SetLoggedIn(TRUE) \in Seq(Transaction)
    BY Setters DEF Todo
  <2> QED BY <1>15, <1>17, <2>1 DEF ValidateDeviceRecoveryCode
<1>18. CASE LinkCodeApprove(c) \/ UserLinkRemove(c)
  <2> DEFINE k == [call[c] EXCEPT !.at = "refresh"]
  <2>1. k \in Call
    BY <1>c DEF Call, Place, After
  <2>2. Able(k)
    BY <1>c DEF Able, Call
  <2>3. call' = [call EXCEPT ![c] = k]
    BY <1>18 DEF LinkCodeApprove, UserLinkRemove, Goto
  <2> QED BY <2>1, <2>2, <2>3, Becomes
<1>19. CASE Purchase(c)
  BY <1>19, Setters, ReplyIsAble DEF Purchase, After
<1>20. CASE UserDetail(c)
  <2>1. call[c].uid \in Users
    BY <1>c, <1>20, AccountAssumption DEF AccountAssumption, UserDetail, Identified, Call, Users
  <2>2. PICK e \in E : Answered(c, CacheUserDetail(call[c].uid, e), "idle")
    BY <1>20 DEF UserDetail, EmailsOf, E
  <2> QED BY <2>1, <2>2, Compounds, AnsweredIsAble DEF After
<1> QED
  BY <1>1, <1>2, <1>3, <1>4, <1>5, <1>6, <1>7, <1>8, <1>9, <1>10, <1>11, <1>12, <1>13, <1>14,
     <1>16, <1>17, <1>18, <1>19, <1>20 DEF Step

LEMMA CallsStep == IInv /\ [Next]_vars => CallsOK'
<1> SUFFICES ASSUME IInv, [Next]_vars PROVE CallsOK'
  OBVIOUS
<1>1. CASE Crash
  BY <1>1, IdleIsAble DEF Crash, Exit, CallsOK
<1>2. CASE UNCHANGED call
  BY <1>2 DEF IInv, CallsOK
<1>3. ASSUME NEW c \in Calls, NewSessionModel(c) PROVE CallsOK'
  <2> DEFINE k == [Idle EXCEPT !.op = "init", !.at = "init"]
  <2>1. k \in Call
    BY IdleIsAble DEF Call, Operation, Place
  <2>2. Able(k)
    BY IdleIsAble DEF Able, Call, AccountCalls
  <2> QED BY <1>3, <2>1, <2>2, Becomes DEF IInv, NewSessionModel
<1> QED BY <1>1, <1>2, <1>3, InvokeStep, StepIsAble DEF Next, Elsewhere, vars

LEMMA Start == Init => IInv
<1> SUFFICES ASSUME Init PROVE IInv
  OBVIOUS
<1> USE AccountAssumption DEF AccountAssumption
<1>1. SessionOK /\ TokenIsTheUsers
  BY DEF Init, SessionOK, TokenIsTheUsers, E
<1>2. ServerOK
  <2>1. PICK e \in Emails, full \in SUBSET {1}, coded \in BOOLEAN :
          server = [account |-> [f \in Emails |-> IF f = e THEN [user |-> 1, salt |-> 1]
                                                 ELSE NoAccount],
                    users |-> 1, salts |-> 1, pro |-> [u \in Users |-> u = 1],
                    linked |-> {}, full |-> full, changing |-> NoEmail,
                    coded |-> IF coded THEN {e} ELSE {}]
    BY DEF Init
  <2>2. [user |-> 1, salt |-> 1] \in [user : Users, salt : 0..MaxSalts]
    BY DEF Users
  <2>3. 1 \in 0..MaxUsers /\ 1 \in 0..MaxSalts /\ captured \in 0..MaxUsers
    BY DEF Init
  <2>4. full \in SUBSET (0..MaxUsers) /\ {} \in SUBSET (0..MaxUsers)
    BY <2>3
  <2> HIDE DEF Users
  <2> QED BY <2>1, <2>2, <2>3, <2>4 DEF ServerOK, E
<1>3. CallsOK
  BY IdleIsAble DEF Init, CallsOK
<1> QED BY <1>1, <1>2, <1>3 DEF IInv

-----------------------------------------------------------------------------
(* What a list of transactions makes of the session.                       *)

Sessions == [email : E, salt : 0..MaxSalts, loggedIn : BOOLEAN, pro : BOOLEAN,
             userID : 0..MaxUsers, token : 0..MaxUsers]
Paths == {"email", "salt", "loggedIn", "pro", "userID", "token"}

\* The transactions q, one after the other, make session s of session d: on each path
\* is what the last of them that has the path puts there.
Ends(q, d, s) ==
  \A path \in Paths :
    \/ /\ \A i \in 1..Len(q) : path \notin DOMAIN q[i]
       /\ s[path] = d[path]
    \/ \E i \in 1..Len(q) :
         /\ path \in DOMAIN q[i] /\ s[path] = q[i][path]
         /\ \A j \in 1..Len(q) : j > i => path \notin DOMAIN q[j]

LEMMA SessionIs ==
  ASSUME NEW s \in Sessions, NEW t \in Sessions, \A path \in Paths : s[path] = t[path]
  PROVE  s = t
  BY DEF Sessions, Paths

LEMMA EndsNone == \A d \in Sessions, s \in Sessions : Ends(<< >>, d, s) <=> s = d
<1>1. ASSUME NEW d \in Sessions PROVE Ends(<< >>, d, d)
  BY DEF Ends
<1>2. ASSUME NEW d \in Sessions, NEW s \in Sessions, Ends(<< >>, d, s) PROVE s = d
  <2>1. \A path \in Paths : s[path] = d[path]
    BY <1>2 DEF Ends
  <2> QED BY <2>1, SessionIs
<1> QED BY <1>1, <1>2

LEMMA EndsJoined ==
  ASSUME NEW T, NEW q \in Seq(T), NEW r \in Seq(T), NEW d, NEW e, NEW s,
         Ends(q, d, e), Ends(r, e, s)
  PROVE  Ends(q \o r, d, s)
<1> DEFINE m == Len(q)
           n == Len(r)
           j == q \o r
<1>1. m \in Nat /\ n \in Nat /\ Len(j) = m + n
  OBVIOUS
<1>2. /\ \A i \in 1..m : j[i] = q[i]
      /\ \A i \in 1..n : j[m + i] = r[i]
      /\ \A i \in 1..Len(j) : i \in 1..m \/ (i - m \in 1..n /\ j[i] = r[i - m])
  OBVIOUS
<1> SUFFICES ASSUME NEW path \in Paths
             PROVE  \/ (\A i \in 1..Len(j) : path \notin DOMAIN j[i]) /\ s[path] = d[path]
                    \/ \E i \in 1..Len(j) : /\ path \in DOMAIN j[i] /\ s[path] = j[i][path]
                                            /\ \A k \in 1..Len(j) : k > i => path \notin DOMAIN j[k]
  BY DEF Ends
<1>3. \/ (\A i \in 1..n : path \notin DOMAIN r[i]) /\ s[path] = e[path]
      \/ \E i \in 1..n : /\ path \in DOMAIN r[i] /\ s[path] = r[i][path]
                         /\ \A k \in 1..n : k > i => path \notin DOMAIN r[k]
  BY DEF Ends
<1>4. \/ (\A i \in 1..m : path \notin DOMAIN q[i]) /\ e[path] = d[path]
      \/ \E i \in 1..m : /\ path \in DOMAIN q[i] /\ e[path] = q[i][path]
                         /\ \A k \in 1..m : k > i => path \notin DOMAIN q[k]
  BY DEF Ends
<1> HIDE DEF m, n, j
<1>5. ASSUME NEW i \in 1..n, path \in DOMAIN r[i], s[path] = r[i][path],
             \A k \in 1..n : k > i => path \notin DOMAIN r[k]
      PROVE  \E h \in 1..Len(j) : /\ path \in DOMAIN j[h] /\ s[path] = j[h][path]
                                  /\ \A k \in 1..Len(j) : k > h => path \notin DOMAIN j[k]
  <2>1. m + i \in 1..Len(j) /\ j[m + i] = r[i]
    BY <1>1, <1>2
  <2>2. ASSUME NEW k \in 1..Len(j), k > m + i PROVE path \notin DOMAIN j[k]
    <3>1. k - m \in 1..n /\ j[k] = r[k - m] /\ k - m > i
      BY <1>1, <1>2, <2>2
    <3> QED BY <3>1, <1>5
  <2> QED BY <1>5, <2>1, <2>2
<1>6. ASSUME NEW i \in 1..m, path \in DOMAIN q[i], s[path] = q[i][path],
             \A k \in 1..m : k > i => path \notin DOMAIN q[k],
             \A k \in 1..n : path \notin DOMAIN r[k]
      PROVE  \E h \in 1..Len(j) : /\ path \in DOMAIN j[h] /\ s[path] = j[h][path]
                                  /\ \A k \in 1..Len(j) : k > h => path \notin DOMAIN j[k]
  <2>1. i \in 1..Len(j) /\ j[i] = q[i]
    BY <1>1, <1>2
  <2>2. ASSUME NEW k \in 1..Len(j), k > i PROVE path \notin DOMAIN j[k]
    BY <1>1, <1>2, <1>6, <2>2
  <2> QED BY <1>6, <2>1, <2>2
<1>7. ASSUME \A k \in 1..m : path \notin DOMAIN q[k], \A k \in 1..n : path \notin DOMAIN r[k]
      PROVE  \A k \in 1..Len(j) : path \notin DOMAIN j[k]
  BY <1>2, <1>7
<1> QED BY <1>3, <1>4, <1>5, <1>6, <1>7

\* The first of the transactions is written.
LEMMA EndsWrite ==
  ASSUME NEW T, NEW q \in Seq(T), q # << >>, NEW d \in Sessions, NEW e, NEW s, Ends(q, d, s),
         e = [path \in Paths |-> IF path \in DOMAIN Head(q) THEN Head(q)[path] ELSE d[path]]
  PROVE  Ends(Tail(q), e, s)
<1> DEFINE n == Len(q)
           t == Tail(q)
<1>1. n \in Nat \ {0} /\ Len(t) = n - 1 /\ Head(q) = q[1]
  OBVIOUS
<1>2. \A i \in 1..Len(t) : t[i] = q[i + 1]
  OBVIOUS
<1> SUFFICES ASSUME NEW path \in Paths
             PROVE  \/ (\A i \in 1..Len(t) : path \notin DOMAIN t[i]) /\ s[path] = e[path]
                    \/ \E i \in 1..Len(t) : /\ path \in DOMAIN t[i] /\ s[path] = t[i][path]
                                            /\ \A k \in 1..Len(t) : k > i => path \notin DOMAIN t[k]
  BY DEF Ends
<1>3. \/ (\A i \in 1..n : path \notin DOMAIN q[i]) /\ s[path] = d[path]
      \/ \E i \in 1..n : /\ path \in DOMAIN q[i] /\ s[path] = q[i][path]
                         /\ \A k \in 1..n : k > i => path \notin DOMAIN q[k]
  BY DEF Ends
<1>4. e[path] = IF path \in DOMAIN q[1] THEN q[1][path] ELSE d[path]
  BY <1>1
<1> HIDE DEF n, t
<1>5. CASE (\A i \in 1..n : path \notin DOMAIN q[i]) /\ s[path] = d[path]
  BY <1>1, <1>2, <1>4, <1>5
<1>6. ASSUME NEW i \in 1..n, path \in DOMAIN q[i], s[path] = q[i][path],
             \A k \in 1..n : k > i => path \notin DOMAIN q[k]
      PROVE  \/ (\A h \in 1..Len(t) : path \notin DOMAIN t[h]) /\ s[path] = e[path]
             \/ \E h \in 1..Len(t) : /\ path \in DOMAIN t[h] /\ s[path] = t[h][path]
                                     /\ \A k \in 1..Len(t) : k > h => path \notin DOMAIN t[k]
  <2>1. CASE i = 1
    <3>1. ASSUME NEW h \in 1..Len(t) PROVE path \notin DOMAIN t[h]
      <4>1. h + 1 \in 1..n /\ h + 1 > i /\ t[h] = q[h + 1]
        BY <1>1, <1>2, <2>1
      <4> QED BY <1>6, <4>1
    <3>2. s[path] = e[path]
      BY <1>4, <1>6, <2>1
    <3> QED BY <3>1, <3>2
  <2>2. CASE i # 1
    <3>1. i - 1 \in 1..Len(t) /\ t[i - 1] = q[i]
      BY <1>1, <1>2, <2>2
    <3>2. ASSUME NEW k \in 1..Len(t), k > i - 1 PROVE path \notin DOMAIN t[k]
      <4>1. k + 1 \in 1..n /\ k + 1 > i /\ t[k] = q[k + 1]
        BY <1>1, <1>2, <3>2
      <4> QED BY <1>6, <4>1
    <3> QED BY <1>6, <3>1, <3>2
  <2> QED BY <2>1, <2>2
<1> QED BY <1>1, <1>3, <1>5, <1>6

-----------------------------------------------------------------------------
\* What each setter makes of the session.
LEMMA SettersEnd ==
  ASSUME NEW d \in Sessions
  PROVE  /\ \A u : Ends(SetUserIDAndToken(u), d, [d EXCEPT !.userID = u, !.token = u])
         /\ \A b : Ends(SetLoggedIn(b), d, [d EXCEPT !.loggedIn = b])
         /\ \A b : Ends(SetProUser(b), d, [d EXCEPT !.pro = b])
         /\ \A s : Ends(SaveUserSalt(s), d, [d EXCEPT !.salt = s])
         /\ \A e \in E : Ends(SetEmail(e), d, IF e = NoEmail THEN d ELSE [d EXCEPT !.email = e])
         /\ \A s, e : Ends(<<[salt |-> s, email |-> e]>>, d, [d EXCEPT !.salt = s, !.email = e])
         /\ Ends(<<[email |-> NoEmail, userID |-> 0, pro |-> FALSE]>>, d,
                 [d EXCEPT !.email = NoEmail, !.userID = 0, !.pro = FALSE])
<1> USE DEF Ends, Paths, Sessions
<1>0. ASSUME NEW tx, NEW s,
             \A path \in Paths : s[path] = IF path \in DOMAIN tx THEN tx[path] ELSE d[path]
      PROVE  Ends(<<tx>>, d, s)
  <2>1. Len(<<tx>>) = 1 /\ <<tx>>[1] = tx
    OBVIOUS
  <2> QED BY <1>0, <2>1
<1> HIDE DEF Ends
<1>1. ASSUME NEW u PROVE Ends(SetUserIDAndToken(u), d, [d EXCEPT !.userID = u, !.token = u])
  <2> DEFINE tx == [userID |-> u, token |-> u]
             s == [d EXCEPT !.userID = u, !.token = u]
  <2>1. DOMAIN tx = {"userID", "token"} /\ tx.userID = u /\ tx.token = u
    OBVIOUS
  <2>2. /\ s.email = d.email /\ s.salt = d.salt /\ s.loggedIn = d.loggedIn
        /\ s.pro = d.pro /\ s.userID = u /\ s.token = u
    OBVIOUS
  <2> HIDE DEF tx, s
  <2>3. \A path \in Paths : s[path] = IF path \in DOMAIN tx THEN tx[path] ELSE d[path]
    BY <2>1, <2>2
  <2> QED BY <1>0, <2>3 DEF SetUserIDAndToken, tx, s
<1>2. \A b : Ends(SetLoggedIn(b), d, [d EXCEPT !.loggedIn = b])
  BY <1>0 DEF SetLoggedIn
<1>3. \A b : Ends(SetProUser(b), d, [d EXCEPT !.pro = b])
  BY <1>0 DEF SetProUser
<1>4. \A s : Ends(SaveUserSalt(s), d, [d EXCEPT !.salt = s])
  BY <1>0 DEF SaveUserSalt
<1>5. \A e \in E : Ends(SetEmail(e), d, IF e = NoEmail THEN d ELSE [d EXCEPT !.email = e])
  BY <1>0, EndsNone DEF SetEmail
<1>6. ASSUME NEW n, NEW e
      PROVE  Ends(<<[salt |-> n, email |-> e]>>, d, [d EXCEPT !.salt = n, !.email = e])
  <2> DEFINE tx == [salt |-> n, email |-> e]
             s == [d EXCEPT !.salt = n, !.email = e]
  <2>1. DOMAIN tx = {"salt", "email"} /\ tx.salt = n /\ tx.email = e
    OBVIOUS
  <2>2. /\ s.email = e /\ s.salt = n /\ s.loggedIn = d.loggedIn
        /\ s.pro = d.pro /\ s.userID = d.userID /\ s.token = d.token
    OBVIOUS
  <2> HIDE DEF tx, s
  <2>3. \A path \in Paths : s[path] = IF path \in DOMAIN tx THEN tx[path] ELSE d[path]
    BY <2>1, <2>2
  <2> QED BY <1>0, <2>3 DEF tx, s
<1>7. Ends(<<[email |-> NoEmail, userID |-> 0, pro |-> FALSE]>>, d,
           [d EXCEPT !.email = NoEmail, !.userID = 0, !.pro = FALSE])
  <2> DEFINE tx == [email |-> NoEmail, userID |-> 0, pro |-> FALSE]
             s == [d EXCEPT !.email = NoEmail, !.userID = 0, !.pro = FALSE]
  <2>1. DOMAIN tx = {"email", "userID", "pro"} /\ tx.email = NoEmail /\ tx.userID = 0
        /\ tx.pro = FALSE
    OBVIOUS
  <2>2. /\ s.email = NoEmail /\ s.salt = d.salt /\ s.loggedIn = d.loggedIn
        /\ s.pro = FALSE /\ s.userID = 0 /\ s.token = d.token
    OBVIOUS
  <2> HIDE DEF tx, s
  <2>3. \A path \in Paths : s[path] = IF path \in DOMAIN tx THEN tx[path] ELSE d[path]
    BY <2>1, <2>2
  <2> QED BY <1>0, <2>3 DEF tx, s
<1> QED BY <1>1, <1>2, <1>3, <1>4, <1>5, <1>6, <1>7

\* A session with this to read in it.
Is(s, email, salt, loggedIn, pro, userID) ==
  /\ s \in Sessions
  /\ s.email = email /\ s.salt = salt /\ s.loggedIn = loggedIn /\ s.pro = pro
  /\ s.userID = userID

\* From session d the transactions q make a session with this to read in it.
Makes(q, d, email, salt, loggedIn, pro, userID) ==
  \E s : Ends(q, d, s) /\ Is(s, email, salt, loggedIn, pro, userID)

LEMMA SettersMake ==
  ASSUME NEW d \in Sessions
  PROVE  /\ \A u \in 0..MaxUsers :
              Makes(SetUserIDAndToken(u), d, d.email, d.salt, d.loggedIn, d.pro, u)
         /\ \A b \in BOOLEAN :
              /\ Makes(SetLoggedIn(b), d, d.email, d.salt, b, d.pro, d.userID)
              /\ Makes(SetProUser(b), d, d.email, d.salt, d.loggedIn, b, d.userID)
         /\ \A n \in 0..MaxSalts :
              Makes(SaveUserSalt(n), d, d.email, n, d.loggedIn, d.pro, d.userID)
         /\ \A e \in E :
              Makes(SetEmail(e), d, IF e = NoEmail THEN d.email ELSE e, d.salt, d.loggedIn, d.pro,
                    d.userID)
         /\ \A n \in 0..MaxSalts, e \in E :
              Makes(<<[salt |-> n, email |-> e]>>, d, e, n, d.loggedIn, d.pro, d.userID)
         /\ Makes(<<[email |-> NoEmail, userID |-> 0, pro |-> FALSE]>>, d,
                  NoEmail, d.salt, d.loggedIn, FALSE, 0)
<1> USE AccountAssumption DEF AccountAssumption, Makes, Is, Sessions
<1>1. ASSUME NEW u \in 0..MaxUsers
      PROVE  Makes(SetUserIDAndToken(u), d, d.email, d.salt, d.loggedIn, d.pro, u)
  <2> WITNESS [d EXCEPT !.userID = u, !.token = u]
  <2> QED BY SettersEnd
<1>2. ASSUME NEW b \in BOOLEAN
      PROVE  Makes(SetLoggedIn(b), d, d.email, d.salt, b, d.pro, d.userID)
  <2> WITNESS [d EXCEPT !.loggedIn = b]
  <2> QED BY SettersEnd
<1>3. ASSUME NEW b \in BOOLEAN
      PROVE  Makes(SetProUser(b), d, d.email, d.salt, d.loggedIn, b, d.userID)
  <2> WITNESS [d EXCEPT !.pro = b]
  <2> QED BY SettersEnd
<1>4. ASSUME NEW n \in 0..MaxSalts
      PROVE  Makes(SaveUserSalt(n), d, d.email, n, d.loggedIn, d.pro, d.userID)
  <2> WITNESS [d EXCEPT !.salt = n]
  <2> QED BY SettersEnd
<1>5. ASSUME NEW e \in E
      PROVE  Makes(SetEmail(e), d, IF e = NoEmail THEN d.email ELSE e, d.salt, d.loggedIn, d.pro,
                   d.userID)
  <2> WITNESS IF e = NoEmail THEN d ELSE [d EXCEPT !.email = e]
  <2> QED BY SettersEnd
<1>6. ASSUME NEW n \in 0..MaxSalts, NEW e \in E
      PROVE  Makes(<<[salt |-> n, email |-> e]>>, d, e, n, d.loggedIn, d.pro, d.userID)
  <2> WITNESS [d EXCEPT !.salt = n, !.email = e]
  <2> QED BY SettersEnd
<1>7. Makes(<<[email |-> NoEmail, userID |-> 0, pro |-> FALSE]>>, d,
            NoEmail, d.salt, d.loggedIn, FALSE, 0)
  <2> DEFINE s == [d EXCEPT !.email = NoEmail, !.userID = 0, !.pro = FALSE]
  <2>1. s \in Sessions
    <3>1. NoEmail \in E /\ 0 \in 0..MaxUsers
      BY DEF E
    <3> QED BY <3>1
  <2>2. /\ s.email = NoEmail /\ s.salt = d.salt /\ s.loggedIn = d.loggedIn /\ s.pro = FALSE
        /\ s.userID = 0
    OBVIOUS
  <2>3. Ends(<<[email |-> NoEmail, userID |-> 0, pro |-> FALSE]>>, d, s)
    BY SettersEnd
  <2> HIDE DEF s, Sessions
  <2> QED BY <2>1, <2>2, <2>3
<1> QED BY <1>1, <1>2, <1>3, <1>4, <1>5, <1>6, <1>7

\* One list of transactions and then another.
LEMMA MakesJoined ==
  ASSUME NEW q \in Seq(Transaction), NEW r \in Seq(Transaction), NEW d,
         NEW e1, NEW n1, NEW l1, NEW p1, NEW u1, NEW e2, NEW n2, NEW l2, NEW p2, NEW u2,
         Makes(q, d, e1, n1, l1, p1, u1),
         \A m : Is(m, e1, n1, l1, p1, u1) => Makes(r, m, e2, n2, l2, p2, u2)
  PROVE  Makes(q \o r, d, e2, n2, l2, p2, u2)
<1>1. PICK m : Ends(q, d, m) /\ Is(m, e1, n1, l1, p1, u1)
  BY DEF Makes
<1>2. PICK s : Ends(r, m, s) /\ Is(s, e2, n2, l2, p2, u2)
  BY <1>1 DEF Makes
<1>3. Ends(q \o r, d, s)
  BY <1>1, <1>2, EndsJoined
<1> QED BY <1>2, <1>3 DEF Makes

\* The lists that answers leave.
LEMMA ClearMakes ==
  ASSUME NEW d \in Sessions
  PROVE  Makes(ClearLocalUserData, d, NoEmail, 0, FALSE, FALSE, d.userID)
<1> DEFINE a == <<[salt |-> 0, email |-> NoEmail]>>
           b == a \o SetLoggedIn(FALSE)
<1>0. NoEmail \in E /\ 0 \in 0..MaxSalts
  BY AccountAssumption DEF AccountAssumption, E
<1>1. /\ a \in Seq(Transaction) /\ SetLoggedIn(FALSE) \in Seq(Transaction)
      /\ SetProUser(FALSE) \in Seq(Transaction) /\ b \in Seq(Transaction)
  <2>1. a \in Todo /\ SetLoggedIn(FALSE) \in Todo /\ SetProUser(FALSE) \in Todo
    BY <1>0, Setters
  <2> QED BY <2>1, Joined DEF Todo
<1>2. Makes(a, d, NoEmail, 0, d.loggedIn, d.pro, d.userID)
  BY <1>0, SettersMake
<1>3. \A m : Is(m, NoEmail, 0, d.loggedIn, d.pro, d.userID)
            => Makes(SetLoggedIn(FALSE), m, NoEmail, 0, FALSE, d.pro, d.userID)
  BY SettersMake DEF Is
<1>4. \A m : Is(m, NoEmail, 0, FALSE, d.pro, d.userID)
            => Makes(SetProUser(FALSE), m, NoEmail, 0, FALSE, FALSE, d.userID)
  BY SettersMake DEF Is
<1> HIDE DEF a
<1>5. Makes(b, d, NoEmail, 0, FALSE, d.pro, d.userID)
  BY <1>1, <1>2, <1>3, MakesJoined
<1> HIDE DEF b
<1>6. Makes(b \o SetProUser(FALSE), d, NoEmail, 0, FALSE, FALSE, d.userID)
  BY <1>1, <1>4, <1>5, MakesJoined
<1> QED BY <1>6 DEF ClearLocalUserData, b, a

LEMMA DeleteMakes ==
  ASSUME NEW d \in Sessions
  PROVE  Makes(<<[email |-> NoEmail, userID |-> 0, pro |-> FALSE]>> \o ClearLocalUserData, d,
               NoEmail, 0, FALSE, FALSE, 0)
<1> DEFINE a == <<[email |-> NoEmail, userID |-> 0, pro |-> FALSE]>>
<1>1. a \in Seq(Transaction) /\ ClearLocalUserData \in Seq(Transaction)
  BY Setters, Compounds DEF Todo
<1>2. Makes(a, d, NoEmail, d.salt, d.loggedIn, FALSE, 0)
  BY SettersMake
<1>3. \A m : Is(m, NoEmail, d.salt, d.loggedIn, FALSE, 0)
            => Makes(ClearLocalUserData, m, NoEmail, 0, FALSE, FALSE, 0)
  BY ClearMakes DEF Is
<1> HIDE DEF a
<1>4. Makes(a \o ClearLocalUserData, d, NoEmail, 0, FALSE, FALSE, 0)
  BY <1>1, <1>2, <1>3, MakesJoined
<1> QED BY <1>4 DEF a

LEMMA DetailMakes ==
  ASSUME ServerOK, NEW d \in Sessions, NEW u \in Users, NEW e \in E
  PROVE  Makes(CacheUserDetail(u, e), d, IF e = NoEmail THEN d.email ELSE e, d.salt, d.loggedIn,
               server.pro[u], u)
<1> DEFINE x == IF e = NoEmail THEN d.email ELSE e
           p == server.pro[u]
           a == SetEmail(e)
           b == a \o SetProUser(p)
<1>1. p \in BOOLEAN /\ u \in 0..MaxUsers
  BY AccountAssumption DEF ServerOK, Users, AccountAssumption
<1>2. /\ a \in Seq(Transaction) /\ SetProUser(p) \in Seq(Transaction)
      /\ SetUserIDAndToken(u) \in Seq(Transaction) /\ b \in Seq(Transaction)
  BY <1>1, Setters, Joined DEF Todo
<1>3. Makes(a, d, x, d.salt, d.loggedIn, d.pro, d.userID)
  BY SettersMake
<1> HIDE DEF a, x, p
<1>4. \A m : Is(m, x, d.salt, d.loggedIn, d.pro, d.userID)
            => Makes(SetProUser(p), m, x, d.salt, d.loggedIn, p, d.userID)
  BY <1>1, SettersMake DEF Is
<1>5. \A m : Is(m, x, d.salt, d.loggedIn, p, d.userID)
            => Makes(SetUserIDAndToken(u), m, x, d.salt, d.loggedIn, p, u)
  BY <1>1, SettersMake DEF Is
<1>6. Makes(b, d, x, d.salt, d.loggedIn, p, d.userID)
  BY <1>2, <1>3, <1>4, MakesJoined
<1> HIDE DEF b
<1>7. Makes(b \o SetUserIDAndToken(u), d, x, d.salt, d.loggedIn, p, u)
  BY <1>2, <1>5, <1>6, MakesJoined
<1> QED BY <1>7 DEF CacheUserDetail, a, b, x, p

LEMMA LoginMakes ==
  ASSUME ServerOK, NEW d \in Sessions, NEW u \in Users, NEW e \in Emails, NEW n \in 0..MaxSalts
  PROVE  Makes(SetLoggedIn(TRUE) \o SaveUserSalt(n) \o CacheUserDetail(u, e), d,
               e, n, TRUE, server.pro[u], u)
<1> DEFINE b == SetLoggedIn(TRUE) \o SaveUserSalt(n)
<1>1. /\ SetLoggedIn(TRUE) \in Seq(Transaction) /\ SaveUserSalt(n) \in Seq(Transaction)
      /\ CacheUserDetail(u, e) \in Seq(Transaction) /\ b \in Seq(Transaction)
  BY Setters, Compounds, Joined DEF Todo, E
<1>2. Makes(SetLoggedIn(TRUE), d, d.email, d.salt, TRUE, d.pro, d.userID)
  BY SettersMake
<1>3. \A m : Is(m, d.email, d.salt, TRUE, d.pro, d.userID)
            => Makes(SaveUserSalt(n), m, d.email, n, TRUE, d.pro, d.userID)
  BY SettersMake DEF Is
<1>4. \A m : Is(m, d.email, n, TRUE, d.pro, d.userID)
            => Makes(CacheUserDetail(u, e), m, e, n, TRUE, server.pro[u], u)
  BY DetailMakes, AccountAssumption DEF Is, E, AccountAssumption
<1>5. Makes(b, d, d.email, n, TRUE, d.pro, d.userID)
  BY <1>1, <1>2, <1>3, MakesJoined
<1> HIDE DEF b
<1>6. Makes(b \o CacheUserDetail(u, e), d, e, n, TRUE, server.pro[u], u)
  BY <1>1, <1>4, <1>5, MakesJoined
<1> QED BY <1>6 DEF b

LEMMA SignUpMakes ==
  ASSUME NEW d \in Sessions, NEW e \in Emails, NEW n \in 0..MaxSalts
  PROVE  Makes(<<[salt |-> n, email |-> e]>> \o SetLoggedIn(TRUE), d, e, n, TRUE, d.pro, d.userID)
<1> DEFINE a == <<[salt |-> n, email |-> e]>>
<1>1. a \in Seq(Transaction) /\ SetLoggedIn(TRUE) \in Seq(Transaction)
  BY Setters DEF Todo, E
<1>2. Makes(a, d, e, n, d.loggedIn, d.pro, d.userID)
  BY SettersMake DEF E
<1>3. \A m : Is(m, e, n, d.loggedIn, d.pro, d.userID)
            => Makes(SetLoggedIn(TRUE), m, e, n, TRUE, d.pro, d.userID)
  BY SettersMake DEF Is
<1> HIDE DEF a
<1>4. Makes(a \o SetLoggedIn(TRUE), d, e, n, TRUE, d.pro, d.userID)
  BY <1>1, <1>2, <1>3, MakesJoined
<1> QED BY <1>4 DEF a

LEMMA LinkedMakes ==
  ASSUME NEW d \in Sessions, NEW u \in 0..MaxUsers
  PROVE  /\ Makes(SetUserIDAndToken(u) \o << >>, d, d.email, d.salt, d.loggedIn, d.pro, u)
         /\ Makes(SetUserIDAndToken(u) \o SetLoggedIn(TRUE), d, d.email, d.salt, TRUE, d.pro, u)
<1>1. SetUserIDAndToken(u) \in Seq(Transaction) /\ SetLoggedIn(TRUE) \in Seq(Transaction)
  BY Setters DEF Todo
<1>2. << >> \in Seq(Transaction)
  OBVIOUS
<1>3. Makes(SetUserIDAndToken(u), d, d.email, d.salt, d.loggedIn, d.pro, u)
  BY SettersMake
<1>4. \A m : Is(m, d.email, d.salt, d.loggedIn, d.pro, u)
            => Makes(<< >>, m, d.email, d.salt, d.loggedIn, d.pro, u)
  BY EndsNone DEF Is, Makes
<1>5. \A m : Is(m, d.email, d.salt, d.loggedIn, d.pro, u)
            => Makes(SetLoggedIn(TRUE), m, d.email, d.salt, TRUE, d.pro, u)
  BY SettersMake DEF Is
<1>6. Makes(SetUserIDAndToken(u) \o << >>, d, d.email, d.salt, d.loggedIn, d.pro, u)
  BY <1>2, <1>1, <1>3, <1>4, MakesJoined
<1>7. Makes(SetUserIDAndToken(u) \o SetLoggedIn(TRUE), d, d.email, d.salt, TRUE, d.pro, u)
  BY <1>1, <1>3, <1>5, MakesJoined
<1> QED BY <1>6, <1>7

-----------------------------------------------------------------------------
(* Users the server has made.                                              *)

\* Nothing names a user the server has not made, and none of those is pro.
ServersKnow ==
  /\ captured \in 0..server.users
  /\ \A e \in Emails : server.account[e].user \in 0..server.users
  /\ \A u \in Users : server.pro[u] => u \in 0..server.users

\* What is left to write, of the users 1..n; Gone is written by a deletion.
Keeping(n) ==
  [loggedIn : BOOLEAN] \cup [pro : BOOLEAN] \cup [salt : 0..MaxSalts] \cup [email : E]
  \cup [salt : 0..MaxSalts, email : E] \cup {[userID |-> u, token |-> u] : u \in 1..n}
Gone == [email : E, userID : {0}, pro : BOOLEAN]

\* Signed out or deleted: a new user is to come.
Leaves(k) == k.at = "create" \/ (k.at = "write" /\ k.next = "create")

Sound(k, n) ==
  /\ k.uid \in 0..n
  /\ k.at = "idle" => k = Idle
  /\ k.at # "write" => k.todo = << >>
  /\ k.at = "create" => k.wrote
  /\ k.at = "write" /\ k.next = "ident" => k.op = "purchase"
  /\ k.todo \in Seq(Keeping(n) \cup IF k.at = "write" /\ k.next = "create" THEN Gone ELSE {})

CallsSound == \A c \in Calls : Sound(call[c], server.users)

KInv ==
  /\ IInv /\ ServersKnow /\ CallsSound
  /\ db.userID \in 0..server.users
  /\ up \in BOOLEAN /\ (~up => \A c \in Calls : call[c] = Idle)

\* Users are never unmade.
LEMMA UsersGrow ==
  ASSUME IInv, [Next]_vars
  PROVE  server.users \in Nat /\ server'.users \in Nat /\ server.users <= server'.users
<1>1. server.users \in Nat /\ server'.users \in Nat
  BY ServerStep, AccountAssumption DEF IInv, ServerOK, AccountAssumption
<1>2. server'.users \in {server.users, NewUser}
  <2> USE DEF IInv, ServerOK
  <2>1. CASE UNCHANGED server
    BY <2>1
  <2>2. CASE Crash \/ Elsewhere
    BY <2>1, <2>2 DEF Crash, Exit, Elsewhere
  <2>3. ASSUME NEW c \in Calls, NewSessionModel(c) \/ Invoke(c) PROVE UNCHANGED server
    BY <2>3 DEF NewSessionModel, Invoke, Begin, BeginCredentials, BeginRecovery, BeginSignOut,
                BeginWithProof, BeginChangeEmail, BeginLink, BeginProCall, BeginReseller, BeginReport
  <2>4. ASSUME NEW c \in Calls, Step(c) PROVE server'.users \in {server.users, NewUser}
    <3>1. CASE InitSessionModel(c) \/ Write(c) \/ ReadUserID(c) \/ GetSalt(c) \/ Fail(c)
               \/ ValidateRecoveryByEmail(c) \/ LinkCodeApprove(c) \/ UserDetail(c)
      BY <2>1, <3>1 DEF InitSessionModel, Write, ReadUserID, GetSalt, Fail,
                   ValidateRecoveryByEmail, LinkCodeApprove, UserDetail
    <3>2. CASE RetryCreateUser(c) \/ UserCreate(c)
      BY <3>2 DEF RetryCreateUser, Exit, UserCreate, Reply
    <3>3. CASE SignUp(c)
      BY <3>3 DEF SignUp, SrpSignUp
    <3>4. CASE Login(c) \/ SignOut(c) \/ DeleteAccount(c)
      BY <3>4 DEF Login, SignOut, DeleteAccount, Reply
    <3>5. CASE StartRecoveryByEmail(c) \/ CompleteRecoveryByEmail(c) \/ StartChangeEmail(c)
               \/ CompleteChangeEmail(c)
      BY <3>5 DEF StartRecoveryByEmail, CompleteRecoveryByEmail, StartChangeEmail,
                  CompleteChangeEmail, Reply, TakesSalt
    <3>6. CASE LinkCodeRedeem(c) \/ ValidateDeviceRecoveryCode(c) \/ UserLinkRemove(c) \/ Purchase(c)
      BY <3>6 DEF LinkCodeRedeem, ValidateDeviceRecoveryCode, Linked, UserLinkRemove, Purchase,
                  PurchaseRequest, Reply
    <3> QED BY <2>4, <3>1, <3>2, <3>3, <3>4, <3>5, <3>6 DEF Step
  <2>5. CASE UNCHANGED vars
    BY <2>1, <2>5 DEF vars
  <2> QED BY <2>1, <2>2, <2>3, <2>4, <2>5 DEF Next
<1> QED BY <1>1, <1>2 DEF NewUser

LEMMA ServersKnowStep == KInv /\ [Next]_vars => ServersKnow'
<1> SUFFICES ASSUME KInv, [Next]_vars PROVE ServersKnow'
  OBVIOUS
<1> USE DEF KInv, IInv
<1>n. server.users \in Nat /\ server'.users \in Nat /\ server.users <= server'.users
  BY UsersGrow
<1>t. ServerOK'
  BY ServerStep
<1>1. ASSUME captured' \in {captured, 0, db.userID}, server'.account = server.account,
             server'.pro = server.pro
      PROVE  ServersKnow'
  <2>1. captured' \in 0..server'.users
    BY <1>n, <1>1 DEF ServersKnow
  <2>2. \A e \in Emails : server.account[e].user \in 0..server'.users
    BY <1>n DEF ServersKnow
  <2>3. \A u \in Users : server.pro[u] => u \in 0..server'.users
    BY <1>n DEF ServersKnow
  <2> QED BY <1>1, <2>1, <2>2, <2>3 DEF ServersKnow
<1>2. ASSUME captured' = captured, server'.pro = server.pro,
             \A e \in Emails : \/ server'.account[e].user \in {0, server'.users}
                               \/ server'.account[e].user = captured
                               \/ \E f \in Emails : server'.account[e].user = server.account[f].user
      PROVE  ServersKnow'
  <2>1. captured \in 0..server'.users
    BY <1>n DEF ServersKnow
  <2>2. \A e \in Emails : server.account[e].user \in 0..server'.users
    BY <1>n DEF ServersKnow
  <2>3. \A u \in Users : server.pro[u] => u \in 0..server'.users
    BY <1>n DEF ServersKnow
  <2>4. 0 \in 0..server'.users /\ server'.users \in 0..server'.users
    BY <1>n
  <2> QED BY <1>2, <2>1, <2>2, <2>3, <2>4 DEF ServersKnow
<1>3. CASE Crash \/ Elsewhere \/ UNCHANGED vars
  BY <1>1, <1>3 DEF Crash, Exit, Elsewhere, ServerOK, vars
<1>4. ASSUME NEW c \in Calls, NewSessionModel(c) \/ Invoke(c) PROVE ServersKnow'
  BY <1>1, <1>4 DEF NewSessionModel, Invoke, Begin, BeginCredentials, BeginRecovery, BeginSignOut,
              BeginWithProof, BeginChangeEmail, BeginLink, BeginProCall, BeginReseller, BeginReport
<1>5. ASSUME NEW c \in Calls,
             \/ InitSessionModel(c) \/ Write(c) \/ ReadUserID(c) \/ GetSalt(c) \/ Fail(c)
             \/ ValidateRecoveryByEmail(c) \/ LinkCodeApprove(c) \/ UserDetail(c)
      PROVE  ServersKnow'
  BY <1>1, <1>5 DEF InitSessionModel, Write, ReadUserID, GetSalt, Fail, ValidateRecoveryByEmail,
              LinkCodeApprove, UserDetail
<1>6. ASSUME NEW c \in Calls, RetryCreateUser(c) \/ UserCreate(c) PROVE ServersKnow'
  <2>1. server' \in {server, [server EXCEPT !.users = NewUser]} /\ captured' \in {captured, 0}
    BY <1>6 DEF RetryCreateUser, UserCreate, Exit, Reply
  <2> QED BY <1>1, <2>1 DEF ServerOK
<1>7. ASSUME NEW c \in Calls, SignUp(c) PROVE ServersKnow'
  <2> DEFINE e == call[c].email
  <2>1. /\ server' = [server EXCEPT !.account[e] = [user |-> UserHeader, salt |-> NewSalt],
                                 !.salts = NewSalt, !.linked = @ \cup {UserHeader},
                                 !.users = IF captured = 0 THEN NewUser ELSE @]
        /\ captured' = captured
    BY <1>7 DEF SignUp, SrpSignUp
  <2>2. server'.pro = server.pro
        /\ server'.account = [server.account EXCEPT ![e] = [user |-> UserHeader, salt |-> NewSalt]]
        /\ server'.users = IF captured = 0 THEN NewUser ELSE server.users
    BY <2>1 DEF ServerOK
  <2>3. UserHeader \in {captured, server'.users}
    BY <2>2 DEF UserHeader
  <2>4. \A f \in Emails : server'.account[f].user \in {server.account[f].user, UserHeader}
    BY <2>2 DEF ServerOK
  <2> QED BY <1>2, <2>1, <2>2, <2>3, <2>4
<1>8. ASSUME NEW c \in Calls,
             \/ Login(c) \/ SignOut(c) \/ StartRecoveryByEmail(c) \/ StartChangeEmail(c)
             \/ LinkCodeRedeem(c) \/ ValidateDeviceRecoveryCode(c) \/ UserLinkRemove(c)
      PROVE  ServersKnow'
  BY <1>1, <1>8 DEF Login, SignOut, StartRecoveryByEmail, StartChangeEmail, LinkCodeRedeem,
        ValidateDeviceRecoveryCode, Linked, UserLinkRemove, Reply, ServerOK
<1>9. ASSUME NEW c \in Calls, DeleteAccount(c) PROVE ServersKnow'
  <2> DEFINE e == call[c].email
  <2>1. server'.pro = server.pro /\ captured' = captured
        /\ server'.account = [server.account EXCEPT ![e] = NoAccount]
    BY <1>9 DEF DeleteAccount, Reply, ServerOK
  <2>2. \A f \in Emails : server'.account[f].user \in {server.account[f].user, 0}
    BY <2>1 DEF ServerOK, NoAccount
  <2> QED BY <1>2, <2>1, <2>2
<1>10. ASSUME NEW c \in Calls, CompleteRecoveryByEmail(c) PROVE ServersKnow'
  <2> DEFINE e == call[c].email
  <2>0. e \in Emails
    BY <1>10, HasEmail DEF CompleteRecoveryByEmail, Asks, AccountCalls
  <2>1. server' = TakesSalt(e) /\ captured' = captured
    BY <1>10 DEF CompleteRecoveryByEmail, Reply
  <2>2. server'.pro = server.pro
        /\ server'.account = [server.account EXCEPT ![e] = [server.account[e] EXCEPT !.salt = NewSalt]]
    BY <2>1 DEF TakesSalt, ServerOK
  <2>3. server.account[e] \in [user : 0..MaxUsers, salt : 0..MaxSalts]
    BY <2>0, AccountAssumption DEF ServerOK, NoAccount, Users, AccountAssumption
  <2>4. \A f \in Emails : server'.account[f].user = server.account[f].user
    BY <2>2, <2>3 DEF ServerOK
  <2> QED BY <1>2, <2>1, <2>2, <2>4
<1>11. ASSUME NEW c \in Calls, CompleteChangeEmail(c) PROVE ServersKnow'
  <2> DEFINE e == call[c].email
             f == call[c].to
  <2>0. e \in Emails
    BY <1>11, HasEmail DEF CompleteChangeEmail, Asks, AccountCalls
  <2>1. server'.pro = server.pro /\ captured' = captured
        /\ server'.account = [server.account EXCEPT
              ![f] = [user |-> server.account[e].user, salt |-> NewSalt], ![e] = NoAccount]
    BY <1>11 DEF CompleteChangeEmail, ServerOK
  <2>2. \A g \in Emails :
          server'.account[g].user \in {server.account[g].user, server.account[e].user, 0}
    BY <2>1 DEF ServerOK, NoAccount
  <2> QED BY <1>2, <2>0, <2>1, <2>2
<1>12. ASSUME NEW c \in Calls, Purchase(c) PROVE ServersKnow'
  <2>1. captured' = captured /\ server'.account = server.account
        /\ server'.users = server.users
        /\ server'.pro = [server.pro EXCEPT ![call[c].uid] = TRUE]
    BY <1>12 DEF Purchase, PurchaseRequest, Reply, ServerOK
  <2>2. call[c].uid \in 0..server.users
    BY DEF CallsSound, Sound
  <2>3. \A u \in Users : server'.pro[u] => server.pro[u] \/ u = call[c].uid
    BY <2>1 DEF ServerOK
  <2> HIDE DEF Users
  <2> QED BY <2>1, <2>2, <2>3 DEF ServersKnow
<1> QED
  BY <1>3, <1>4, <1>5, <1>6, <1>7, <1>8, <1>9, <1>10, <1>11, <1>12 DEF Next, Step

-----------------------------------------------------------------------------
(* Each goroutine is sound, whatever the others do.                        *)

LEMMA SeqWider ==
  ASSUME NEW S, NEW T, S \subseteq T, NEW q \in Seq(S)
  PROVE  q \in Seq(T)
  OBVIOUS

LEMMA KeepingGrows == \A m, n \in Nat : m <= n => Keeping(m) \subseteq Keeping(n)
<1> SUFFICES ASSUME NEW m \in Nat, NEW n \in Nat, m <= n PROVE Keeping(m) \subseteq Keeping(n)
  OBVIOUS
<1>1. {[userID |-> u, token |-> u] : u \in 1..m} \subseteq {[userID |-> u, token |-> u] : u \in 1..n}
  OBVIOUS
<1> QED BY <1>1 DEF Keeping

LEMMA SoundGrows ==
  ASSUME NEW k, NEW m \in Nat, NEW n \in Nat, m <= n, Sound(k, m)
  PROVE  Sound(k, n)
<1>1. 0..m \subseteq 0..n
  OBVIOUS
<1> DEFINE X == IF k.at = "write" /\ k.next = "create" THEN Gone ELSE {}
<1>2. Keeping(m) \cup X \subseteq Keeping(n) \cup X
  BY KeepingGrows
<1>3. k.todo \in Seq(Keeping(n) \cup X)
  BY <1>2, SeqWider DEF Sound
<1> QED BY <1>1, <1>3 DEF Sound

\* A goroutine becomes another sound one.
LEMMA BecomesSound ==
  ASSUME KInv, [Next]_vars, NEW c \in Calls, NEW k, Sound(k, server'.users),
         call' = [call EXCEPT ![c] = k]
  PROVE  CallsSound'
<1> SUFFICES ASSUME NEW d \in Calls PROVE Sound(call'[d], server'.users)
  BY DEF CallsSound
<1>1. call'[d] = IF d = c THEN k ELSE call[d]
  BY DEF KInv, IInv, CallsOK
<1>2. Sound(call[d], server'.users)
  BY UsersGrow, SoundGrows DEF KInv, CallsSound
<1> QED BY <1>1, <1>2

LEMMA IdleIsSound == \A n \in Nat : Sound(Idle, n)
  BY DEF Sound, Idle

\* What is kept by the setters.
LEMMA SettersKeep ==
  ASSUME NEW n \in Nat
  PROVE  /\ \A u \in 1..n : SetUserIDAndToken(u) \in Seq(Keeping(n))
         /\ \A b \in BOOLEAN : /\ SetLoggedIn(b) \in Seq(Keeping(n))
                               /\ SetProUser(b) \in Seq(Keeping(n))
         /\ \A s \in 0..MaxSalts : SaveUserSalt(s) \in Seq(Keeping(n))
         /\ \A e \in E : SetEmail(e) \in Seq(Keeping(n))
         /\ \A s \in 0..MaxSalts, e \in E : <<[salt |-> s, email |-> e]>> \in Seq(Keeping(n))
         /\ <<[email |-> NoEmail, userID |-> 0, pro |-> FALSE]>> \in Seq(Keeping(n) \cup Gone)
<1>0. ASSUME NEW S, NEW x \in S PROVE <<x>> \in Seq(S)
  OBVIOUS
<1>1. ASSUME NEW u \in 1..n PROVE SetUserIDAndToken(u) \in Seq(Keeping(n))
  <2>1. [userID |-> u, token |-> u] \in Keeping(n)
    BY DEF Keeping
  <2> QED BY <1>0, <2>1 DEF SetUserIDAndToken
<1>2. ASSUME NEW b \in BOOLEAN
      PROVE  SetLoggedIn(b) \in Seq(Keeping(n)) /\ SetProUser(b) \in Seq(Keeping(n))
  <2>1. [loggedIn |-> b] \in Keeping(n) /\ [pro |-> b] \in Keeping(n)
    BY DEF Keeping
  <2> QED BY <1>0, <2>1 DEF SetLoggedIn, SetProUser
<1>3. ASSUME NEW s \in 0..MaxSalts PROVE SaveUserSalt(s) \in Seq(Keeping(n))
  <2>1. [salt |-> s] \in Keeping(n)
    BY DEF Keeping
  <2> QED BY <1>0, <2>1 DEF SaveUserSalt
<1>4. ASSUME NEW e \in E PROVE SetEmail(e) \in Seq(Keeping(n))
  <2>1. [email |-> e] \in Keeping(n)
    BY DEF Keeping
  <2>2. << >> \in Seq(Keeping(n))
    OBVIOUS
  <2> QED BY <1>0, <2>1, <2>2 DEF SetEmail
<1>5. ASSUME NEW s \in 0..MaxSalts, NEW e \in E PROVE <<[salt |-> s, email |-> e]>> \in Seq(Keeping(n))
  <2>1. [salt |-> s, email |-> e] \in Keeping(n)
    BY DEF Keeping
  <2> QED BY <1>0, <2>1
<1>6. <<[email |-> NoEmail, userID |-> 0, pro |-> FALSE]>> \in Seq(Keeping(n) \cup Gone)
  <2>1. NoEmail \in E
    BY DEF E
  <2>2. [email |-> NoEmail, userID |-> 0, pro |-> FALSE] \in Gone
    BY <2>1 DEF Gone
  <2> QED BY <1>0, <2>2
<1> QED BY <1>1, <1>2, <1>3, <1>4, <1>5, <1>6

LEMMA KeptJoined ==
  ASSUME NEW S, NEW q \in Seq(S), NEW r \in Seq(S)
  PROVE  q \o r \in Seq(S)
  OBVIOUS

LEMMA CompoundsKeep ==
  ASSUME NEW n \in Nat
  PROVE  /\ ClearLocalUserData \in Seq(Keeping(n))
         /\ ServerOK => \A u \in Users, e \in E :
              u \in 1..n => CacheUserDetail(u, e) \in Seq(Keeping(n))
<1>1. ClearLocalUserData \in Seq(Keeping(n))
  <2>0. NoEmail \in E /\ 0 \in 0..MaxSalts
    BY AccountAssumption DEF AccountAssumption, E
  <2>1. /\ <<[salt |-> 0, email |-> NoEmail]>> \in Seq(Keeping(n))
        /\ SetLoggedIn(FALSE) \in Seq(Keeping(n)) /\ SetProUser(FALSE) \in Seq(Keeping(n))
    BY <2>0, SettersKeep
  <2> QED BY <2>1, KeptJoined DEF ClearLocalUserData
<1>2. ASSUME ServerOK, NEW u \in Users, NEW e \in E, u \in 1..n
      PROVE  CacheUserDetail(u, e) \in Seq(Keeping(n))
  <2>1. server.pro[u] \in BOOLEAN
    BY <1>2 DEF ServerOK
  <2>2. /\ SetEmail(e) \in Seq(Keeping(n)) /\ SetProUser(server.pro[u]) \in Seq(Keeping(n))
        /\ SetUserIDAndToken(u) \in Seq(Keeping(n))
    BY <1>2, <2>1, SettersKeep
  <2> QED BY <2>2, KeptJoined DEF CacheUserDetail
<1> QED BY <1>1, <1>2

\* Answers that leave something sound to write.
LEMMA AnsweredIsSound ==
  ASSUME KInv, [Next]_vars, NEW c \in Calls, NEW txs, NEW next \in {"idle", "refresh", "create"},
         txs \in Seq(Keeping(server'.users) \cup IF next = "create" THEN Gone ELSE {}),
         Answered(c, txs, next)
  PROVE  CallsSound'
<1> DEFINE k == [call[c] EXCEPT !.todo = txs, !.at = "write", !.next = next]
<1>1. call[c] \in Call /\ Sound(call[c], server'.users)
  BY UsersGrow, SoundGrows DEF KInv, IInv, CallsOK, CallsSound
<1>2. /\ k.uid = call[c].uid /\ k.at = "write" /\ k.todo = txs /\ k.next = next
  BY <1>1 DEF Call
<1>3. call' = [call EXCEPT ![c] = k]
  BY <1>1 DEF Answered
<1> HIDE DEF k
<1>4. Sound(k, server'.users)
  BY <1>1, <1>2 DEF Sound
<1> QED BY <1>3, <1>4, BecomesSound

LEMMA EndIsSound == ASSUME KInv, [Next]_vars, NEW c \in Calls, End(c) PROVE CallsSound'
  BY IdleIsSound, UsersGrow, BecomesSound DEF End, KInv

LEMMA ReplyIsSound ==
  ASSUME KInv, [Next]_vars, NEW c \in Calls, NEW srv, NEW txs,
         NEW next \in {"idle", "refresh", "create"},
         txs \in Seq(Keeping(server'.users) \cup IF next = "create" THEN Gone ELSE {}),
         Reply(c, srv, txs, next)
  PROVE  CallsSound'
  BY AnsweredIsSound, EndIsSound DEF Reply

LEMMA AskingIsSound ==
  ASSUME NEW n \in Nat, NEW k, k.uid \in 0..n, k.at \notin {"idle", "write"}, k.todo = << >>,
         k.at = "create" => k.wrote
  PROVE  Sound(k, n)
<1>1. << >> \in Seq(Keeping(n) \cup {})
  OBVIOUS
<1> QED BY <1>1 DEF Sound

LEMMA BeginIsSound ==
  ASSUME KInv, [Next]_vars, NEW c \in Calls, Invoke(c)
  PROVE  CallsSound'
<1> USE DEF KInv, IInv
<1>n. server'.users \in Nat /\ server.users \in Nat /\ server.users <= server'.users
  BY UsersGrow
<1>i. Idle \in Call /\ Sound(Idle, server'.users) /\ Idle.todo = << >> /\ Idle.uid = 0
  BY <1>n, IdleIsAble, IdleIsSound DEF Idle
<1>1. ASSUME NEW k, Begin(c, k), k.uid \in 0..server'.users, k.at \notin {"idle", "create", "write"},
             k.todo = << >>
      PROVE  CallsSound'
  <2>1. Sound(k, server'.users)
    BY <1>1, <1>n, AskingIsSound
  <2> QED BY <1>1, <2>1, BecomesSound DEF Begin
<1>f. ASSUME NEW op, NEW at, NEW e
      PROVE  /\ ForEmail(op, at, e).uid = 0 /\ ForEmail(op, at, e).at = at
             /\ ForEmail(op, at, e).todo = << >> /\ ForEmail(op, at, e).op = op
             /\ ForEmail(op, at, e).next = "idle"
  BY DEF ForEmail, Idle
<1>2. CASE BeginCredentials(c) \/ BeginRecovery(c) \/ BeginLink(c) \/ BeginProCall(c)
  <2>1. PICK op \in Operation, at \in {"salt", "ask", "ident"}, e \in E :
          Begin(c, ForEmail(op, at, e))
    BY <1>2 DEF BeginCredentials, BeginRecovery, BeginLink, BeginProCall, Operation, AccountCalls,
                E
  <2> QED BY <1>1, <1>f, <1>n, <2>1
<1>3. CASE BeginSignOut(c)
  <2> DEFINE k == [ForEmail("signout", "ask", db.email) EXCEPT !.uid = db.userID]
  <2>1. k.uid = db.userID /\ k.at = "ask" /\ k.todo = << >>
    BY DEF ForEmail, Idle
  <2>2. db.userID \in 0..server'.users
    BY <1>n
  <2> QED BY <1>1, <1>3, <2>1, <2>2 DEF BeginSignOut
<1>4. CASE BeginWithProof(c)
  <2> DEFINE k(op) == [ForEmail(op, IF CachedSalt = 0 THEN "salt" ELSE "ask", db.email)
                         EXCEPT !.salt = CachedSalt]
  <2>1. PICK op \in {"delete", "startchange"} : Begin(c, k(op))
    BY <1>4 DEF BeginWithProof
  <2>2. k(op).uid = 0 /\ k(op).at \in {"salt", "ask"} /\ k(op).todo = << >>
    BY DEF ForEmail, Idle
  <2> HIDE DEF k
  <2> QED BY <1>1, <1>n, <2>1, <2>2
<1>5. CASE BeginChangeEmail(c)
  <2> DEFINE k(e) == [ForEmail("change", "ask", db.email) EXCEPT !.to = e]
  <2>1. PICK e \in Emails : Begin(c, k(e))
    BY <1>5 DEF BeginChangeEmail
  <2>2. k(e).uid = 0 /\ k(e).at = "ask" /\ k(e).todo = << >>
    BY DEF ForEmail, Idle
  <2> HIDE DEF k
  <2> QED BY <1>1, <1>n, <2>1, <2>2
<1>6. ASSUME NEW k, Begin(c, k), k.uid = 0, k.at = "write", NEW e \in E, k.todo = SetEmail(e),
             k.next # "create", k.next = "ident" => k.op = "purchase"
      PROVE  CallsSound'
  <2>1. k.todo \in Seq(Keeping(server'.users) \cup {})
    BY <1>6, <1>n, SettersKeep
  <2>2. Sound(k, server'.users)
    BY <1>6, <1>n, <2>1 DEF Sound
  <2> QED BY <1>6, <2>2, BecomesSound DEF Begin
<1>7. CASE BeginReseller(c)
  <2> DEFINE k(e) == [ForEmail("purchase", "write", NoEmail) EXCEPT !.todo = SetEmail(e),
                                                                   !.next = "ident"]
  <2>1. PICK e \in Emails : Begin(c, k(e))
    BY <1>7 DEF BeginReseller
  <2>2. /\ k(e).uid = 0 /\ k(e).at = "write" /\ k(e).todo = SetEmail(e) /\ k(e).next = "ident"
        /\ k(e).op = "purchase" /\ e \in E
    BY DEF ForEmail, Idle, E
  <2> QED BY <1>6, <2>1, <2>2
<1>8. CASE BeginReport(c)
  <2> DEFINE k(e) == [ForEmail("report", "write", NoEmail) EXCEPT !.todo = SetEmail(e)]
  <2>1. PICK e \in Emails : Begin(c, k(e))
    BY <1>8 DEF BeginReport
  <2>2. /\ k(e).uid = 0 /\ k(e).at = "write" /\ k(e).todo = SetEmail(e) /\ k(e).next = "idle"
        /\ e \in E
    BY DEF ForEmail, Idle, E
  <2> QED BY <1>6, <2>1, <2>2
<1> QED BY <1>2, <1>3, <1>4, <1>5, <1>7, <1>8 DEF Invoke

LEMMA StepIsSound ==
  ASSUME KInv, [Next]_vars, NEW c \in Calls, Step(c)
  PROVE  CallsSound'
<1> USE DEF KInv, IInv
<1>n. server'.users \in Nat /\ server.users \in Nat /\ server.users <= server'.users
  BY UsersGrow
<1>c. /\ call[c] \in Call /\ Able(call[c]) /\ Sound(call[c], server.users)
      /\ Sound(call[c], server'.users)
  BY <1>n, SoundGrows DEF CallsOK, CallsSound
<1>g. \A S : Keeping(server'.users) \cup {} = Keeping(server'.users)
  OBVIOUS
<1>s. NewUser = server.users + 1 /\ (CanSalt => NewSalt \in 0..MaxSalts)
  BY AccountAssumption DEF AccountAssumption, ServerOK, NewUser, NewSalt, CanSalt
<1>1. CASE InitSessionModel(c)
  <2> DEFINE k == [Idle EXCEPT !.op = IF db.userID = 0 THEN "retry" ELSE "refresh",
                               !.at = IF db.userID = 0 THEN "ask" ELSE "ident"]
  <2>1. k.uid = 0 /\ k.at \in {"ask", "ident"} /\ k.todo = << >>
    BY DEF Idle
  <2>2. call' = [call EXCEPT ![c] = k]
    BY <1>1 DEF InitSessionModel
  <2> HIDE DEF k
  <2>3. Sound(k, server'.users)
    BY <1>n, <2>1, AskingIsSound
  <2> QED BY <2>2, <2>3, BecomesSound
<1>2. CASE RetryCreateUser(c)
  <2>1. CASE Exit
    BY <1>n, <2>1, IdleIsSound DEF Exit, CallsSound
  <2>2. CASE UNCHANGED call
    BY <1>n, <2>2, SoundGrows DEF CallsSound
  <2>3. CASE Answered(c, SetUserIDAndToken(NewUser), "idle") /\ server'.users = NewUser
    BY <1>n, <1>s, <2>3, SettersKeep, AnsweredIsSound
  <2> QED BY <1>2, <2>1, <2>2, <2>3 DEF RetryCreateUser, ServerOK
<1>3. CASE Write(c)
  <2> DEFINE rest == Tail(call[c].todo)
             more == [call[c] EXCEPT !.todo = rest, !.wrote = TRUE]
             on == [call[c] EXCEPT !.todo = rest, !.wrote = TRUE, !.at = call[c].next]
             S == Keeping(server'.users)
                    \cup IF call[c].at = "write" /\ call[c].next = "create" THEN Gone ELSE {}
  <2>1. rest \in Seq(S)
    <3>1. call[c].todo \in Seq(S) /\ call[c].todo # << >>
      BY <1>c, <1>3 DEF Write, Able, Sound
    <3> QED BY <3>1
  <2>2. CASE rest # << >>
    <3>1. /\ more.uid = call[c].uid /\ more.at = "write" /\ more.todo = rest
          /\ more.next = call[c].next /\ more.op = call[c].op
      BY <1>3, <1>c DEF Write, Call
    <3>2. Sound(more, server'.users)
      BY <1>3, <1>c, <2>1, <3>1 DEF Sound, Write
    <3>3. call' = [call EXCEPT ![c] = more]
      BY <1>3, <2>2 DEF Write
    <3> QED BY <3>2, <3>3, BecomesSound
  <2>3. CASE rest = << >> /\ call[c].next = "idle"
    BY <1>n, <1>3, <2>3, IdleIsSound, BecomesSound DEF Write
  <2>4. CASE rest = << >> /\ call[c].next # "idle"
    <3>1. call[c].next \in {"ident", "create", "refresh"}
      BY <1>c, <2>4 DEF Call, After
    <3>2. on.uid = call[c].uid /\ on.at = call[c].next /\ on.todo = << >> /\ on.wrote
      BY <1>c, <2>4 DEF Call
    <3>3. call' = [call EXCEPT ![c] = on]
      BY <1>3, <2>4 DEF Write
    <3> HIDE DEF on
    <3>4. on.uid \in 0..server'.users
      BY <1>c, <3>2 DEF Sound
    <3>5. Sound(on, server'.users)
      BY <1>n, <3>1, <3>2, <3>4, AskingIsSound
    <3> QED BY <3>3, <3>5, BecomesSound
  <2> QED BY <2>2, <2>3, <2>4
<1>4. CASE ReadUserID(c)
  <2> DEFINE k == [call[c] EXCEPT !.uid = db.userID, !.at = "ask",
                                  !.op = IF call[c].at = "refresh" THEN "refresh" ELSE @]
  <2>1. k.uid = db.userID /\ k.at = "ask" /\ k.todo = call[c].todo /\ call[c].at # "write"
    BY <1>4, <1>c DEF Call, ReadUserID
  <2>2. Sound(k, server'.users)
    BY <1>n, <1>c, <2>1 DEF Sound
  <2>3. call' = [call EXCEPT ![c] = k]
    BY <1>4 DEF ReadUserID
  <2> QED BY <2>2, <2>3, BecomesSound
<1>5. CASE GetSalt(c)
  <2> DEFINE k == [call[c] EXCEPT !.salt = server.account[call[c].email].salt, !.at = "ask"]
  <2>1. k.uid = call[c].uid /\ k.at = "ask" /\ k.todo = call[c].todo /\ call[c].at = "salt"
    BY <1>5, <1>c DEF Call, GetSalt
  <2>2. Sound(k, server'.users)
    BY <1>c, <2>1 DEF Sound
  <2>3. call' = [call EXCEPT ![c] = k]
    BY <1>5 DEF GetSalt
  <2> QED BY <2>2, <2>3, BecomesSound
<1>6. CASE Fail(c)
  BY <1>6, EndIsSound DEF Fail
<1>7. CASE SignUp(c)
  <2>1. call[c].email \in E /\ NewSalt \in 0..MaxSalts
    BY <1>7, <1>s, <1>c DEF SignUp, SrpSignUp, Call
  <2>2. <<[salt |-> NewSalt, email |-> call[c].email]>> \o SetLoggedIn(TRUE)
          \in Seq(Keeping(server'.users))
    BY <1>n, <2>1, SettersKeep, KeptJoined
  <2> QED BY <1>7, <2>2, AnsweredIsSound, EndIsSound DEF SignUp
<1>8. CASE Login(c)
  <2> DEFINE e == call[c].email
             u == server.account[e].user
  <2>1. e \in Emails /\ e \in E
    BY <1>8, HasEmail DEF Login, Asks, AccountCalls, E
  <2>2. u \in Users /\ u \in 1..server'.users
    BY <1>8, <1>n, <2>1, AccountAssumption
    DEF AccountAssumption, Login, Proves, ServerOK, ServersKnow, Users
  <2>3. call[c].salt \in 0..MaxSalts
    BY <1>c DEF Call
  <2>4. /\ SetLoggedIn(TRUE) \in Seq(Keeping(server'.users))
        /\ SaveUserSalt(call[c].salt) \in Seq(Keeping(server'.users))
        /\ CacheUserDetail(u, e) \in Seq(Keeping(server'.users))
        /\ DeviceLimitFlow(u) \in Seq(Keeping(server'.users))
    BY <1>n, <2>1, <2>2, <2>3, SettersKeep, CompoundsKeep DEF DeviceLimitFlow
  <2>5. SetLoggedIn(TRUE) \o SaveUserSalt(call[c].salt) \o CacheUserDetail(u, e)
          \in Seq(Keeping(server'.users))
    BY <2>4, KeptJoined
  <2> QED BY <1>8, <2>4, <2>5, ReplyIsSound, AnsweredIsSound DEF Login
<1>9. CASE SignOut(c)
  <2>1. ClearLocalUserData \in Seq(Keeping(server'.users) \cup Gone)
    BY <1>n, CompoundsKeep, SeqWider
  <2> QED BY <1>9, <2>1, ReplyIsSound DEF SignOut
<1>10. CASE DeleteAccount(c)
  <2>1. ClearLocalUserData \in Seq(Keeping(server'.users) \cup Gone)
    BY <1>n, CompoundsKeep, SeqWider
  <2>2. <<[email |-> NoEmail, userID |-> 0, pro |-> FALSE]>> \o ClearLocalUserData
          \in Seq(Keeping(server'.users) \cup Gone)
    BY <1>n, <2>1, SettersKeep, KeptJoined
  <2> QED BY <1>10, <2>2, ReplyIsSound DEF DeleteAccount
<1>11. CASE UserCreate(c)
  <2>1. server'.users = NewUser
    BY <1>11 DEF UserCreate, Reply, ServerOK
  <2> QED BY <1>11, <1>n, <1>s, <2>1, SettersKeep, ReplyIsSound DEF UserCreate
<1>12. CASE StartRecoveryByEmail(c) \/ ValidateRecoveryByEmail(c) \/ StartChangeEmail(c)
  BY <1>12, EndIsSound DEF StartRecoveryByEmail, ValidateRecoveryByEmail, StartChangeEmail
<1>13. CASE CompleteRecoveryByEmail(c)
  BY <1>13, <1>n, <1>s, SettersKeep, ReplyIsSound DEF CompleteRecoveryByEmail
<1>14. CASE CompleteChangeEmail(c)
  <2>1. call[c].to \in E
    BY <1>c DEF Call
  <2> QED BY <1>14, <1>n, <2>1, SettersKeep, AnsweredIsSound, EndIsSound DEF CompleteChangeEmail
<1>15. ASSUME NEW u \in Users, NEW txs, txs \in Seq(Keeping(server'.users)), NEW what,
              Linked(c, u, txs, what)
       PROVE  CallsSound'
  <2>1. u \in 1..server'.users
    BY <1>15, <1>n DEF Linked, Users
  <2>2. SetUserIDAndToken(u) \o txs \in Seq(Keeping(server'.users))
    BY <1>15, <1>n, <2>1, SettersKeep, KeptJoined
  <2> QED BY <1>15, <2>2, AnsweredIsSound, EndIsSound DEF Linked
<1>16. CASE LinkCodeRedeem(c)
  <2>1. << >> \in Seq(Keeping(server'.users))
    OBVIOUS
  <2> QED BY <1>15, <1>16, <2>1 DEF LinkCodeRedeem
<1>17. CASE ValidateDeviceRecoveryCode(c)
  <2>1. SetLoggedIn(TRUE) \in Seq(Keeping(server'.users))
    BY <1>n, SettersKeep
  <2> QED BY <1>15, <1>17, <2>1 DEF ValidateDeviceRecoveryCode
<1>18. CASE LinkCodeApprove(c) \/ UserLinkRemove(c)
  <2> DEFINE k == [call[c] EXCEPT !.at = "refresh"]
  <2>1. k.uid = call[c].uid /\ k.at = "refresh" /\ k.todo = call[c].todo /\ call[c].at = "ask"
    BY <1>18, <1>c DEF Call, LinkCodeApprove, UserLinkRemove, Asks
  <2>2. Sound(k, server'.users)
    BY <1>c, <2>1 DEF Sound
  <2>3. call' = [call EXCEPT ![c] = k]
    BY <1>18 DEF LinkCodeApprove, UserLinkRemove, Goto
  <2> QED BY <2>2, <2>3, BecomesSound
<1>19. CASE Purchase(c)
  BY <1>19, <1>n, SettersKeep, ReplyIsSound DEF Purchase
<1>20. CASE UserDetail(c)
  <2>1. call[c].uid \in Users /\ call[c].uid \in 1..server'.users
    BY <1>c, <1>20, <1>n, AccountAssumption
    DEF AccountAssumption, UserDetail, Identified, Call, Users, Sound
  <2>2. PICK e \in E : Answered(c, CacheUserDetail(call[c].uid, e), "idle")
    BY <1>20 DEF UserDetail, EmailsOf, E
  <2>3. CacheUserDetail(call[c].uid, e) \in Seq(Keeping(server'.users))
    BY <1>n, <2>1, CompoundsKeep
  <2> QED BY <2>2, <2>3, AnsweredIsSound
<1> QED
  BY <1>1, <1>2, <1>3, <1>4, <1>5, <1>6, <1>7, <1>8, <1>9, <1>10, <1>11, <1>12, <1>13, <1>14,
     <1>16, <1>17, <1>18, <1>19, <1>20 DEF Step

LEMMA StepWrites == ASSUME NEW c \in Calls, Step(c), ~Write(c) PROVE UNCHANGED db
<1>1. CASE InitSessionModel(c) \/ RetryCreateUser(c) \/ ReadUserID(c) \/ GetSalt(c) \/ Fail(c)
  BY <1>1 DEF InitSessionModel, RetryCreateUser, Exit, ReadUserID, GetSalt, Fail
<1>2. CASE SignUp(c) \/ Login(c) \/ SignOut(c) \/ DeleteAccount(c) \/ UserCreate(c)
  BY <1>2 DEF SignUp, Login, SignOut, DeleteAccount, UserCreate, Reply
<1>3. CASE StartRecoveryByEmail(c) \/ ValidateRecoveryByEmail(c) \/ CompleteRecoveryByEmail(c)
           \/ StartChangeEmail(c) \/ CompleteChangeEmail(c)
  BY <1>3 DEF StartRecoveryByEmail, ValidateRecoveryByEmail, CompleteRecoveryByEmail,
              StartChangeEmail, CompleteChangeEmail, Reply
<1>4. CASE LinkCodeRedeem(c) \/ ValidateDeviceRecoveryCode(c) \/ LinkCodeApprove(c)
           \/ UserLinkRemove(c) \/ Purchase(c) \/ UserDetail(c)
  BY <1>4 DEF LinkCodeRedeem, ValidateDeviceRecoveryCode, Linked, LinkCodeApprove,
              UserLinkRemove, Purchase, UserDetail, Reply
<1> QED BY <1>1, <1>2, <1>3, <1>4 DEF Step

\* Of the steps only the retries that give up end the process.
LEMMA StepKeepsUp ==
  ASSUME NEW c \in Calls, Step(c)
  PROVE  UNCHANGED up \/ (Asks(c, "retry") /\ Exit /\ UNCHANGED mishaps)
<1>1. CASE InitSessionModel(c) \/ RetryCreateUser(c) \/ ReadUserID(c) \/ GetSalt(c) \/ Fail(c)
           \/ Write(c)
  BY <1>1 DEF InitSessionModel, RetryCreateUser, ReadUserID, GetSalt, Fail, Write
<1>2. CASE SignUp(c) \/ Login(c) \/ SignOut(c) \/ DeleteAccount(c) \/ UserCreate(c)
  BY <1>2 DEF SignUp, Login, SignOut, DeleteAccount, UserCreate, Reply
<1>3. CASE StartRecoveryByEmail(c) \/ ValidateRecoveryByEmail(c) \/ CompleteRecoveryByEmail(c)
           \/ StartChangeEmail(c) \/ CompleteChangeEmail(c)
  BY <1>3 DEF StartRecoveryByEmail, ValidateRecoveryByEmail, CompleteRecoveryByEmail,
              StartChangeEmail, CompleteChangeEmail, Reply
<1>4. CASE LinkCodeRedeem(c) \/ ValidateDeviceRecoveryCode(c) \/ LinkCodeApprove(c)
           \/ UserLinkRemove(c) \/ Purchase(c) \/ UserDetail(c)
  BY <1>4 DEF LinkCodeRedeem, ValidateDeviceRecoveryCode, Linked, LinkCodeApprove,
              UserLinkRemove, Purchase, UserDetail, Reply
<1> QED BY <1>1, <1>2, <1>3, <1>4 DEF Step

\* Only a goroutine that runs takes steps.
LEMMA StepsAreOfActive == \A c \in Calls : Step(c) => Active(c)
  BY DEF Step, Active, InitSessionModel, RetryCreateUser, Write, ReadUserID, GetSalt, Fail, SignUp,
    Login, SignOut, DeleteAccount, UserCreate, StartRecoveryByEmail, ValidateRecoveryByEmail,
    CompleteRecoveryByEmail, StartChangeEmail, CompleteChangeEmail, LinkCodeRedeem,
    ValidateDeviceRecoveryCode, LinkCodeApprove, UserLinkRemove, Purchase, UserDetail, Asks

\* What a transaction does to the user.
LEMMA PutUser ==
  ASSUME SessionOK, NEW n \in Nat, NEW tx \in Keeping(n) \cup Gone, db' = Put(tx)
  PROVE  \/ tx \in Gone /\ db'.userID = 0
         \/ tx \in {[userID |-> u, token |-> u] : u \in 1..n} /\ db'.userID \in 1..n
         \/ tx \notin Gone /\ tx \notin {[userID |-> u, token |-> u] : u \in 1..n}
            /\ db'.userID = db.userID
<1> USE DEF SessionOK, Put
<1>1. CASE tx \in [loggedIn : BOOLEAN]
  BY <1>1 DEF Gone
<1>2. CASE tx \in [pro : BOOLEAN]
  BY <1>2 DEF Gone
<1>3. CASE tx \in [salt : 0..MaxSalts]
  BY <1>3 DEF Gone
<1>4. CASE tx \in [email : E]
  BY <1>4 DEF Gone
<1>5. CASE tx \in [salt : 0..MaxSalts, email : E]
  BY <1>5 DEF Gone
<1>6. CASE tx \in Gone
  BY <1>6 DEF Gone
<1>7. CASE tx \in {[userID |-> u, token |-> u] : u \in 1..n}
  BY <1>7
<1> QED BY <1>1, <1>2, <1>3, <1>4, <1>5, <1>6, <1>7 DEF Keeping

LEMMA KInvStep == KInv /\ [Next]_vars => KInv'
<1> SUFFICES ASSUME KInv, [Next]_vars PROVE KInv'
  OBVIOUS
<1>n. server'.users \in Nat /\ server.users \in Nat /\ server.users <= server'.users
  BY UsersGrow DEF KInv
<1>1. IInv'
  BY SessionStep, ServerStep, CallsStep DEF KInv, IInv
<1>2. ServersKnow'
  BY ServersKnowStep
<1>3. CallsSound'
  <2>1. CASE Crash
    BY <1>n, <2>1, IdleIsSound DEF Crash, Exit, CallsSound
  <2>2. CASE UNCHANGED call
    BY <1>n, <2>2, SoundGrows DEF KInv, CallsSound
  <2>3. ASSUME NEW c \in Calls, NewSessionModel(c) PROVE CallsSound'
    <3> DEFINE k == [Idle EXCEPT !.op = "init", !.at = "init"]
    <3>1. k.uid = 0 /\ k.at = "init" /\ k.todo = << >>
      BY DEF Idle
    <3>2. call' = [call EXCEPT ![c] = k]
      BY <2>3 DEF NewSessionModel
    <3> HIDE DEF k
    <3>3. Sound(k, server'.users)
      BY <1>n, <3>1, AskingIsSound
    <3> QED BY <3>2, <3>3, BecomesSound
  <2> QED BY <2>1, <2>2, <2>3, BeginIsSound, StepIsSound DEF Next, Elsewhere, vars
<1>4. db'.userID \in 0..server'.users
  <2>1. CASE UNCHANGED db
    BY <1>n, <2>1 DEF KInv
  <2>2. ASSUME NEW c \in Calls, Write(c) PROVE db'.userID \in 0..server'.users
    <3>1. call[c].todo \in Seq(Keeping(server.users) \cup Gone) /\ call[c].todo # << >>
      <4>1. Sound(call[c], server.users) /\ Able(call[c]) /\ call[c].at = "write"
        BY <2>2 DEF KInv, IInv, CallsOK, CallsSound, Write
      <4>2. call[c].next # "create" => call[c].todo \in Seq(Keeping(server.users))
        BY <4>1 DEF Sound
      <4> QED BY <4>1, <4>2, SeqWider DEF Sound, Able
    <3>2. Head(call[c].todo) \in Keeping(server.users) \cup Gone
      BY <3>1
    <3>3. db' = Put(Head(call[c].todo)) /\ UNCHANGED server
      BY <2>2 DEF Write
    <3> QED BY <1>n, <3>2, <3>3, PutUser DEF KInv, IInv
  <2>3. (\E c \in Calls : Write(c)) \/ UNCHANGED db
    <3>1. CASE Crash \/ Elsewhere \/ UNCHANGED vars
      BY <3>1 DEF Crash, Exit, Elsewhere, vars
    <3>2. ASSUME NEW c \in Calls, NewSessionModel(c) \/ Invoke(c) PROVE UNCHANGED db
      BY <3>2 DEF NewSessionModel, Invoke, Begin, BeginCredentials, BeginRecovery, BeginSignOut,
              BeginWithProof, BeginChangeEmail, BeginLink, BeginProCall, BeginReseller, BeginReport
    <3>3. ASSUME NEW c \in Calls, Step(c), ~Write(c) PROVE UNCHANGED db
      BY <3>3, StepWrites
    <3> QED BY <3>1, <3>2, <3>3 DEF Next
  <2> QED BY <2>1, <2>2, <2>3
<1>5. up' \in BOOLEAN /\ (~up' => \A c \in Calls : call'[c] = Idle)
  <2>1. CASE UNCHANGED <<up, call>>
    BY <2>1 DEF KInv
  <2>2. CASE Exit
    BY <2>2 DEF Exit
  <2>3. ASSUME NEW c \in Calls, NewSessionModel(c) \/ Invoke(c) PROVE up' = TRUE
    BY <2>3 DEF NewSessionModel, Invoke, Begin, BeginCredentials, BeginRecovery, BeginSignOut,
            BeginWithProof, BeginChangeEmail, BeginLink, BeginProCall, BeginReseller, BeginReport,
            KInv
  <2>4. ASSUME NEW c \in Calls, Step(c) PROVE Exit \/ up' = TRUE
    <3>1. up = TRUE
      BY <2>4, StepsAreOfActive DEF KInv, Active, Idle
    <3>2. Exit \/ UNCHANGED up
      BY <2>4, StepKeepsUp
    <3> QED BY <3>1, <3>2
  <2> QED BY <2>1, <2>2, <2>3, <2>4 DEF Next, Crash, Elsewhere, vars
<1> QED BY <1>1, <1>2, <1>3, <1>4, <1>5 DEF KInv

-----------------------------------------------------------------------------
(* Some goroutine brings a user while there is none.                       *)

Identity == {[userID |-> u, token |-> u] : u \in Users}

\* A goroutine that will end with a user, if nothing is lost.
Brings(k) ==
  \/ k.at \in {"init", "create"}
  \/ k.op = "retry" /\ k.at = "ask"
  \/ k.at = "write" /\ (k.next = "create" \/ \E i \in 1..Len(k.todo) : k.todo[i] \in Identity)

HasUser == "lost" \notin mishaps /\ up /\ db.userID = 0 => \E c \in Calls : Brings(call[c])

LEMMA MishapsGrow == [Next]_vars => mishaps \subseteq mishaps'
<1> SUFFICES ASSUME [Next]_vars PROVE mishaps \subseteq mishaps'
  OBVIOUS
<1>1. CASE Crash \/ Elsewhere \/ UNCHANGED vars
  BY <1>1 DEF Crash, Exit, Elsewhere, vars
<1>2. ASSUME NEW c \in Calls, NewSessionModel(c) \/ Invoke(c) PROVE mishaps \subseteq mishaps'
  BY <1>2 DEF NewSessionModel, Invoke, Begin, BeginCredentials, BeginRecovery, BeginSignOut,
            BeginWithProof, BeginChangeEmail, BeginLink, BeginProCall, BeginReseller, BeginReport
<1>3. ASSUME NEW c \in Calls, Step(c) PROVE mishaps \subseteq mishaps'
  <2>1. CASE InitSessionModel(c) \/ RetryCreateUser(c) \/ ReadUserID(c) \/ GetSalt(c) \/ Fail(c)
             \/ Write(c)
    BY <2>1 DEF InitSessionModel, RetryCreateUser, ReadUserID, GetSalt, Fail, Write
  <2>2. CASE SignUp(c) \/ Login(c) \/ SignOut(c) \/ DeleteAccount(c) \/ UserCreate(c)
    BY <2>2 DEF SignUp, Login, SignOut, DeleteAccount, UserCreate, Reply
  <2>3. CASE StartRecoveryByEmail(c) \/ ValidateRecoveryByEmail(c) \/ CompleteRecoveryByEmail(c)
             \/ StartChangeEmail(c) \/ CompleteChangeEmail(c)
    BY <2>3 DEF StartRecoveryByEmail, ValidateRecoveryByEmail, CompleteRecoveryByEmail,
                StartChangeEmail, CompleteChangeEmail, Reply
  <2>4. CASE LinkCodeRedeem(c) \/ ValidateDeviceRecoveryCode(c) \/ LinkCodeApprove(c)
             \/ UserLinkRemove(c) \/ Purchase(c) \/ UserDetail(c)
    BY <2>4 DEF LinkCodeRedeem, ValidateDeviceRecoveryCode, Linked, LinkCodeApprove,
                UserLinkRemove, Purchase, UserDetail, Reply
  <2> QED BY <1>3, <2>1, <2>2, <2>3, <2>4 DEF Step
<1> QED BY <1>1, <1>2, <1>3 DEF Next

\* A step is of one goroutine, or ends them all.
LEMMA StepsAreOfOne ==
  ASSUME NEW c \in Calls, call \in [Calls -> Call], Step(c)
  PROVE  \/ Exit
         \/ \E k : call' = [call EXCEPT ![c] = k]
<1>1. CASE InitSessionModel(c) \/ RetryCreateUser(c)
  BY <1>1 DEF InitSessionModel, RetryCreateUser, Answered
<1>2. CASE ReadUserID(c) \/ GetSalt(c) \/ Fail(c) \/ Write(c)
  BY <1>2 DEF ReadUserID, GetSalt, Fail, Write, End
<1>3. CASE SignUp(c) \/ Login(c) \/ SignOut(c) \/ DeleteAccount(c) \/ UserCreate(c)
  BY <1>3 DEF SignUp, Login, SignOut, DeleteAccount, UserCreate, Reply, Answered, End
<1>4. CASE StartRecoveryByEmail(c) \/ ValidateRecoveryByEmail(c) \/ CompleteRecoveryByEmail(c)
           \/ StartChangeEmail(c) \/ CompleteChangeEmail(c)
  BY <1>4 DEF StartRecoveryByEmail, ValidateRecoveryByEmail, CompleteRecoveryByEmail,
              StartChangeEmail, CompleteChangeEmail, Reply, Answered, End
<1>5. CASE LinkCodeRedeem(c) \/ ValidateDeviceRecoveryCode(c)
  <2>1. ASSUME NEW u, NEW txs, NEW what, Linked(c, u, txs, what)
        PROVE  \E k : call' = [call EXCEPT ![c] = k]
    BY <2>1 DEF Linked, Answered, End
  <2> QED BY <1>5, <2>1 DEF LinkCodeRedeem, ValidateDeviceRecoveryCode
<1>6. CASE LinkCodeApprove(c) \/ UserLinkRemove(c)
  BY <1>6 DEF LinkCodeApprove, UserLinkRemove, Goto
<1>7. CASE Purchase(c) \/ UserDetail(c)
  BY <1>7 DEF Purchase, UserDetail, Reply, Answered, End
<1> QED BY <1>1, <1>2, <1>3, <1>4, <1>5, <1>6, <1>7 DEF Step

LEMMA TailHas ==
  ASSUME NEW S, NEW q \in Seq(S), NEW i \in 1..Len(q), i # 1
  PROVE  Tail(q) # << >> /\ i - 1 \in 1..Len(Tail(q)) /\ Tail(q)[i - 1] = q[i]
<1>1. Len(q) \in Nat /\ q # << >>
  OBVIOUS
<1>2. Len(Tail(q)) = Len(q) - 1 /\ \A j \in 1..Len(q) - 1 : Tail(q)[j] = q[j + 1]
  BY <1>1
<1>3. i - 1 \in 1..Len(q) - 1 /\ (i - 1) + 1 = i
  BY <1>1
<1>4. Tail(q)[i - 1] = q[i]
  BY <1>2, <1>3
<1>5. Tail(q) # << >>
  <2>1. Len(Tail(q)) # 0
    BY <1>1, <1>2, <1>3
  <2>2. ASSUME NEW t, t = << >> PROVE Len(t) = 0
    BY <2>2
  <2> QED BY <2>1, <2>2
<1> QED BY <1>2, <1>3, <1>4, <1>5

LEMMA WriteKeepsUser ==
  ASSUME KInv, NEW c \in Calls, Write(c),
         \/ Brings(call[c]) /\ db.userID = 0
         \/ db.userID # 0,
         db'.userID = 0
  PROVE  Brings(call'[c])
<1> USE DEF KInv, IInv
<1> DEFINE k == call[c]
           rest == Tail(k.todo)
           n == server.users
           X == IF k.at = "write" /\ k.next = "create" THEN Gone ELSE {}
<1>1. k \in Call /\ Able(k) /\ Sound(k, n) /\ k.at = "write" /\ n \in Nat
  BY AccountAssumption DEF AccountAssumption, ServerOK, CallsOK, CallsSound, Write
<1>2. k.todo \in Seq(Keeping(n) \cup X) /\ k.todo # << >>
  BY <1>1 DEF Sound, Able
<1>3. Head(k.todo) \in Keeping(n) \cup X /\ Head(k.todo) = k.todo[1]
  BY <1>2
<1>4. call'[c] = IF rest # << >> THEN [k EXCEPT !.todo = rest, !.wrote = TRUE]
                 ELSE IF k.next = "idle" THEN Idle
                 ELSE [k EXCEPT !.todo = rest, !.wrote = TRUE, !.at = k.next]
  BY DEF Write, CallsOK
<1>5. CASE k.next = "create"
  BY <1>1, <1>4, <1>5 DEF Brings, Call
<1>6. CASE k.next # "create"
  <2>1. Head(k.todo) \notin {[userID |-> u, token |-> u] : u \in 1..n} /\ db.userID = 0
    <3>1. Head(k.todo) \in Keeping(n)
      BY <1>3, <1>6
    <3>2. Head(k.todo) \notin Gone
      BY <3>1 DEF Keeping, Gone
    <3>3. db' = Put(Head(k.todo))
      BY DEF Write
    <3> QED BY <1>1, <3>1, <3>2, <3>3, PutUser
  <2>2. Brings(k)
    BY <2>1
  <2>3. PICK i \in 1..Len(k.todo) : k.todo[i] \in Identity
    BY <1>1, <1>6, <2>2 DEF Brings
  <2>4. i # 1
    <3>1. ASSUME i = 1 PROVE FALSE
      <4>1. PICK u \in Users : Head(k.todo) = [userID |-> u, token |-> u]
        BY <1>3, <2>3, <3>1 DEF Identity
      <4>2. Head(k.todo).userID = u /\ u # 0
        BY <4>1 DEF Users
      <4>3. DOMAIN Head(k.todo) = {"userID", "token"}
        BY <4>1
      <4>4. db'.userID = u
        BY <4>2, <4>3 DEF Write, Put, SessionOK
      <4> QED BY <4>2, <4>4
    <3> QED BY <3>1
  <2>5. rest # << >> /\ i - 1 \in 1..Len(rest) /\ rest[i - 1] = k.todo[i]
    BY <1>2, <2>4, TailHas
  <2>6. call'[c].at = "write" /\ call'[c].todo = rest
    BY <1>1, <1>4, <2>5 DEF Call
  <2> HIDE DEF rest, k
  <2> QED BY <2>3, <2>5, <2>6 DEF Brings
<1> QED BY <1>5, <1>6

LEMMA HasUserStep == KInv /\ HasUser /\ [Next]_vars => HasUser'
<1> SUFFICES ASSUME KInv, HasUser, [Next]_vars, "lost" \notin mishaps', up', db'.userID = 0
             PROVE  \E c \in Calls : Brings(call'[c])
  BY DEF HasUser
<1> USE DEF KInv, IInv
<1>0. "lost" \notin mishaps
  BY MishapsGrow
<1>i. ~Brings(Idle)
  <2>1. Idle.at = "idle" /\ Idle.op = "none"
    BY DEF Idle
  <2> QED BY <2>1 DEF Brings
<1>1. CASE Crash
  BY <1>1 DEF Crash, Exit
<1>2. CASE Elsewhere \/ UNCHANGED vars
  BY <1>0, <1>2 DEF Elsewhere, vars, HasUser
<1>3. ASSUME NEW c \in Calls, NewSessionModel(c) PROVE Brings(call'[c])
  <2>1. [Idle EXCEPT !.op = "init", !.at = "init"].at = "init"
    BY DEF Idle
  <2>2. call'[c].at = "init"
    BY <1>3, <2>1 DEF NewSessionModel, CallsOK
  <2> QED BY <2>2 DEF Brings
<1>4. ASSUME NEW c \in Calls, Invoke(c) PROVE \E d \in Calls : Brings(call'[d])
  <2>1. PICK k : Begin(c, k)
    BY <1>4 DEF Invoke, BeginCredentials, BeginRecovery, BeginSignOut, BeginWithProof,
                BeginChangeEmail, BeginLink, BeginProCall, BeginReseller, BeginReport
  <2>2. up /\ db.userID = 0 /\ call[c] = Idle /\ call' = [call EXCEPT ![c] = k]
    BY <2>1 DEF Begin, Active, CallsSound, Sound
  <2>3. PICK d \in Calls : Brings(call[d])
    BY <1>0, <2>2 DEF HasUser
  <2>4. call'[d] = call[d]
    BY <1>i, <2>2, <2>3 DEF CallsOK
  <2> QED BY <2>3, <2>4
<1>5. ASSUME NEW c \in Calls, Step(c) PROVE \E d \in Calls : Brings(call'[d])
  <2>0. call[c] \in Call /\ Sound(call[c], server.users) /\ up
    BY <1>5, StepsAreOfActive DEF Active, CallsOK, CallsSound, Idle
  <2>1. PICK k : call' = [call EXCEPT ![c] = k]
    BY <1>5, StepsAreOfOne DEF Exit, CallsOK
  <2>2. \A d \in Calls : d # c => call'[d] = call[d]
    BY <2>1 DEF CallsOK
  <2>3. CASE Write(c)
    <3>1. CASE db.userID = 0
      <4>1. PICK d \in Calls : Brings(call[d])
        BY <1>0, <2>0, <3>1 DEF HasUser
      <4> QED BY <2>2, <2>3, <3>1, <4>1, WriteKeepsUser
    <3>2. CASE db.userID # 0
      BY <2>3, <3>2, WriteKeepsUser
    <3> QED BY <3>1, <3>2
  <2>4. CASE ~Write(c)
    <3>1. db.userID = 0
      BY <1>5, <2>4, StepWrites
    <3>2. PICK d \in Calls : Brings(call[d])
      BY <1>0, <2>0, <3>1 DEF HasUser
    <3>3. CASE d # c
      BY <2>2, <3>2, <3>3
    <3>4. CASE d = c
      <4>0. call[c].at # "write" => \/ call[c].at \in {"init", "create"}
                                    \/ call[c].op = "retry" /\ call[c].at = "ask"
        BY <3>2, <3>4 DEF Brings
      <4>1. CASE InitSessionModel(c)
        <5> DEFINE j == [Idle EXCEPT !.op = IF db.userID = 0 THEN "retry" ELSE "refresh",
                                     !.at = IF db.userID = 0 THEN "ask" ELSE "ident"]
        <5>1. j.op = "retry" /\ j.at = "ask"
          BY <3>1 DEF Idle
        <5>2. call'[c] = j
          BY <4>1 DEF InitSessionModel, CallsOK
        <5> QED BY <5>1, <5>2 DEF Brings
      <4>2. ASSUME Answered(c, SetUserIDAndToken(NewUser), "idle"), CanUser PROVE Brings(call'[c])
        <5>1. call'[c].at = "write" /\ call'[c].todo = <<[userID |-> NewUser, token |-> NewUser]>>
          BY <2>0, <4>2 DEF Answered, SetUserIDAndToken, CallsOK, Call
        <5>2. NewUser \in Users
          BY <4>2, AccountAssumption DEF AccountAssumption, CanUser, NewUser, Users, ServerOK
        <5>3. [userID |-> NewUser, token |-> NewUser] \in Identity
          BY <5>2 DEF Identity
        <5> QED BY <5>1, <5>3 DEF Brings
      <4>3. CASE RetryCreateUser(c)
        BY <3>2, <3>4, <4>2, <4>3 DEF RetryCreateUser, Exit
      <4>4. CASE UserCreate(c)
        BY <4>2, <4>4 DEF UserCreate, Reply
      <4>5. CASE Fail(c)
        BY <2>0, <4>0, <4>5 DEF Fail, Sound
      <4>6. CASE ReadUserID(c) \/ GetSalt(c)
        BY <4>0, <4>6 DEF ReadUserID, GetSalt
      <4>7. ASSUME \/ SignUp(c) \/ Login(c) \/ SignOut(c) \/ DeleteAccount(c)
                   \/ StartRecoveryByEmail(c) \/ ValidateRecoveryByEmail(c)
                   \/ CompleteRecoveryByEmail(c) \/ StartChangeEmail(c) \/ CompleteChangeEmail(c)
                   \/ LinkCodeRedeem(c) \/ ValidateDeviceRecoveryCode(c) \/ LinkCodeApprove(c)
                   \/ UserLinkRemove(c) \/ Purchase(c) \/ UserDetail(c)
            PROVE  FALSE
        <5>1. call[c].at = "ask" /\ call[c].op # "retry"
          BY <4>7 DEF SignUp, Login, SignOut, DeleteAccount, StartRecoveryByEmail,
             ValidateRecoveryByEmail, CompleteRecoveryByEmail, StartChangeEmail,
             CompleteChangeEmail, LinkCodeRedeem, ValidateDeviceRecoveryCode, LinkCodeApprove,
             UserLinkRemove, Purchase, UserDetail, Asks
        <5> QED BY <4>0, <5>1
      <4> QED BY <1>5, <2>4, <4>1, <4>3, <4>4, <4>5, <4>6, <4>7 DEF Step
    <3> QED BY <3>3, <3>4
  <2> QED BY <2>3, <2>4
<1> QED BY <1>1, <1>2, <1>3, <1>4, <1>5 DEF Next

LEMMA StartKnown == Init => KInv
<1> SUFFICES ASSUME Init PROVE KInv
  OBVIOUS
<1>1. IInv
  BY Start
<1>2. ServersKnow /\ db.userID \in 0..server.users
  <2>1. PICK e \in Emails, full \in SUBSET {1}, coded \in BOOLEAN :
          server = [account |-> [f \in Emails |-> IF f = e THEN [user |-> 1, salt |-> 1]
                                                 ELSE NoAccount],
                    users |-> 1, salts |-> 1, pro |-> [u \in Users |-> u = 1],
                    linked |-> {}, full |-> full, changing |-> NoEmail,
                    coded |-> IF coded THEN {e} ELSE {}]
    BY DEF Init
  <2>2. server.users = 1 /\ server.pro = [u \in Users |-> u = 1]
        /\ \A f \in Emails : server.account[f].user \in {0, 1}
    BY <2>1 DEF NoAccount
  <2>3. captured = 0 /\ db.userID = 0
    BY DEF Init
  <2>4. 0 \in 0..1 /\ 1 \in 0..1
    OBVIOUS
  <2> HIDE DEF Users
  <2>5. \A u \in Users : server.pro[u] => u \in 0..1
    BY <2>2, <2>4
  <2>6. \A f \in Emails : server.account[f].user \in 0..1
    BY <2>2, <2>4
  <2> QED BY <2>2, <2>3, <2>4, <2>5, <2>6 DEF ServersKnow
<1>3. CallsSound /\ (~up => \A c \in Calls : call[c] = Idle) /\ up \in BOOLEAN
  <2>1. server.users \in Nat
    BY <1>1, AccountAssumption DEF AccountAssumption, IInv, ServerOK
  <2> QED BY <2>1, IdleIsSound DEF Init, CallsSound
<1> QED BY <1>1, <1>2, <1>3 DEF KInv

LEMMA Known == Spec => []KInv
  BY StartKnown, KInvStep, PTL DEF Spec

-----------------------------------------------------------------------------
(* One call at a time: the session it will leave is right already.         *)

\* The only goroutine that runs, if one does.
Alone == \A c, d \in Calls : Active(c) /\ Active(d) => c = d

\* What the goroutine k, with a request to make, has read is still so in session d.
Fresh(k, d) ==
  /\ k.op \in {"signup", "login", "redeem", "validate"} /\ k.at \in {"salt", "ask", "ident"}
       => ~d.loggedIn
  /\ k.op \in {"delete", "change"} /\ k.at \in {"salt", "ask"} => d.loggedIn /\ k.email = d.email
  /\ k.op = "recover" /\ k.at = "ask" /\ d.loggedIn => k.email = d.email
  /\ k.op \in {"refresh", "purchase"} /\ k.at = "ask" => k.uid = d.userID
  /\ k.op = "retry" /\ k.at = "ask" => d.userID = 0
  /\ k.at = "salt" => k.op \in {"login", "delete", "startchange"}
  /\ k.at = "ident" => k.op \in {"redeem", "validate", "approve", "remove", "purchase", "refresh"}

\* The details of the user are still to be fetched.
Refreshes(k) ==
  \/ k.at = "write" /\ k.next = "refresh"
  \/ k.wrote /\ (k.at = "refresh" \/ (k.at = "ask" /\ k.op = "refresh"))

\* The four properties, of any session and server.
Whole(srv, s) ==
  s.loggedIn => /\ s.email \in Emails /\ srv.account[s.email] # NoAccount
                /\ srv.account[s.email].user = s.userID
Salted(srv, s) ==
  s.loggedIn /\ s.salt # 0
    => /\ s.email \in Emails /\ srv.account[s.email] # NoAccount
       /\ srv.account[s.email].salt = s.salt
Anonymous(srv, s) ==
  ~s.loggedIn /\ s.userID # 0
    => s.userID \in srv.linked \/ \A e \in Emails : srv.account[e].user # s.userID
ProIs(srv, s) == s.pro = (s.userID # 0 /\ srv.pro[s.userID])

\* Session s is what it should be after the mishaps m, when a new user is still to come
\* (new), or the details of the user are (stale).
Right(srv, m, s, new, stale) ==
  /\ new => ~s.loggedIn /\ ~s.pro
  /\ m \subseteq {"email", "limit", "removed"} => Whole(srv, s)
  /\ m \subseteq {"header", "limit", "removed"} => Salted(srv, s)
  /\ m \subseteq {"code", "contact", "email", "header"} => new \/ Anonymous(srv, s)
  /\ m \subseteq {"code", "contact", "email", "header", "removed"}
       => new \/ stale \/ ProIs(srv, s)

\* The goroutine k, which runs alone, will make a session that is right.
Good(k, d, srv, m) ==
  /\ Fresh(k, d)
  /\ \E s \in Sessions : Ends(k.todo, d, s) /\ Right(srv, m, s, Leaves(k), Refreshes(k))

-----------------------------------------------------------------------------

\* Nothing to write: the session is as it will be.
LEMMA GoodNow ==
  ASSUME SessionOK, NEW k, k.todo = << >>, NEW srv, NEW m
  PROVE  Good(k, db, srv, m) <=> Fresh(k, db) /\ Right(srv, m, db, Leaves(k), Refreshes(k))
<1>1. db \in Sessions
  BY DEF SessionOK, Sessions
<1>2. \A s \in Sessions : Ends(k.todo, db, s) <=> s = db
  BY <1>1, EndsNone
<1> QED BY <1>1, <1>2 DEF Good

\* The servers' part in what is right: accounts, links and who is pro.
LEMMA SameServers ==
  ASSUME NEW srv, NEW new, NEW m, NEW s, NEW n, NEW p,
         new.account = srv.account, new.linked = srv.linked, new.pro = srv.pro
  PROVE  Right(srv, m, s, n, p) <=> Right(new, m, s, n, p)
  BY DEF Right, Whole, Salted, Anonymous, ProIs

LEMMA IdleIsFresh == \A d : Fresh(Idle, d) /\ ~Leaves(Idle) /\ ~Refreshes(Idle) /\ Idle.todo = << >>
  BY DEF Fresh, Idle, Leaves, Refreshes

\* A goroutine that ends without a mishap, with nothing written and nothing to be written.
LEMMA EndIsGood ==
  ASSUME SessionOK, CallsOK, NEW c \in Calls, End(c), Good(call[c], db, server, mishaps),
         call[c].todo = << >>, ~Leaves(call[c]), ~Refreshes(call[c]),
         server'.account = server.account, server'.linked = server.linked, server'.pro = server.pro,
         mishaps' = mishaps
  PROVE  Good(call'[c], db, server', mishaps')
<1>1. call'[c] = Idle
  BY DEF End, CallsOK
<1>2. Right(server, mishaps, db, FALSE, FALSE)
  <2>1. Right(server, mishaps, db, Leaves(call[c]), Refreshes(call[c]))
    BY GoodNow
  <2> QED BY <2>1 DEF Right
<1>3. Right(server', mishaps', db, FALSE, FALSE)
  BY <1>2, SameServers
<1>4. Right(server', mishaps', db, Leaves(Idle), Refreshes(Idle))
  BY <1>3, IdleIsFresh DEF Right
<1> QED BY <1>1, <1>4, GoodNow, IdleIsFresh

LEMMA LostIsGood ==
  ASSUME SessionOK, CallsOK, NEW c \in Calls, End(c), "lost" \in mishaps'
  PROVE  Good(call'[c], db, server', mishaps')
<1>1. call'[c] = Idle
  BY DEF End, CallsOK
<1>2. Right(server', mishaps', db, Leaves(Idle), Refreshes(Idle))
  BY IdleIsFresh DEF Right
<1> QED BY <1>1, <1>2, GoodNow, IdleIsFresh

\* An answer, whose writes make a right session.
LEMMA AnsweredIsGood ==
  ASSUME SessionOK, CallsOK, NEW c \in Calls, NEW txs, NEW next, Answered(c, txs, next),
         NEW e, NEW n, NEW l, NEW p, NEW u, Makes(txs, db, e, n, l, p, u),
         \A s : Is(s, e, n, l, p, u)
                  => Right(server', mishaps', s, next = "create", next = "refresh")
  PROVE  Good(call'[c], db, server', mishaps')
<1> DEFINE k == [call[c] EXCEPT !.todo = txs, !.at = "write", !.next = next]
<1>1. k.at = "write" /\ k.todo = txs /\ k.next = next
  BY DEF CallsOK, Call
<1>2. call'[c] = k
  BY DEF Answered, CallsOK
<1> HIDE DEF k
<1>3. PICK s : Ends(txs, db, s) /\ Is(s, e, n, l, p, u)
  BY DEF Makes
<1>4. Right(server', mishaps', s, next = "create", next = "refresh") /\ s \in Sessions
  BY <1>3 DEF Is
<1>5. Right(server', mishaps', s, Leaves(k), Refreshes(k))
  BY <1>1, <1>4 DEF Leaves, Refreshes, Right
<1>6. Fresh(k, db)
  BY <1>1 DEF Fresh
<1> QED BY <1>1, <1>2, <1>3, <1>4, <1>5, <1>6 DEF Good

\* The same of an answer that may be lost.
LEMMA ReplyIsGood ==
  ASSUME SessionOK, CallsOK, NEW c \in Calls, NEW srv, NEW txs, NEW next, Reply(c, srv, txs, next),
         NEW e, NEW n, NEW l, NEW p, NEW u, Makes(txs, db, e, n, l, p, u),
         \A s : Is(s, e, n, l, p, u)
                  => Right(srv, mishaps, s, next = "create", next = "refresh")
  PROVE  Good(call'[c], db, server', mishaps')
<1>1. server' = srv
  BY DEF Reply
<1>2. CASE Answered(c, txs, next) /\ UNCHANGED mishaps
  BY <1>1, <1>2, AnsweredIsGood
<1>3. CASE End(c) /\ mishaps' = mishaps \cup {"lost"}
  BY <1>3, LostIsGood
<1> QED BY <1>2, <1>3 DEF Reply

\* A step that reads: to another place, with nothing written and nothing to be written.
LEMMA ReadsIsGood ==
  ASSUME SessionOK, CallsOK, NEW c \in Calls, NEW k, call' = [call EXCEPT ![c] = k],
         Good(call[c], db, server, mishaps), call[c].todo = << >>, k.todo = << >>,
         ~Leaves(call[c]), ~Leaves(k), Refreshes(call[c]) => Refreshes(k), Fresh(k, db),
         server'.account = server.account, server'.linked = server.linked, server'.pro = server.pro,
         mishaps' = mishaps
  PROVE  Good(call'[c], db, server', mishaps')
<1>1. call'[c] = k
  BY DEF CallsOK
<1>2. Right(server, mishaps, db, Leaves(call[c]), Refreshes(call[c]))
  BY GoodNow
<1>3. Right(server, mishaps, db, Leaves(k), Refreshes(k))
  BY <1>2 DEF Right
<1>4. Right(server', mishaps', db, Leaves(k), Refreshes(k))
  BY <1>3, SameServers
<1> QED BY <1>1, <1>4, GoodNow

\* A user the server makes now: no account is its, and it is not pro.
LEMMA NewUserIsNew ==
  ASSUME KInv, CanUser
  PROVE  /\ NewUser \in Users /\ NewUser \in 0..MaxUsers /\ NewUser # 0
         /\ \A e \in Emails : server.account[e].user # NewUser
         /\ server.pro[NewUser] = FALSE
<1> USE DEF KInv, IInv
<1>1. server.users \in Nat /\ NewUser = server.users + 1 /\ NewUser \in Users
      /\ NewUser \in 0..MaxUsers
  BY AccountAssumption DEF AccountAssumption, ServerOK, CanUser, NewUser, Users
<1>2. NewUser \notin 0..server.users
  BY <1>1
<1>3. server.pro[NewUser] \in BOOLEAN
  BY <1>1 DEF ServerOK
<1> HIDE DEF Users, NewUser
<1>4. server.pro[NewUser] = FALSE
  BY <1>1, <1>2, <1>3 DEF ServersKnow
<1>5. \A e \in Emails : server.account[e].user # NewUser
  BY <1>2 DEF ServersKnow
<1>6. NewUser # 0
  BY <1>1 DEF Users
<1> QED BY <1>1, <1>4, <1>5, <1>6

LEMMA NewUserIsRight ==
  ASSUME KInv, CanUser, NEW m, NEW s \in Sessions, NEW t, NEW new,
         Right(server, m, s, new, FALSE), new \/ s.userID = 0,
         t.email = s.email, t.salt = s.salt, t.loggedIn = s.loggedIn, t.pro = s.pro,
         t.userID = NewUser
  PROVE  Right([server EXCEPT !.users = NewUser], m, t, FALSE, FALSE)
<1> DEFINE srv == [server EXCEPT !.users = NewUser]
<1>1. srv.account = server.account /\ srv.linked = server.linked /\ srv.pro = server.pro
  BY DEF KInv, IInv, ServerOK
<1>2. /\ NewUser \in Users /\ NewUser # 0 /\ server.pro[NewUser] = FALSE
      /\ \A e \in Emails : server.account[e].user # NewUser
  BY NewUserIsNew
<1>3. \A e \in Emails : server.account[e] # NoAccount => server.account[e].user # 0
  <2>1. ASSUME NEW e \in Emails, server.account[e] \in [user : Users, salt : 0..MaxSalts]
        PROVE  server.account[e].user # 0
    BY <2>1 DEF Users
  <2> QED BY <2>1 DEF KInv, IInv, ServerOK
<1>4. m \subseteq {"email", "limit", "removed"} => Whole(server, t)
  BY <1>3 DEF Right, Whole
<1>5. m \subseteq {"header", "limit", "removed"} => Salted(server, t)
  BY DEF Right, Salted
<1>6. Anonymous(server, t)
  BY <1>2 DEF Anonymous
<1>7. m \subseteq {"code", "contact", "email", "header", "removed"} => ProIs(server, t)
  <2>1. s.pro \in BOOLEAN
    BY DEF Sessions
  <2>2. m \subseteq {"code", "contact", "email", "header", "removed"} => s.pro = FALSE
    BY <2>1 DEF Right, ProIs
  <2> QED BY <1>2, <2>2 DEF ProIs
<1>8. Right(server, m, t, FALSE, FALSE)
  BY <1>4, <1>5, <1>6, <1>7 DEF Right
<1> HIDE DEF srv
<1>9. Right(srv, m, t, FALSE, FALSE)
  BY <1>1, <1>8, SameServers
<1> QED BY <1>9 DEF srv

-----------------------------------------------------------------------------
(* What the servers answer, when the goroutine runs alone.                 *)

\* What the steps of a goroutine start from.
Lone(c) == KInv /\ c \in Calls /\ Good(call[c], db, server, mishaps)

LEMMA LoneAsks ==
  ASSUME NEW c, Lone(c), call[c].at = "ask" \/ call[c].at = "create" \/ call[c].at = "init"
  PROVE  /\ SessionOK /\ ServerOK /\ CallsOK /\ call[c] \in Call /\ Sound(call[c], server.users)
         /\ db \in Sessions /\ db = [db EXCEPT !.pro = db.pro]
         /\ call[c].todo = << >> /\ Fresh(call[c], db)
         /\ Right(server, mishaps, db, call[c].at = "create",
                  call[c].wrote /\ call[c].at = "ask" /\ call[c].op = "refresh")
<1> USE DEF Lone, KInv, IInv
<1>1. call[c] \in Call /\ Sound(call[c], server.users) /\ call[c].todo = << >>
  BY DEF CallsOK, CallsSound, Sound
<1>2. db \in Sessions /\ db = [db EXCEPT !.pro = db.pro]
  BY DEF SessionOK, Sessions
<1>3. Right(server, mishaps, db, Leaves(call[c]), Refreshes(call[c])) /\ Fresh(call[c], db)
  BY <1>1, GoodNow
<1>4. /\ Leaves(call[c]) <=> call[c].at = "create"
      /\ Refreshes(call[c]) <=> (call[c].wrote /\ call[c].at = "ask" /\ call[c].op = "refresh")
  BY DEF Leaves, Refreshes
<1>5. Right(server, mishaps, db, call[c].at = "create",
            call[c].wrote /\ call[c].at = "ask" /\ call[c].op = "refresh")
  BY <1>3, <1>4 DEF Right
<1> QED BY <1>1, <1>2, <1>3, <1>5

LEMMA SignUpIsGood ==
  ASSUME NEW c, Lone(c), SignUp(c)
  PROVE  Good(call'[c], db, server', mishaps')
<1> DEFINE e == call[c].email
<1>1. /\ SessionOK /\ ServerOK /\ CallsOK /\ c \in Calls /\ db \in Sessions
      /\ Right(server, mishaps, db, FALSE, FALSE) /\ e \in Emails
  BY LoneAsks, HasEmail DEF SignUp, Asks, Lone, AccountCalls, Right
<1>2. NewSalt \in 0..MaxSalts /\ NewSalt # 0
  BY <1>1, AccountAssumption DEF AccountAssumption, SignUp, SrpSignUp, CanSalt, NewSalt, ServerOK
<1>3. CASE End(c) /\ "lost" \in mishaps'
  BY <1>1, <1>3, LostIsGood
<1>4. CASE /\ Answered(c, <<[salt |-> NewSalt, email |-> e]>> \o SetLoggedIn(TRUE), "idle")
           /\ mishaps' = IF UserHeader # db.userID THEN mishaps \cup {"header"} ELSE mishaps
  <2>1. Makes(<<[salt |-> NewSalt, email |-> e]>> \o SetLoggedIn(TRUE), db, e, NewSalt, TRUE,
              db.pro, db.userID)
    BY <1>1, <1>2, SignUpMakes
  <2>2. /\ server'.account = [server.account EXCEPT ![e] = [user |-> UserHeader, salt |-> NewSalt]]
        /\ server'.pro = server.pro
    BY <1>1 DEF SignUp, SrpSignUp, ServerOK
  <2>3. server'.account[e] = [user |-> UserHeader, salt |-> NewSalt]
    BY <1>1, <2>2 DEF ServerOK
  <2>4. server'.account[e].user = UserHeader /\ server'.account[e].salt = NewSalt
        /\ server'.account[e] # NoAccount
    BY <1>2, <2>3 DEF NoAccount
  <2>5. ASSUME NEW s, Is(s, e, NewSalt, TRUE, db.pro, db.userID)
        PROVE  Right(server', mishaps', s, FALSE, FALSE)
    <3>1. mishaps' \subseteq {"email", "limit", "removed"} => Whole(server', s)
      BY <1>1, <1>4, <2>4, <2>5 DEF Whole, Is
    <3>2. Salted(server', s)
      BY <1>1, <2>4, <2>5 DEF Salted, Is
    <3>3. Anonymous(server', s)
      BY <2>5 DEF Anonymous, Is
    <3>4. mishaps' \subseteq {"code", "contact", "email", "header", "removed"} => ProIs(server', s)
      BY <1>1, <1>4, <2>2, <2>5 DEF ProIs, Is, Right
    <3> QED BY <3>1, <3>2, <3>3, <3>4 DEF Right
  <2>6. ASSUME NEW s, Is(s, e, NewSalt, TRUE, db.pro, db.userID)
        PROVE  Right(server', mishaps', s, "idle" = "create", "idle" = "refresh")
    BY <2>5, <2>6 DEF Right
  <2> HIDE DEF e
  <2> QED BY <1>1, <1>4, <2>1, <2>6, AnsweredIsGood
<1> QED BY <1>3, <1>4 DEF SignUp

LEMMA LoginIsGood ==
  ASSUME NEW c, Lone(c), Login(c)
  PROVE  Good(call'[c], db, server', mishaps')
<1> DEFINE e == call[c].email
           n == call[c].salt
           u == server.account[e].user
           srv == [server EXCEPT !.linked = @ \cup {u}]
<1>1. /\ SessionOK /\ ServerOK /\ CallsOK /\ c \in Calls /\ db \in Sessions
      /\ Right(server, mishaps, db, FALSE, FALSE) /\ e \in Emails /\ n \in 0..MaxSalts
      /\ db.loggedIn = FALSE
  <2>1. Fresh(call[c], db) /\ call[c] \in Call /\ db \in Sessions
    BY LoneAsks DEF Login, Asks
  <2>2. db.loggedIn = FALSE /\ n \in 0..MaxSalts
    BY <2>1 DEF Fresh, Login, Asks, Call, Sessions
  <2> QED BY <2>2, LoneAsks, HasEmail DEF Login, Asks, Lone, AccountCalls, Right
<1>2. server.account[e] # NoAccount /\ server.account[e].salt = n
  BY DEF Login, Proves
<1>3. u \in Users /\ u \in 0..MaxUsers /\ u # 0
  BY <1>1, <1>2, AccountAssumption DEF AccountAssumption, ServerOK, Users
<1>4. CASE Reply(c, srv, SetLoggedIn(TRUE) \o SaveUserSalt(n) \o CacheUserDetail(u, e), "idle")
  <2>1. Makes(SetLoggedIn(TRUE) \o SaveUserSalt(n) \o CacheUserDetail(u, e), db, e, n, TRUE,
              server.pro[u], u)
    BY <1>1, <1>3, LoginMakes
  <2>2. srv.account = server.account /\ srv.pro = server.pro
    BY <1>1 DEF ServerOK
  <2> HIDE DEF srv
  <2>3. ASSUME NEW s, Is(s, e, n, TRUE, server.pro[u], u)
        PROVE  Right(srv, mishaps, s, FALSE, FALSE)
    <3>1. Whole(srv, s) /\ Salted(srv, s)
      BY <1>1, <1>2, <2>2, <2>3 DEF Whole, Salted, Is
    <3>2. Anonymous(srv, s)
      BY <2>3 DEF Anonymous, Is
    <3>3. s.pro = server.pro[u] /\ s.userID = u /\ server.pro[u] \in BOOLEAN
      BY <1>1, <1>3, <2>3 DEF Is, ServerOK
    <3>4. ProIs(srv, s)
      BY <1>3, <2>2, <3>3 DEF ProIs
    <3> QED BY <3>1, <3>2, <3>4 DEF Right
  <2>4. ASSUME NEW s, Is(s, e, n, TRUE, server.pro[u], u)
        PROVE  Right(srv, mishaps, s, "idle" = "create", "idle" = "refresh")
    BY <2>3, <2>4 DEF Right
  <2> HIDE DEF e, u, n
  <2> QED BY <1>1, <1>4, <2>1, <2>4, ReplyIsGood
<1>5. CASE /\ Answered(c, DeviceLimitFlow(u), "idle")
           /\ mishaps' = mishaps \cup {"limit"}
           /\ UNCHANGED <<db, server, up, captured, used>>
  <2>1. Makes(DeviceLimitFlow(u), db, db.email, db.salt, db.loggedIn, db.pro, u)
    BY <1>1, <1>3, SettersMake DEF DeviceLimitFlow
  <2>2. ASSUME NEW s, Is(s, db.email, db.salt, db.loggedIn, db.pro, u)
        PROVE  Right(server', mishaps', s, FALSE, FALSE)
    BY <1>1, <1>5, <2>2 DEF Right, Whole, Salted, Is
  <2> QED BY <1>1, <1>5, <2>1, <2>2, AnsweredIsGood DEF Right
<1> QED BY <1>4, <1>5 DEF Login

LEMMA LeavingIsGood ==
  ASSUME NEW c, Lone(c), SignOut(c) \/ DeleteAccount(c)
  PROVE  Good(call'[c], db, server', mishaps')
<1>1. SessionOK /\ CallsOK /\ c \in Calls /\ db \in Sessions
  BY LoneAsks DEF Lone, SignOut, DeleteAccount, Asks
<1>2. ASSUME NEW srv, NEW s, NEW u, Is(s, NoEmail, 0, FALSE, FALSE, u)
      PROVE  Right(srv, mishaps, s, TRUE, FALSE)
  BY <1>2 DEF Right, Is, Whole, Salted
<1>3. ASSUME NEW srv, Reply(c, srv, ClearLocalUserData, "create")
      PROVE  Good(call'[c], db, server', mishaps')
  BY <1>1, <1>2, <1>3, ClearMakes, ReplyIsGood DEF Right
<1>4. ASSUME NEW srv, Reply(c, srv, <<[email |-> NoEmail, userID |-> 0, pro |-> FALSE]>>
                                      \o ClearLocalUserData, "create")
      PROVE  Good(call'[c], db, server', mishaps')
  BY <1>1, <1>2, <1>4, DeleteMakes, ReplyIsGood DEF Right
<1> QED BY <1>3, <1>4 DEF SignOut, DeleteAccount

LEMMA CreatingIsGood ==
  ASSUME NEW c, Lone(c), UserCreate(c)
  PROVE  Good(call'[c], db, server', mishaps')
<1>1. /\ KInv /\ SessionOK /\ CallsOK /\ c \in Calls /\ db \in Sessions /\ CanUser
      /\ Right(server, mishaps, db, TRUE, FALSE)
  BY LoneAsks DEF Lone, UserCreate, Right
<1>2. NewUser \in 0..MaxUsers
  BY <1>1, NewUserIsNew
<1>3. Makes(SetUserIDAndToken(NewUser), db, db.email, db.salt, db.loggedIn, db.pro, NewUser)
  BY <1>1, <1>2, SettersMake
<1>4. ASSUME NEW s, Is(s, db.email, db.salt, db.loggedIn, db.pro, NewUser)
      PROVE  Right([server EXCEPT !.users = NewUser], mishaps, s, FALSE, FALSE)
  BY <1>1, <1>4, NewUserIsRight DEF Is
<1> QED BY <1>1, <1>3, <1>4, ReplyIsGood DEF UserCreate, Right

LEMMA RetryIsGood ==
  ASSUME NEW c, Lone(c), RetryCreateUser(c), ~Exit
  PROVE  Good(call'[c], db, server', mishaps')
<1>1. /\ KInv /\ SessionOK /\ CallsOK /\ c \in Calls /\ db \in Sessions
      /\ Right(server, mishaps, db, FALSE, FALSE)
      /\ call[c].todo = << >> /\ Fresh(call[c], db)
  BY LoneAsks DEF Lone, RetryCreateUser, Asks, Right
<1>2. /\ CanUser /\ server' = [server EXCEPT !.users = NewUser]
      /\ Answered(c, SetUserIDAndToken(NewUser), "idle") \/ UNCHANGED call
      /\ UNCHANGED <<db, mishaps>>
  BY DEF RetryCreateUser
<1>3. db.userID = 0
  BY <1>1 DEF RetryCreateUser, Fresh, Asks
<1>4. CASE UNCHANGED call
  <2>1. server'.account = server.account /\ server'.linked = server.linked /\ server'.pro = server.pro
    BY <1>1, <1>2 DEF KInv, IInv, ServerOK
  <2>2. Right(server', mishaps', db, Leaves(call[c]), Refreshes(call[c]))
    <3>1. Right(server, mishaps, db, Leaves(call[c]), Refreshes(call[c]))
      BY <1>1, GoodNow DEF Lone
    <3> QED BY <1>2, <2>1, <3>1, SameServers
  <2> QED BY <1>1, <1>4, <2>2, GoodNow
<1>5. CASE Answered(c, SetUserIDAndToken(NewUser), "idle")
  <2>1. NewUser \in 0..MaxUsers
    BY <1>1, <1>2, NewUserIsNew
  <2>2. Makes(SetUserIDAndToken(NewUser), db, db.email, db.salt, db.loggedIn, db.pro, NewUser)
    BY <1>1, <2>1, SettersMake
  <2>3. ASSUME NEW s, Is(s, db.email, db.salt, db.loggedIn, db.pro, NewUser)
        PROVE  Right(server', mishaps', s, FALSE, FALSE)
    BY <1>1, <1>2, <1>3, <2>3, NewUserIsRight DEF Is
  <2> QED BY <1>1, <1>5, <2>2, <2>3, AnsweredIsGood DEF Right
<1> QED BY <1>2, <1>4, <1>5

LEMMA EndingIsGood ==
  ASSUME NEW c, Lone(c),
         StartRecoveryByEmail(c) \/ ValidateRecoveryByEmail(c) \/ StartChangeEmail(c)
  PROVE  Good(call'[c], db, server', mishaps')
<1>1. /\ SessionOK /\ ServerOK /\ CallsOK /\ c \in Calls /\ call[c].todo = << >>
      /\ call[c].at = "ask" /\ call[c].op # "refresh"
  BY LoneAsks DEF Lone, StartRecoveryByEmail, ValidateRecoveryByEmail, StartChangeEmail, Asks
<1>2. ~Leaves(call[c]) /\ ~Refreshes(call[c])
  BY <1>1 DEF Leaves, Refreshes
<1>3. /\ server'.account = server.account /\ server'.linked = server.linked
      /\ server'.pro = server.pro /\ mishaps' = mishaps /\ End(c)
  BY <1>1 DEF StartRecoveryByEmail, ValidateRecoveryByEmail, StartChangeEmail, ServerOK
<1> QED BY <1>1, <1>2, <1>3, EndIsGood DEF Lone

LEMMA RecoveryIsGood ==
  ASSUME NEW c, Lone(c), CompleteRecoveryByEmail(c)
  PROVE  Good(call'[c], db, server', mishaps')
<1> DEFINE e == call[c].email
           srv == TakesSalt(e)
<1>1. /\ SessionOK /\ ServerOK /\ CallsOK /\ c \in Calls /\ db \in Sessions
      /\ Right(server, mishaps, db, FALSE, FALSE) /\ e \in Emails
      /\ (db.loggedIn => e = db.email)
  <2>1. Fresh(call[c], db)
    BY LoneAsks DEF CompleteRecoveryByEmail, Asks
  <2>2. db.loggedIn => e = db.email
    BY <2>1 DEF Fresh, CompleteRecoveryByEmail, Asks
  <2> QED BY <2>2, LoneAsks, HasEmail DEF CompleteRecoveryByEmail, Asks, Lone, AccountCalls, Right
<1>2. NewSalt \in 0..MaxSalts
  BY <1>1, AccountAssumption
  DEF AccountAssumption, CompleteRecoveryByEmail, CanSalt, NewSalt, ServerOK
<1>3. server.account[e] \in [user : Users, salt : 0..MaxSalts]
  BY <1>1 DEF CompleteRecoveryByEmail, ServerOK
<1>4. /\ srv.account = [server.account EXCEPT ![e] = [server.account[e] EXCEPT !.salt = NewSalt]]
      /\ srv.linked = server.linked /\ srv.pro = server.pro
  BY <1>1 DEF TakesSalt, ServerOK
<1>5. \A f \in Emails : /\ srv.account[f].user = server.account[f].user
                        /\ server.account[f] # NoAccount => srv.account[f] # NoAccount
  <2>1. [server.account[e] EXCEPT !.salt = NewSalt].user = server.account[e].user
        /\ server.account[e].user # 0
    BY <1>3 DEF Users
  <2>2. NoAccount.user = 0
    BY DEF NoAccount
  <2> QED BY <1>1, <1>4, <2>1, <2>2 DEF ServerOK
<1>6. srv.account[e].salt = NewSalt /\ srv.account[e] # NoAccount
  <2>1. [server.account[e] EXCEPT !.salt = NewSalt].salt = NewSalt
    BY <1>3
  <2> QED BY <1>1, <1>4, <1>5, <2>1 DEF ServerOK, CompleteRecoveryByEmail
<1> HIDE DEF srv
<1>7. ASSUME NEW s, Is(s, db.email, NewSalt, db.loggedIn, db.pro, db.userID)
      PROVE  Right(srv, mishaps, s, "refresh" = "create", "refresh" = "refresh")
  <2>1. mishaps \subseteq {"email", "limit", "removed"} => Whole(srv, s)
    BY <1>1, <1>5, <1>7 DEF Right, Whole, Is
  <2>2. Salted(srv, s)
    BY <1>1, <1>6, <1>7 DEF Salted, Is
  <2>3. mishaps \subseteq {"code", "contact", "email", "header"} => Anonymous(srv, s)
    BY <1>1, <1>4, <1>5, <1>7 DEF Right, Anonymous, Is
  <2> QED BY <2>1, <2>2, <2>3 DEF Right
<1>8. Makes(SaveUserSalt(NewSalt), db, db.email, NewSalt, db.loggedIn, db.pro, db.userID)
  BY <1>1, <1>2, SettersMake
<1>9. Reply(c, srv, SaveUserSalt(NewSalt), "refresh")
  BY DEF CompleteRecoveryByEmail, srv
<1> QED BY <1>1, <1>7, <1>8, <1>9, ReplyIsGood

LEMMA ChangeIsGood ==
  ASSUME NEW c, Lone(c), CompleteChangeEmail(c)
  PROVE  Good(call'[c], db, server', mishaps')
<1> DEFINE e == call[c].email
           f == call[c].to
<1>1. /\ SessionOK /\ ServerOK /\ CallsOK /\ c \in Calls /\ db \in Sessions
      /\ Right(server, mishaps, db, FALSE, FALSE) /\ e \in Emails /\ f \in Emails
      /\ db.loggedIn /\ e = db.email
  <2>1. Fresh(call[c], db) /\ CallsOK /\ c \in Calls
    BY LoneAsks DEF CompleteChangeEmail, Asks, Lone
  <2>2. db.loggedIn /\ e = db.email
    BY <2>1 DEF Fresh, CompleteChangeEmail, Asks
  <2>3. f \in Emails
    BY <2>1 DEF CallsOK, Able, CompleteChangeEmail, Asks
  <2> QED BY <2>2, <2>3, LoneAsks, HasEmail DEF CompleteChangeEmail, Asks, Lone, AccountCalls, Right
<1>2. server.account[e] # NoAccount /\ server.account[f] = NoAccount /\ e # f
  BY DEF CompleteChangeEmail
<1>3. CASE End(c) /\ "lost" \in mishaps'
  BY <1>1, <1>3, LostIsGood
<1>4. CASE Answered(c, SetEmail(f), "idle") /\ mishaps' = mishaps \cup {"email"}
  <2>1. f # NoEmail /\ f \in E
    BY <1>1, AccountAssumption DEF AccountAssumption, E
  <2>2. Makes(SetEmail(f), db, f, db.salt, db.loggedIn, db.pro, db.userID)
    BY <1>1, <2>1, SettersMake
  <2>3. /\ server'.account = [server.account EXCEPT
             ![f] = [user |-> server.account[e].user, salt |-> NewSalt], ![e] = NoAccount]
        /\ server'.pro = server.pro
    BY <1>1 DEF CompleteChangeEmail, ServerOK
  <2>4. server'.account[f] = [user |-> server.account[e].user, salt |-> NewSalt]
    BY <1>1, <1>2, <2>3 DEF ServerOK
  <2>5. server'.account[f].user = server.account[e].user /\ server'.account[f] # NoAccount
    <3>1. server.account[e].user \in Users
      BY <1>1, <1>2 DEF ServerOK
    <3>2. server.account[e].user # 0
      BY <3>1 DEF Users
    <3> QED BY <2>4, <3>2 DEF NoAccount
  <2>6. ASSUME NEW s, Is(s, f, db.salt, db.loggedIn, db.pro, db.userID)
        PROVE  Right(server', mishaps', s, "idle" = "create", "idle" = "refresh")
    <3>1. mishaps' \subseteq {"email", "limit", "removed"} => Whole(server', s)
      BY <1>1, <1>4, <2>5, <2>6 DEF Right, Whole, Is
    <3>2. Anonymous(server', s)
      BY <1>1, <2>6 DEF Anonymous, Is
    <3>3. mishaps' \subseteq {"code", "contact", "email", "header", "removed"} => ProIs(server', s)
      BY <1>1, <1>4, <2>3, <2>6 DEF Right, ProIs, Is
    <3> QED BY <1>4, <3>1, <3>2, <3>3 DEF Right
  <2> HIDE DEF e, f
  <2> QED BY <1>1, <1>4, <2>2, <2>6, AnsweredIsGood
<1> QED BY <1>3, <1>4 DEF CompleteChangeEmail

LEMMA LinkIsGood ==
  ASSUME NEW c, Lone(c), LinkCodeRedeem(c) \/ ValidateDeviceRecoveryCode(c)
  PROVE  Good(call'[c], db, server', mishaps')
<1>1. /\ SessionOK /\ ServerOK /\ CallsOK /\ c \in Calls /\ db \in Sessions
      /\ Right(server, mishaps, db, FALSE, FALSE) /\ db.loggedIn = FALSE
  <2>1. Fresh(call[c], db) /\ db \in Sessions
    BY LoneAsks DEF LinkCodeRedeem, ValidateDeviceRecoveryCode, Asks
  <2>2. db.loggedIn = FALSE
    BY <2>1 DEF Fresh, LinkCodeRedeem, ValidateDeviceRecoveryCode, Asks, Sessions
  <2> QED BY <2>2, LoneAsks DEF LinkCodeRedeem, ValidateDeviceRecoveryCode, Asks, Lone, Right
<1>2. ASSUME NEW u \in Users, NEW txs, NEW what, NEW l, Linked(c, u, txs, what),
             Makes(SetUserIDAndToken(u) \o txs, db, db.email, db.salt, l, db.pro, u),
             l => "code" \in what, l \in BOOLEAN
      PROVE  Good(call'[c], db, server', mishaps')
  <2>1. server'.account = server.account /\ server'.linked = server.linked \cup {u}
    BY <1>1, <1>2 DEF Linked, ServerOK
  <2>2. CASE End(c) /\ mishaps' = mishaps \cup {"lost"}
    BY <1>1, <2>2, LostIsGood
  <2>3. CASE Answered(c, SetUserIDAndToken(u) \o txs, "refresh") /\ mishaps' = mishaps \cup what
    <3>1. ASSUME NEW s, Is(s, db.email, db.salt, l, db.pro, u)
          PROVE  Right(server', mishaps', s, "refresh" = "create", "refresh" = "refresh")
      <4>1. Anonymous(server', s)
        BY <2>1, <3>1 DEF Anonymous, Is
      <4>2. /\ mishaps' \subseteq {"email", "limit", "removed"} => ~s.loggedIn
            /\ mishaps' \subseteq {"header", "limit", "removed"} => ~s.loggedIn
        BY <1>2, <2>3, <3>1 DEF Is
      <4> QED BY <4>1, <4>2 DEF Right, Whole, Salted
    <3> QED BY <1>1, <1>2, <2>3, <3>1, AnsweredIsGood
  <2> QED BY <1>2, <2>2, <2>3 DEF Linked
<1>3. \A u \in Users : u \in 0..MaxUsers
  BY AccountAssumption DEF AccountAssumption, Users
<1>4. CASE LinkCodeRedeem(c)
  <2>1. PICK u \in Users : Linked(c, u, << >>, {})
    BY <1>4 DEF LinkCodeRedeem
  <2>2. Makes(SetUserIDAndToken(u) \o << >>, db, db.email, db.salt, FALSE, db.pro, u)
    BY <1>1, <1>3, LinkedMakes
  <2> QED BY <1>2, <2>1, <2>2
<1>5. CASE ValidateDeviceRecoveryCode(c)
  <2>1. PICK u \in Users : Linked(c, u, SetLoggedIn(TRUE), {"code"})
    BY <1>5 DEF ValidateDeviceRecoveryCode
  <2>2. Makes(SetUserIDAndToken(u) \o SetLoggedIn(TRUE), db, db.email, db.salt, TRUE, db.pro, u)
    BY <1>1, <1>3, LinkedMakes
  <2> QED BY <1>2, <2>1, <2>2
<1> QED BY <1>4, <1>5

LEMMA ProCallIsGood ==
  ASSUME NEW c, Lone(c), LinkCodeApprove(c) \/ UserLinkRemove(c)
  PROVE  Good(call'[c], db, server', mishaps')
<1> DEFINE k == [call[c] EXCEPT !.at = "refresh"]
<1>1. /\ SessionOK /\ ServerOK /\ CallsOK /\ c \in Calls /\ call[c] \in Call
      /\ call[c].todo = << >> /\ call[c].at = "ask" /\ call[c].op # "refresh"
      /\ call[c].op \notin {"signup"}
  BY LoneAsks DEF LinkCodeApprove, UserLinkRemove, Asks, Lone
<1>2. k.at = "refresh" /\ k.todo = << >> /\ k.op = call[c].op
  BY <1>1 DEF Call
<1>3. /\ server'.account = server.account /\ server'.linked = server.linked
      /\ server'.pro = server.pro /\ mishaps' = mishaps /\ call' = [call EXCEPT ![c] = k]
  BY <1>1 DEF LinkCodeApprove, UserLinkRemove, Goto, ServerOK
<1> HIDE DEF k
<1>4. ~Leaves(call[c]) /\ ~Refreshes(call[c]) /\ ~Leaves(k) /\ Fresh(k, db)
  BY <1>1, <1>2 DEF Leaves, Refreshes, Fresh
<1> QED BY <1>1, <1>2, <1>3, <1>4, ReadsIsGood DEF Lone

LEMMA PurchaseIsGood ==
  ASSUME NEW c, Lone(c), Purchase(c)
  PROVE  Good(call'[c], db, server', mishaps')
<1> DEFINE u == db.userID
           srv == PurchaseRequest(c)
<1>1. /\ SessionOK /\ ServerOK /\ CallsOK /\ c \in Calls /\ db \in Sessions
      /\ Right(server, mishaps, db, FALSE, FALSE) /\ call[c].uid = u
  <2>1. Fresh(call[c], db)
    BY LoneAsks DEF Purchase, Asks
  <2>2. call[c].uid = u
    BY <2>1 DEF Fresh, Purchase, Asks
  <2> QED BY <2>2, LoneAsks DEF Purchase, Asks, Lone, Right
<1>2. u # 0 /\ u \in Users
  BY <1>1, AccountAssumption DEF AccountAssumption, Purchase, Identified, Sessions, Users
<1>3. /\ srv.account = server.account /\ srv.linked = server.linked
      /\ srv.pro = [server.pro EXCEPT ![u] = TRUE]
  BY <1>1 DEF PurchaseRequest, ServerOK
<1>4. srv.pro[u] = TRUE
  BY <1>1, <1>2, <1>3 DEF ServerOK
<1>5. Makes(SetProUser(TRUE), db, db.email, db.salt, db.loggedIn, TRUE, u)
  BY <1>1, SettersMake
<1> HIDE DEF srv
<1>6. ASSUME NEW s, Is(s, db.email, db.salt, db.loggedIn, TRUE, u)
      PROVE  Right(srv, mishaps, s, "idle" = "create", "idle" = "refresh")
  <2>1. ProIs(srv, s)
    BY <1>2, <1>4, <1>6 DEF ProIs, Is
  <2>2. mishaps \subseteq {"email", "limit", "removed"} => Whole(srv, s)
    BY <1>1, <1>3, <1>6 DEF Right, Whole, Is
  <2>3. mishaps \subseteq {"header", "limit", "removed"} => Salted(srv, s)
    BY <1>1, <1>3, <1>6 DEF Right, Salted, Is
  <2>4. mishaps \subseteq {"code", "contact", "email", "header"} => Anonymous(srv, s)
    BY <1>1, <1>3, <1>6 DEF Right, Anonymous, Is
  <2> QED BY <2>1, <2>2, <2>3, <2>4 DEF Right
<1>7. Reply(c, srv, SetProUser(TRUE), "idle")
  BY DEF Purchase, srv
<1> HIDE DEF u
<1> QED BY <1>1, <1>5, <1>6, <1>7, ReplyIsGood

LEMMA DetailIsGood ==
  ASSUME NEW c, Lone(c), UserDetail(c)
  PROVE  Good(call'[c], db, server', mishaps')
<1> DEFINE u == db.userID
<1>1. /\ SessionOK /\ ServerOK /\ CallsOK /\ c \in Calls /\ db \in Sessions
      /\ Right(server, mishaps, db, FALSE, TRUE) /\ call[c].uid = u
  <2>1. Fresh(call[c], db) /\ Right(server, mishaps, db, call[c].at = "create",
                  call[c].wrote /\ call[c].at = "ask" /\ call[c].op = "refresh")
    BY LoneAsks DEF UserDetail, Asks
  <2>2. call[c].uid = u /\ call[c].at = "ask"
    BY <2>1 DEF Fresh, UserDetail, Asks
  <2>3. Right(server, mishaps, db, FALSE, TRUE)
    BY <2>1, <2>2 DEF Right
  <2> QED BY <2>2, <2>3, LoneAsks DEF UserDetail, Asks, Lone
<1>2. u # 0 /\ u \in Users
  BY <1>1, AccountAssumption DEF AccountAssumption, UserDetail, Identified, Sessions, Users
<1>3. PICK e \in E : /\ Answered(c, CacheUserDetail(u, e), "idle")
                     /\ db.loggedIn => e = NoEmail
  BY <1>1 DEF UserDetail, EmailsOf, E
<1>4. Makes(CacheUserDetail(u, e), db, IF e = NoEmail THEN db.email ELSE e, db.salt, db.loggedIn,
            server.pro[u], u)
  BY <1>1, <1>2, DetailMakes
<1>5. server' = server /\ mishaps' = mishaps
  BY DEF UserDetail
<1>6. ASSUME NEW s, Is(s, IF e = NoEmail THEN db.email ELSE e, db.salt, db.loggedIn,
                       server.pro[u], u)
      PROVE  Right(server', mishaps', s, "idle" = "create", "idle" = "refresh")
  <2>1. s.pro = server.pro[u] /\ s.userID = u /\ server.pro[u] \in BOOLEAN
    BY <1>1, <1>2, <1>6 DEF Is, ServerOK
  <2>2. ProIs(server, s)
    BY <1>2, <2>1 DEF ProIs
  <2>3. s.loggedIn => s.email = db.email
    BY <1>3, <1>6 DEF Is
  <2>4. mishaps \subseteq {"email", "limit", "removed"} => Whole(server, s)
    BY <1>1, <1>6, <2>3 DEF Right, Whole, Is
  <2>5. mishaps \subseteq {"header", "limit", "removed"} => Salted(server, s)
    BY <1>1, <1>6, <2>3 DEF Right, Salted, Is
  <2>6. mishaps \subseteq {"code", "contact", "email", "header"} => Anonymous(server, s)
    BY <1>1, <1>6 DEF Right, Anonymous, Is
  <2> QED BY <1>5, <2>2, <2>4, <2>5, <2>6 DEF Right
<1> HIDE DEF u
<1> QED BY <1>1, <1>3, <1>4, <1>6, AnsweredIsGood

LEMMA InitIsGood ==
  ASSUME NEW c, Lone(c), InitSessionModel(c)
  PROVE  Good(call'[c], db, server', mishaps')
<1> DEFINE k == [Idle EXCEPT !.op = IF db.userID = 0 THEN "retry" ELSE "refresh",
                             !.at = IF db.userID = 0 THEN "ask" ELSE "ident"]
<1>1. /\ SessionOK /\ CallsOK /\ c \in Calls /\ call[c].todo = << >> /\ call[c].at = "init"
  BY LoneAsks DEF InitSessionModel, Lone
<1>2. /\ k.todo = << >>
      /\ \/ k.op = "retry" /\ k.at = "ask" /\ db.userID = 0
         \/ k.op = "refresh" /\ k.at = "ident"
  BY DEF Idle
<1>3. call' = [call EXCEPT ![c] = k] /\ server' = server /\ mishaps' = mishaps
  BY DEF InitSessionModel
<1> HIDE DEF k
<1>4. ~Leaves(call[c]) /\ ~Refreshes(call[c]) /\ ~Leaves(k) /\ Fresh(k, db)
  BY <1>1, <1>2 DEF Leaves, Refreshes, Fresh
<1> QED BY <1>1, <1>2, <1>3, <1>4, ReadsIsGood DEF Lone

LEMMA ReadIsGood ==
  ASSUME NEW c, Lone(c), ReadUserID(c)
  PROVE  Good(call'[c], db, server', mishaps')
<1> DEFINE k == [call[c] EXCEPT !.uid = db.userID, !.at = "ask",
                                !.op = IF call[c].at = "refresh" THEN "refresh" ELSE @]
<1>1. /\ SessionOK /\ CallsOK /\ c \in Calls /\ call[c] \in Call
      /\ call[c].todo = << >> /\ call[c].at \in {"ident", "refresh"}
  BY DEF Lone, KInv, IInv, CallsOK, CallsSound, Sound, ReadUserID
<1>2. Fresh(call[c], db)
  BY DEF Lone, Good
<1>3. /\ k.todo = << >> /\ k.at = "ask" /\ k.uid = db.userID /\ k.wrote = call[c].wrote
      /\ k.op = IF call[c].at = "refresh" THEN "refresh" ELSE call[c].op
  BY <1>1 DEF Call
<1>4. call' = [call EXCEPT ![c] = k] /\ server' = server /\ mishaps' = mishaps
  BY DEF ReadUserID
<1> HIDE DEF k
<1>5. ~Leaves(call[c]) /\ ~Leaves(k) /\ (Refreshes(call[c]) => Refreshes(k))
  BY <1>1, <1>3 DEF Leaves, Refreshes
<1>6. Fresh(k, db)
  BY <1>1, <1>2, <1>3 DEF Fresh
<1> QED BY <1>1, <1>3, <1>4, <1>5, <1>6, ReadsIsGood DEF Lone

LEMMA SaltIsGood ==
  ASSUME NEW c, Lone(c), GetSalt(c)
  PROVE  Good(call'[c], db, server', mishaps')
<1> DEFINE k == [call[c] EXCEPT !.salt = server.account[call[c].email].salt, !.at = "ask"]
<1>1. /\ SessionOK /\ CallsOK /\ c \in Calls /\ call[c] \in Call
      /\ call[c].todo = << >> /\ call[c].at = "salt"
  BY DEF Lone, KInv, IInv, CallsOK, CallsSound, Sound, GetSalt
<1>2. Fresh(call[c], db)
  BY DEF Lone, Good
<1>3. k.todo = << >> /\ k.at = "ask" /\ k.op = call[c].op /\ k.email = call[c].email
  BY <1>1 DEF Call
<1>4. call' = [call EXCEPT ![c] = k] /\ server' = server /\ mishaps' = mishaps
  BY DEF GetSalt
<1> HIDE DEF k
<1>5. ~Leaves(call[c]) /\ ~Leaves(k) /\ ~Refreshes(call[c])
  BY <1>1, <1>3 DEF Leaves, Refreshes
<1>6. Fresh(k, db)
  BY <1>1, <1>2, <1>3 DEF Fresh
<1> QED BY <1>1, <1>3, <1>4, <1>5, <1>6, ReadsIsGood DEF Lone

LEMMA FailIsGood ==
  ASSUME NEW c, Lone(c), Fail(c)
  PROVE  Good(call'[c], db, server', mishaps')
<1>1. /\ SessionOK /\ CallsOK /\ c \in Calls /\ call[c].todo = << >>
      /\ call[c].at \in {"salt", "ask", "create"} /\ (call[c].at = "create" => call[c].wrote)
  BY DEF Lone, KInv, IInv, CallsOK, CallsSound, Sound, Fail
<1>2. CASE call[c].wrote
  BY <1>1, <1>2, LostIsGood DEF Fail
<1>3. CASE ~call[c].wrote
  <2>1. ~Leaves(call[c]) /\ ~Refreshes(call[c])
    BY <1>1, <1>3 DEF Leaves, Refreshes
  <2> QED BY <1>1, <1>3, <2>1, EndIsGood DEF Fail, Lone
<1> QED BY <1>2, <1>3

LEMMA WriteIsGood ==
  ASSUME NEW c, Lone(c), Write(c)
  PROVE  Good(call'[c], db', server', mishaps')
<1> USE DEF Lone, KInv, IInv
<1> DEFINE k == call[c]
           rest == Tail(k.todo)
           more == [k EXCEPT !.todo = rest, !.wrote = TRUE]
           on == [k EXCEPT !.todo = rest, !.wrote = TRUE, !.at = k.next]
<1>1. /\ k \in Call /\ k.at = "write" /\ k.todo # << >> /\ k.todo \in Seq(Transaction)
      /\ (k.next = "ident" => k.op = "purchase") /\ k.next \in After
  BY DEF CallsOK, CallsSound, Sound, Able, Call, Write
<1>2. PICK s \in Sessions : Ends(k.todo, db, s) /\ Right(server, mishaps, s, Leaves(k), Refreshes(k))
  BY DEF Good
<1>3. db' = [path \in Paths |->
               IF path \in DOMAIN Head(k.todo) THEN Head(k.todo)[path] ELSE db[path]]
  <2>1. DOMAIN db = Paths
    BY DEF SessionOK, Paths
  <2> QED BY <2>1 DEF Write, Put
<1>4. db \in Sessions
  BY DEF SessionOK, Sessions
<1>5. Ends(rest, db', s)
  BY <1>1, <1>2, <1>3, <1>4, EndsWrite
<1>6. call'[c] = IF rest # << >> THEN more ELSE IF k.next = "idle" THEN Idle ELSE on
  BY DEF Write, CallsOK
<1>7. server' = server /\ mishaps' = mishaps
  BY DEF Write
<1>8. /\ Leaves(k) <=> k.next = "create"
      /\ Refreshes(k) <=> k.next = "refresh"
  BY <1>1 DEF Leaves, Refreshes
<1>9. CASE rest # << >>
  <2>1. more.at = "write" /\ more.todo = rest /\ more.next = k.next
    BY <1>1 DEF Call
  <2> HIDE DEF more, k
  <2>2. Fresh(more, db') /\ (Leaves(more) <=> Leaves(k)) /\ (Refreshes(more) <=> Refreshes(k))
    BY <1>8, <2>1 DEF Fresh, Leaves, Refreshes
  <2>3. Right(server', mishaps', s, Leaves(more), Refreshes(more))
    BY <1>2, <1>7, <2>2 DEF Right
  <2> QED BY <1>2, <1>5, <1>6, <1>9, <2>1, <2>2, <2>3 DEF Good
<1>10. CASE rest = << >> /\ k.next = "idle"
  <2>1. Right(server', mishaps', s, Leaves(Idle), Refreshes(Idle))
    BY <1>2, <1>7, <1>8, <1>10, IdleIsFresh DEF Right
  <2> QED BY <1>2, <1>5, <1>6, <1>10, <2>1, IdleIsFresh DEF Good
<1>11. CASE rest = << >> /\ k.next # "idle"
  <2>1. on.at = k.next /\ on.todo = rest /\ on.op = k.op /\ on.wrote
        /\ k.next \in {"ident", "create", "refresh"}
    BY <1>1, <1>11 DEF Call, After
  <2> HIDE DEF on, k
  <2>2. Fresh(on, db') /\ (Leaves(on) <=> Leaves(k)) /\ (Refreshes(on) <=> Refreshes(k))
    BY <1>1, <1>8, <2>1 DEF Fresh, Leaves, Refreshes
  <2>3. Right(server', mishaps', s, Leaves(on), Refreshes(on))
    BY <1>2, <1>7, <2>2 DEF Right
  <2> QED BY <1>2, <1>5, <1>6, <1>11, <2>1, <2>2, <2>3 DEF Good
<1> QED BY <1>9, <1>10, <1>11

LEMMA StepIsGood ==
  ASSUME NEW c, Lone(c), Step(c), ~Exit
  PROVE  Good(call'[c], db', server', mishaps')
<1>1. CASE Write(c)
  BY <1>1, WriteIsGood
<1>2. CASE ~Write(c)
  <2>1. db' = db
    BY <1>2, StepWrites DEF Lone
  <2> QED
    BY <1>2, <2>1, InitIsGood, RetryIsGood, ReadIsGood, SaltIsGood, FailIsGood, SignUpIsGood,
       LoginIsGood, LeavingIsGood, CreatingIsGood, EndingIsGood, RecoveryIsGood, ChangeIsGood,
       LinkIsGood, ProCallIsGood, PurchaseIsGood, DetailIsGood DEF Step
<1> QED BY <1>1, <1>2

-----------------------------------------------------------------------------
(* A call begins while nothing runs.                                       *)

LEMMA BeginsGood ==
  ASSUME KInv, Good(Idle, db, server, mishaps), NEW c \in Calls, Invoke(c), "overlap" \notin mishaps'
  PROVE  Good(call'[c], db', server', mishaps')
<1> USE DEF KInv, IInv
<1>0. db \in Sessions /\ E = Emails \cup {NoEmail} /\ NoEmail \notin Emails
  BY AccountAssumption DEF AccountAssumption, SessionOK, Sessions, E
<1>1. Right(server, mishaps, db, FALSE, FALSE)
  <2>1. Right(server, mishaps, db, Leaves(Idle), Refreshes(Idle))
    BY GoodNow, IdleIsFresh
  <2> QED BY <2>1, IdleIsFresh DEF Right
<1>2. ASSUME NEW k, Begin(c, k), k.todo = << >>, k.at \in {"salt", "ask", "ident"}, ~k.wrote,
             Fresh(k, db)
      PROVE  Good(call'[c], db', server', mishaps')
  <2>1. call'[c] = k /\ db' = db /\ server' = server /\ mishaps' = mishaps
    BY <1>2 DEF Begin, CallsOK
  <2>2. ~Leaves(k) /\ ~Refreshes(k)
    BY <1>2 DEF Leaves, Refreshes
  <2>3. Right(server, mishaps, db, Leaves(k), Refreshes(k))
    BY <1>1, <2>2 DEF Right
  <2> QED BY <1>2, <2>1, <2>3, GoodNow
<1>3. ASSUME NEW k, Begin(c, k), k.at = "write", NEW e \in Emails, k.todo = SetEmail(e),
             k.next \in {"idle", "ident"}
      PROVE  Good(call'[c], db', server', mishaps')
  <2>1. SetEmail(e) # << >>
    <3>1. SetEmail(e) = <<[email |-> e]>>
      BY <1>0 DEF SetEmail
    <3> QED BY <3>1
  <2>2. call'[c] = k /\ db' = db /\ server' = server /\ mishaps' = mishaps \cup {"contact"}
    BY <1>3, <2>1 DEF Begin, CallsOK
  <2>3. Makes(SetEmail(e), db, e, db.salt, db.loggedIn, db.pro, db.userID)
    BY <1>0, SettersMake
  <2>4. PICK s : Ends(SetEmail(e), db, s) /\ Is(s, e, db.salt, db.loggedIn, db.pro, db.userID)
    BY <2>3 DEF Makes
  <2>5. ~Leaves(k) /\ ~Refreshes(k) /\ Fresh(k, db)
    BY <1>3 DEF Leaves, Refreshes, Fresh
  <2>6. Right(server', mishaps', s, Leaves(k), Refreshes(k)) /\ s \in Sessions
    <3>1. mishaps' \subseteq {"code", "contact", "email", "header"} => Anonymous(server, s)
      BY <1>1, <2>2, <2>4 DEF Right, Anonymous, Is
    <3>2. mishaps' \subseteq {"code", "contact", "email", "header", "removed"} => ProIs(server, s)
      BY <1>1, <2>2, <2>4 DEF Right, ProIs, Is
    <3> QED BY <2>2, <2>4, <2>5, <3>1, <3>2 DEF Right, Is
  <2> QED BY <1>3, <2>2, <2>4, <2>5, <2>6 DEF Good
<1>f. ASSUME NEW op, NEW at, NEW e
      PROVE  /\ ForEmail(op, at, e).at = at /\ ForEmail(op, at, e).todo = << >>
             /\ ForEmail(op, at, e).op = op /\ ForEmail(op, at, e).email = e
             /\ ForEmail(op, at, e).next = "idle" /\ ~ForEmail(op, at, e).wrote
  BY DEF ForEmail, Idle
<1>4. CASE BeginCredentials(c)
  <2>1. PICK e \in Emails, op \in {"signup", "login"} :
          ~db.loggedIn /\ Begin(c, ForEmail(op, IF op = "signup" THEN "ask" ELSE "salt", e))
    BY <1>4 DEF BeginCredentials
  <2>2. Fresh(ForEmail(op, IF op = "signup" THEN "ask" ELSE "salt", e), db)
    BY <1>f, <2>1 DEF Fresh
  <2> QED BY <1>2, <1>f, <2>1, <2>2
<1>5. CASE BeginRecovery(c)
  <2>1. PICK e \in Emails, op \in {"startrecovery", "validaterecovery", "recover"} :
          (db.loggedIn => e = db.email) /\ Begin(c, ForEmail(op, "ask", e))
    BY <1>5 DEF BeginRecovery
  <2>2. Fresh(ForEmail(op, "ask", e), db)
    BY <1>f, <2>1 DEF Fresh
  <2> QED BY <1>2, <1>f, <2>1, <2>2
<1>6. CASE BeginLink(c)
  <2>1. PICK op \in {"redeem", "validate"} : ~db.loggedIn /\ Begin(c, ForEmail(op, "ident", NoEmail))
    BY <1>6 DEF BeginLink
  <2>2. Fresh(ForEmail(op, "ident", NoEmail), db)
    BY <1>f, <2>1 DEF Fresh
  <2> QED BY <1>2, <1>f, <2>1, <2>2
<1>7. CASE BeginProCall(c)
  <2>1. PICK op \in {"approve", "remove", "purchase", "refresh"} :
          Begin(c, ForEmail(op, "ident", NoEmail))
    BY <1>7 DEF BeginProCall
  <2>2. Fresh(ForEmail(op, "ident", NoEmail), db)
    BY <1>f, <2>1 DEF Fresh
  <2> QED BY <1>2, <1>f, <2>1, <2>2
<1>8. CASE BeginSignOut(c)
  <2> DEFINE k == [ForEmail("signout", "ask", db.email) EXCEPT !.uid = db.userID]
  <2>1. k.at = "ask" /\ k.todo = << >> /\ k.op = "signout" /\ ~k.wrote
    BY DEF ForEmail, Idle
  <2>2. Begin(c, k)
    BY <1>8 DEF BeginSignOut
  <2> HIDE DEF k
  <2>3. Fresh(k, db)
    BY <2>1 DEF Fresh
  <2> QED BY <1>2, <2>1, <2>2, <2>3
<1>9. CASE BeginWithProof(c)
  <2> DEFINE k(op) == [ForEmail(op, IF CachedSalt = 0 THEN "salt" ELSE "ask", db.email)
                         EXCEPT !.salt = CachedSalt]
  <2>1. PICK op \in {"delete", "startchange"} : Begin(c, k(op))
    BY <1>9 DEF BeginWithProof
  <2>2. /\ k(op).at \in {"salt", "ask"} /\ k(op).todo = << >> /\ k(op).op = op /\ ~k(op).wrote
        /\ k(op).email = db.email
    BY DEF ForEmail, Idle
  <2>3. db.loggedIn
    BY <1>9 DEF BeginWithProof
  <2> HIDE DEF k
  <2>4. Fresh(k(op), db)
    BY <2>2, <2>3 DEF Fresh
  <2> QED BY <1>2, <2>1, <2>2, <2>4
<1>10. CASE BeginChangeEmail(c)
  <2> DEFINE k(e) == [ForEmail("change", "ask", db.email) EXCEPT !.to = e]
  <2>1. PICK e \in Emails : Begin(c, k(e))
    BY <1>10 DEF BeginChangeEmail
  <2>2. /\ k(e).at = "ask" /\ k(e).todo = << >> /\ k(e).op = "change" /\ ~k(e).wrote
        /\ k(e).email = db.email
    BY DEF ForEmail, Idle
  <2>3. db.loggedIn
    BY <1>10 DEF BeginChangeEmail
  <2> HIDE DEF k
  <2>4. Fresh(k(e), db)
    BY <2>2, <2>3 DEF Fresh
  <2> QED BY <1>2, <2>1, <2>2, <2>4
<1>11. CASE BeginReseller(c)
  <2> DEFINE k(e) == [ForEmail("purchase", "write", NoEmail) EXCEPT !.todo = SetEmail(e),
                                                                   !.next = "ident"]
  <2>1. PICK e \in Emails : Begin(c, k(e))
    BY <1>11 DEF BeginReseller
  <2>2. k(e).at = "write" /\ k(e).todo = SetEmail(e) /\ k(e).next = "ident"
    BY DEF ForEmail, Idle
  <2> HIDE DEF k
  <2> QED BY <1>3, <2>1, <2>2
<1>12. CASE BeginReport(c)
  <2> DEFINE k(e) == [ForEmail("report", "write", NoEmail) EXCEPT !.todo = SetEmail(e)]
  <2>1. PICK e \in Emails : Begin(c, k(e))
    BY <1>12 DEF BeginReport
  <2>2. k(e).at = "write" /\ k(e).todo = SetEmail(e) /\ k(e).next = "idle"
    BY DEF ForEmail, Idle
  <2> HIDE DEF k
  <2> QED BY <1>3, <2>1, <2>2
<1> QED
  BY <1>4, <1>5, <1>6, <1>7, <1>8, <1>9, <1>10, <1>11, <1>12 DEF Invoke

\* While no two calls have overlapped, at most one runs, and it will make a session that is
\* right; the session is right already when none does.
SoloInv ==
  "overlap" \notin mishaps =>
    /\ Alone
    /\ (\A c \in Calls : ~Active(c)) => Good(Idle, db, server, mishaps)
    /\ \A c \in Calls : Active(c) => Good(call[c], db, server, mishaps)

LEMMA RemovalIsGood ==
  ASSUME SessionOK, ServerOK, Elsewhere, NEW k, Good(k, db, server, mishaps)
  PROVE  Good(k, db', server', mishaps')
<1>1. PICK s \in Sessions : Ends(k.todo, db, s) /\ Right(server, mishaps, s, Leaves(k), Refreshes(k))
  BY DEF Good
<1>2. /\ db' = db /\ server'.account = server.account /\ server'.pro = server.pro
      /\ mishaps' = mishaps \cup {"removed"}
  BY DEF Elsewhere, ServerOK
<1>3. /\ mishaps' \subseteq {"email", "limit", "removed"} => Whole(server', s)
      /\ mishaps' \subseteq {"header", "limit", "removed"} => Salted(server', s)
      /\ mishaps' \subseteq {"code", "contact", "email", "header", "removed"}
           => Leaves(k) \/ Refreshes(k) \/ ProIs(server', s)
  BY <1>1, <1>2 DEF Right, Whole, Salted, ProIs
<1>4. Right(server', mishaps', s, Leaves(k), Refreshes(k))
  BY <1>1, <1>2, <1>3 DEF Right
<1>5. Fresh(k, db')
  BY <1>2 DEF Good
<1> QED BY <1>1, <1>2, <1>4, <1>5 DEF Good

\* The process ends, with what ran: the session is as it is.
LEMMA ExitIsGood ==
  ASSUME KInv, SoloInv, Exit, "overlap" \notin mishaps,
         \/ Quiet /\ UNCHANGED mishaps
         \/ "crash" \in mishaps'
         \/ \E c \in Calls : Asks(c, "retry") /\ UNCHANGED mishaps
  PROVE  Good(Idle, db', server', mishaps')
<1> USE DEF KInv, IInv
<1>1. db' = db /\ server' = server
  BY DEF Exit
<1>2. CASE Quiet /\ UNCHANGED mishaps
  BY <1>1, <1>2 DEF SoloInv, Quiet
<1>3. CASE "crash" \in mishaps'
  <2>1. Right(server', mishaps', db, Leaves(Idle), Refreshes(Idle))
    BY <1>3, IdleIsFresh DEF Right
  <2> QED BY <1>1, <2>1, IdleIsFresh, GoodNow
<1>4. ASSUME NEW c \in Calls, Asks(c, "retry"), UNCHANGED mishaps
      PROVE  Good(Idle, db', server', mishaps')
  <2>1. Lone(c)
    BY <1>4 DEF SoloInv, Lone, Active, Asks
  <2>2. Right(server, mishaps, db, FALSE, FALSE)
    BY <1>4, <2>1, LoneAsks DEF Asks, Right
  <2>3. Right(server, mishaps, db, Leaves(Idle), Refreshes(Idle))
    BY <2>2, IdleIsFresh DEF Right
  <2> QED BY <1>1, <1>4, <2>3, IdleIsFresh, GoodNow
<1> QED BY <1>2, <1>3, <1>4

LEMMA SoloStep == KInv /\ SoloInv /\ [Next]_vars => SoloInv'
<1> SUFFICES ASSUME KInv, SoloInv, [Next]_vars, "overlap" \notin mishaps'
             PROVE  /\ Alone'
                    /\ (\A c \in Calls : ~Active(c)') => Good(Idle, db', server', mishaps')
                    /\ \A c \in Calls : Active(c)' => Good(call'[c], db', server', mishaps')
  BY DEF SoloInv
<1>o. "overlap" \notin mishaps
  BY MishapsGrow
<1>k. KInv'
  BY KInvStep
<1>i. Idle.at = "idle"
  BY DEF Idle
<1>1. CASE UNCHANGED vars
  BY <1>o, <1>1 DEF SoloInv, vars, Alone, Active
<1>2. ASSUME Exit, \/ Quiet /\ UNCHANGED mishaps
                   \/ "crash" \in mishaps'
                   \/ \E c \in Calls : Asks(c, "retry") /\ UNCHANGED mishaps
      PROVE  /\ Alone' /\ Good(Idle, db', server', mishaps')
             /\ \A c \in Calls : ~Active(c)'
  <2>1. \A c \in Calls : ~Active(c)'
    BY <1>i, <1>2 DEF Exit, Active
  <2> QED BY <1>o, <1>2, <2>1, ExitIsGood DEF Alone
<1>3. CASE Crash
  BY <1>2, <1>3 DEF Crash
<1>4. CASE Elsewhere
  <2>1. UNCHANGED call
    BY <1>4 DEF Elsewhere
  <2>2. \A k : Good(k, db, server, mishaps) => Good(k, db', server', mishaps')
    BY <1>4, RemovalIsGood DEF KInv, IInv
  <2> QED BY <1>o, <2>1, <2>2 DEF SoloInv, Alone, Active
\* One goroutine moves while the others are idle.
<1>5. ASSUME NEW c \in Calls, Good(call'[c], db', server', mishaps'),
             \A d \in Calls : d # c => call'[d] = Idle
      PROVE  /\ Alone'
             /\ (\A d \in Calls : ~Active(d)') => Good(Idle, db', server', mishaps')
             /\ \A d \in Calls : Active(d)' => Good(call'[d], db', server', mishaps')
  <2>1. \A d \in Calls : Active(d)' => d = c
    BY <1>i, <1>5 DEF Active
  <2>2. ~Active(c)' => call'[c] = Idle
    BY <1>k DEF Active, KInv, CallsSound, Sound
  <2> QED BY <1>5, <2>1, <2>2 DEF Alone
<1>6. ASSUME NEW c \in Calls, NewSessionModel(c)
      PROVE  Good(call'[c], db', server', mishaps') /\ \A d \in Calls : d # c => call'[d] = Idle
  <2> DEFINE k == [Idle EXCEPT !.op = "init", !.at = "init"]
  <2>1. k.at = "init" /\ k.todo = << >> /\ k.op = "init" /\ ~k.wrote
    BY DEF Idle
  <2>2. /\ call' = [call EXCEPT ![c] = k] /\ server' = server /\ mishaps' = mishaps /\ db' = db
        /\ \A d \in Calls : call[d] = Idle
    BY <1>6 DEF NewSessionModel, KInv
  <2> HIDE DEF k
  <2>3. ~Leaves(k) /\ Fresh(k, db)
    BY <2>1 DEF Leaves, Fresh
  <2>4. Good(Idle, db, server, mishaps)
    BY <1>o, <1>i, <2>2 DEF SoloInv, Active
  <2>5. Good(call'[c], db, server', mishaps')
    BY <2>1, <2>2, <2>3, <2>4, ReadsIsGood, IdleIsFresh DEF KInv, IInv
  <2> QED BY <2>2, <2>5 DEF KInv, IInv, CallsOK
<1>7. ASSUME NEW c \in Calls, Invoke(c)
      PROVE  Good(call'[c], db', server', mishaps') /\ \A d \in Calls : d # c => call'[d] = Idle
  <2>1. PICK k : Begin(c, k)
    BY <1>7 DEF Invoke, BeginCredentials, BeginRecovery, BeginSignOut, BeginWithProof,
                BeginChangeEmail, BeginLink, BeginProCall, BeginReseller, BeginReport
  <2>2. \A d \in Calls : ~Active(d)
    BY <2>1 DEF Begin
  <2>3. \A d \in Calls : call[d] = Idle
    BY <2>2 DEF Active, KInv, CallsSound, Sound
  <2>4. Good(Idle, db, server, mishaps)
    BY <1>o, <2>2 DEF SoloInv
  <2>5. Good(call'[c], db', server', mishaps')
    BY <1>7, <2>4, BeginsGood
  <2> QED BY <2>1, <2>3, <2>5 DEF Begin, KInv, IInv, CallsOK
<1>8. ASSUME NEW c \in Calls, Step(c), ~Exit
      PROVE  Good(call'[c], db', server', mishaps') /\ \A d \in Calls : d # c => call'[d] = Idle
  <2>1. Active(c)
    BY <1>8, StepsAreOfActive
  <2>2. Lone(c) /\ \A d \in Calls : d # c => call[d] = Idle
    BY <1>o, <2>1 DEF SoloInv, Lone, Alone, Active, KInv, CallsSound, Sound
  <2>3. PICK k : call' = [call EXCEPT ![c] = k]
    BY <1>8, StepsAreOfOne DEF KInv, IInv, CallsOK
  <2> QED BY <1>8, <2>2, <2>3, StepIsGood DEF KInv, IInv, CallsOK
<1>9. ASSUME NEW c \in Calls, Step(c), Exit
      PROVE  \E d \in Calls : Asks(d, "retry") /\ UNCHANGED mishaps
  <2>1. up = TRUE
    BY <1>9, <1>i, StepsAreOfActive DEF KInv, Active
  <2> QED BY <1>9, <2>1, StepKeepsUp DEF Exit
<1> QED BY <1>1, <1>2, <1>3, <1>4, <1>5, <1>6, <1>7, <1>8, <1>9 DEF Next

LEMMA StartAlone == Init => SoloInv
<1> SUFFICES ASSUME Init PROVE SoloInv
  OBVIOUS
<1>1. \A c \in Calls : call[c] = Idle /\ ~Active(c)
  BY DEF Init, Active, Idle
<1>2. db.loggedIn = FALSE /\ db.userID = 0 /\ db.pro = FALSE /\ SessionOK
  BY Start DEF Init, IInv
<1>3. Right(server, mishaps, db, Leaves(Idle), Refreshes(Idle))
  BY <1>2, IdleIsFresh DEF Right, Whole, Salted, Anonymous, ProIs
<1> QED BY <1>1, <1>2, <1>3, IdleIsFresh, GoodNow DEF SoloInv, Alone

LEMMA OneAtATime == Spec => [](KInv /\ SoloInv)
<1>1. KInv /\ SoloInv /\ [Next]_vars => (KInv /\ SoloInv)'
  BY KInvStep, SoloStep
<1> QED BY StartKnown, StartAlone, <1>1, PTL DEF Spec

\* Nothing runs: the session is right.
LEMMA QuietIsRight ==
  ASSUME KInv, SoloInv, Quiet, "overlap" \notin mishaps
  PROVE  Right(server, mishaps, db, FALSE, FALSE)
<1>1. Good(Idle, db, server, mishaps)
  BY DEF Quiet, SoloInv
<1>2. Right(server, mishaps, db, Leaves(Idle), Refreshes(Idle))
  BY <1>1, GoodNow, IdleIsFresh DEF KInv, IInv
<1> QED BY <1>2, IdleIsFresh DEF Right

-----------------------------------------------------------------------------
(* The theorems.                                                           *)

\* SessionModel, SetUserIDAndToken and every answer that ends in it: at every moment, whatever
\* goroutines overlap, whichever answers are lost and wherever the process dies, the token
\* stored is that of the user stored.
THEOREM IdentityStays == Spec => []TokenIsTheUsers
<1>1. KInv => TokenIsTheUsers
  BY DEF KInv, IInv
<1> QED BY Known, <1>1, PTL

\* The session, the servers' records and the identity captured stay what their users take
\* them for.
THEOREM TypeCorrect == Spec => []TypeOK
<1>1. KInv => TypeOK
  BY AccountAssumption DEF AccountAssumption, KInv, IInv, SessionOK, ServerOK, TypeOK, E, Account,
     NoAccount, Users
<1> QED BY Known, <1>1, PTL

\* initSessionModel, createUser, retryCreateUser, deleteAccount, signOut: whatever goroutines
\* overlap and wherever the process dies, when none is running the session has a user, unless
\* a request was lost in the middle of a call.
THEOREM AlwaysAUser == Spec => []QuietHasUser
<1>1. Init => HasUser
  BY DEF Init, HasUser
<1>2. HasUser /\ KInv => QuietHasUser
  <2> SUFFICES ASSUME HasUser, KInv, Quiet, "lost" \notin mishaps, db.userID = 0 PROVE FALSE
    BY DEF QuietHasUser
  <2>1. PICK c \in Calls : Brings(call[c])
    BY DEF Quiet, HasUser
  <2> QED BY <2>1 DEF Quiet, Active, Brings
<1>3. Spec => []HasUser
  BY Known, <1>1, HasUserStep, PTL DEF Spec
<1> QED BY Known, <1>2, <1>3, PTL

\* signup, login, completeChangeEmail, deleteAccount, signOut: who is shown as logged in is
\* the user of the account shown, unless calls overlapped, the process died in one, an answer
\* was lost in one, or a mishap of the list of WholeLogin's other ones came between.
THEOREM LoginIsWhole == Spec => []WholeLogin
<1>1. KInv /\ SoloInv => WholeLogin
  BY QuietIsRight, AccountAssumption DEF AccountAssumption, WholeLogin, Right, Whole
<1> QED BY OneAtATime, <1>1, PTL

\* srp, getUserSalt, completeRecoveryByEmail: the salt cached is the one that proves the
\* password of who is logged in.
THEOREM CachedSaltProves == Spec => []SaltProves
<1>1. KInv /\ SoloInv => SaltProves
  BY QuietIsRight, AccountAssumption DEF AccountAssumption, SaltProves, Right, Salted, Proves
<1> QED BY OneAtATime, <1>1, PTL

\* signOut, deleteAccount, redeem: what was signed out of or deleted stays gone.
THEOREM SignedOutStaysOut == Spec => []SignedOutIsAnonymous
<1>1. KInv /\ SoloInv => SignedOutIsAnonymous
  BY QuietIsRight DEF SignedOutIsAnonymous, Right, Anonymous, EmailsOf
<1> QED BY OneAtATime, <1>1, PTL

\* SetProUser, cacheUserDetail and the calls that end in them: the session says pro when the
\* server does.
THEOREM ProIsRight == Spec => []ProIsTheServers
<1>1. KInv /\ SoloInv => ProIsTheServers
  BY QuietIsRight DEF ProIsTheServers, Right, ProIs
<1> QED BY OneAtATime, <1>1, PTL
=============================================================================
