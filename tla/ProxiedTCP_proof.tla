-------------------------- MODULE ProxiedTCP_proof --------------------------
(* Safety of the TCP handler for any finite number of connections and any   *)
(* number of dialing goroutines.                                            *)
EXTENDS ProxiedTCP, FiniteSetTheorems, TLAPS

(***************************************************************************)
(* The strengthening follows one connection through its life: a dialer     *)
(* that holds its request is the only one and has Handle waiting for it;   *)
(* copy() exists only after Handle has returned; and each resource is held *)
(* by the place where the connection is in this life.                      *)
(***************************************************************************)

\* At most one dialer holds the request of a connection.
OneDialer ==
  \A v, w \in Dialers : req[v] = req[w] /\ req[v] # NoConn => v = w

\* Handle has an answer only from its receive on, and registers only upstreams.
AnswerOrder ==
  \A c \in Conns :
    /\ hpc[c] = "register" => answer[c] = "upstream"
    /\ cpc[c] # "none" => hpc[c] = "returned"

\* An open upstream is with the dialer, Handle or copy().
UpstreamIsHeld ==
  \A c \in Conns : up[c] = "open" =>
    \/ \E w \in Dialers : req[w] = c /\ dpc[w] = "sendUp"
    \/ answer[c] = "upstream" /\ hpc[c] \in {"decide", "register"}
    \/ cpc[c] \in {"spawned", "copying", "delete", "closeUp"}

\* So are the entry in the map, the context, and the downstream.
Busy(c) == hpc[c] \in {"queue", "select", "decide", "register"}
ResourcesAreHeld ==
  \A c \in Conns :
    /\ c \in upstreams => hpc[c] = "register" \/ cpc[c] \in {"spawned", "copying", "delete"}
    /\ ctx[c] \in {"live", "expired"} => Busy(c) \/ cpc[c] \notin {"none", "done"}
    /\ outcome[c] = "ok" => cpc[c] # "none"
    /\ cpc[c] \in {"uncount", "cancel", "done"} => down[c] = "closed"

\* The counters count.
Dialing == {c \in Conns : hpc[c] \in {"queue", "select"}}
Copying == {c \in Conns : cpc[c] \in {"copying", "delete", "closeUp", "closeDown", "uncount"}}
Counted == dialingConns = Cardinality(Dialing) /\ copyingConns = Cardinality(Copying)

Held == AnswerHasReceiver /\ OneDialer /\ AnswerOrder /\ UpstreamIsHeld /\ ResourcesAreHeld
IInv == TypeOK /\ Held /\ Counted

-----------------------------------------------------------------------------
(* Every action keeps the variables in their types.                        *)
LEMMA TypeStep == TypeOK /\ [Next]_vars => TypeOK'
<1> SUFFICES ASSUME TypeOK, [Next]_vars PROVE TypeOK'
  OBVIOUS
<1> USE NoConnAssumption DEF TypeOK, NoConnAssumption, handle, dialer, stats
<1>1. ASSUME NEW c \in Conns, HandleInvalid(c) PROVE TypeOK'
  BY <1>1 DEF HandleInvalid
<1>2. ASSUME NEW c \in Conns, HandleStart(c) PROVE TypeOK'
  BY <1>2 DEF HandleStart
<1>3. ASSUME NEW c \in Conns, ReceiveUpstream(c) PROVE TypeOK'
  BY <1>3 DEF ReceiveUpstream
<1>4. ASSUME NEW c \in Conns, ReceiveErr(c) PROVE TypeOK'
  BY <1>4 DEF ReceiveErr
<1>5. ASSUME NEW c \in Conns, Refuse(c) PROVE TypeOK'
  BY <1>5 DEF Refuse
<1>6. ASSUME NEW c \in Conns, Register(c) PROVE TypeOK'
  BY <1>6 DEF Register
<1>7. ASSUME NEW c \in Conns, Spawn(c) PROVE TypeOK'
  BY <1>7 DEF Spawn
<1>8. ASSUME NEW c \in Conns, Timeout(c) PROVE TypeOK'
  BY <1>8 DEF Timeout
<1>9. ASSUME NEW c \in Conns, CopyStart(c) PROVE TypeOK'
  BY <1>9 DEF CopyStart
<1>10. ASSUME NEW c \in Conns, CopyCloseEarly(c) PROVE TypeOK'
  BY <1>10 DEF CopyCloseEarly
<1>11. ASSUME NEW c \in Conns, CopyEnd(c) PROVE TypeOK'
  BY <1>11 DEF CopyEnd
<1>12. ASSUME NEW c \in Conns, DeferDelete(c) PROVE TypeOK'
  BY <1>12 DEF DeferDelete
<1>13. ASSUME NEW c \in Conns, DeferCloseUp(c) PROVE TypeOK'
  BY <1>13 DEF DeferCloseUp
<1>14. ASSUME NEW c \in Conns, DeferCloseDown(c) PROVE TypeOK'
  BY <1>14 DEF DeferCloseDown
<1>15. ASSUME NEW c \in Conns, DeferUncount(c) PROVE TypeOK'
  BY <1>15 DEF DeferUncount
<1>16. ASSUME NEW c \in Conns, Cancel(c) PROVE TypeOK'
  BY <1>16 DEF Cancel
<1>17. ASSUME NEW c \in Conns, NEW w \in Dialers, Dispatch(c, w) PROVE TypeOK'
  BY <1>17 DEF Dispatch
<1>18. ASSUME NEW w \in Dialers, DialOk(w) PROVE TypeOK'
  BY <1>18 DEF DialOk
<1>19. ASSUME NEW w \in Dialers, DialFail(w) PROVE TypeOK'
  BY <1>19 DEF DialFail
<1>20. CASE UNCHANGED vars
  BY <1>20 DEF vars
<1> QED
  BY <1>1, <1>2, <1>3, <1>4, <1>5, <1>6, <1>7, <1>8, <1>9, <1>10, <1>11, <1>12, <1>13, <1>14, <1>15, <1>16, <1>17, <1>18, <1>19, <1>20 DEF Next

(* Every action hands each resource on or releases it.                     *)
LEMMA HeldStep == ASSUME TypeOK, TypeOK', Held, [Next]_vars PROVE Held'
<1> USE NoConnAssumption DEF NoConnAssumption, Held, AnswerHasReceiver, OneDialer, AnswerOrder,
        UpstreamIsHeld, ResourcesAreHeld, Busy, TypeOK, handle, dialer, stats
<1>1. ASSUME NEW c \in Conns, HandleInvalid(c) PROVE Held'
  BY <1>1 DEF HandleInvalid
<1>2. ASSUME NEW c \in Conns, HandleStart(c) PROVE Held'
  BY <1>2 DEF HandleStart
<1>3. ASSUME NEW c \in Conns, ReceiveUpstream(c) PROVE Held'
  BY <1>3 DEF ReceiveUpstream
<1>4. ASSUME NEW c \in Conns, ReceiveErr(c) PROVE Held'
  BY <1>4 DEF ReceiveErr
<1>5. ASSUME NEW c \in Conns, Refuse(c) PROVE Held'
  BY <1>5 DEF Refuse
<1>6. ASSUME NEW c \in Conns, Register(c) PROVE Held'
  BY <1>6 DEF Register
<1>7. ASSUME NEW c \in Conns, Spawn(c) PROVE Held'
  BY <1>7 DEF Spawn
<1>8. ASSUME NEW c \in Conns, Timeout(c) PROVE Held'
  BY <1>8 DEF Timeout
<1>9. ASSUME NEW c \in Conns, CopyStart(c) PROVE Held'
  BY <1>9 DEF CopyStart
<1>10. ASSUME NEW c \in Conns, CopyCloseEarly(c) PROVE Held'
  BY <1>10 DEF CopyCloseEarly
<1>11. ASSUME NEW c \in Conns, CopyEnd(c) PROVE Held'
  BY <1>11 DEF CopyEnd
<1>12. ASSUME NEW c \in Conns, DeferDelete(c) PROVE Held'
  BY <1>12 DEF DeferDelete
<1>13. ASSUME NEW c \in Conns, DeferCloseUp(c) PROVE Held'
  BY <1>13 DEF DeferCloseUp
<1>14. ASSUME NEW c \in Conns, DeferCloseDown(c) PROVE Held'
  BY <1>14 DEF DeferCloseDown
<1>15. ASSUME NEW c \in Conns, DeferUncount(c) PROVE Held'
  BY <1>15 DEF DeferUncount
<1>16. ASSUME NEW c \in Conns, Cancel(c) PROVE Held'
  BY <1>16 DEF Cancel
<1>17. ASSUME NEW c \in Conns, NEW w \in Dialers, Dispatch(c, w) PROVE Held'
  BY <1>17 DEF Dispatch
<1>18. ASSUME NEW w \in Dialers, DialOk(w) PROVE Held'
  BY <1>18 DEF DialOk
<1>19. ASSUME NEW w \in Dialers, DialFail(w) PROVE Held'
  BY <1>19 DEF DialFail
<1>20. CASE UNCHANGED vars
  BY <1>20 DEF vars
<1> QED
  BY <1>1, <1>2, <1>3, <1>4, <1>5, <1>6, <1>7, <1>8, <1>9, <1>10, <1>11, <1>12, <1>13, <1>14, <1>15, <1>16, <1>17, <1>18, <1>19, <1>20 DEF Next

(* A set of connections that gains or loses one member changes its         *)
(* cardinality by one.                                                     *)
LEMMA CountConns ==
  ASSUME NEW S \in SUBSET Conns
  PROVE  /\ Cardinality(S) \in Nat
         /\ Cardinality({}) = 0
         /\ \A c \in Conns \ S : Cardinality(S \cup {c}) = Cardinality(S) + 1
         /\ \A c \in S : Cardinality(S \ {c}) = Cardinality(S) - 1
<1>1. IsFiniteSet(S)
  BY FS_Subset, FiniteAssumption DEF FiniteAssumption
<1> QED BY <1>1, FS_CardinalityType, FS_EmptySet, FS_AddElement, FS_RemoveElement

(* Every action that moves a connection in or out of a count adjusts it.   *)
LEMMA CountStep == ASSUME TypeOK, Counted, Held, [Next]_vars PROVE Counted'
<1> USE DEF Counted, handle, dialer, stats
<1>1. Dialing \in SUBSET Conns /\ Copying \in SUBSET Conns
  BY DEF Dialing, Copying
<1>2. ASSUME UNCHANGED <<dialingConns, copyingConns>>,
             Dialing' = Dialing, Copying' = Copying
      PROVE  Counted'
  BY <1>2
<1>3. ASSUME NEW c \in Conns, HandleStart(c) PROVE Counted'
  <2>1. c \notin Dialing /\ Dialing' = Dialing \cup {c} /\ Copying' = Copying
    BY <1>3 DEF HandleStart, Dialing, Copying, TypeOK
  <2> QED BY <1>1, <1>3, <2>1, CountConns DEF HandleStart
<1>4. ASSUME NEW c \in Conns, ReceiveUpstream(c) \/ ReceiveErr(c) PROVE Counted'
  <2>1. c \in Dialing /\ Dialing' = Dialing \ {c} /\ Copying' = Copying
    BY <1>4 DEF ReceiveUpstream, ReceiveErr, Dialing, Copying, TypeOK
  <2> QED BY <1>1, <1>4, <2>1, CountConns DEF ReceiveUpstream, ReceiveErr
<1>5. ASSUME NEW c \in Conns, CopyStart(c) PROVE Counted'
  <2>1. c \notin Copying /\ Copying' = Copying \cup {c} /\ Dialing' = Dialing
    BY <1>5 DEF CopyStart, Dialing, Copying, TypeOK
  <2> QED BY <1>1, <1>5, <2>1, CountConns DEF CopyStart
<1>6. ASSUME NEW c \in Conns, DeferUncount(c) PROVE Counted'
  <2>1. c \in Copying /\ Copying' = Copying \ {c} /\ Dialing' = Dialing
    BY <1>6 DEF DeferUncount, Dialing, Copying, TypeOK
  <2> QED BY <1>1, <1>6, <2>1, CountConns DEF DeferUncount
<1>7. ASSUME NEW c \in Conns,
             \/ HandleInvalid(c) \/ Refuse(c) \/ Register(c) \/ Spawn(c) \/ Timeout(c)
             \/ CopyCloseEarly(c) \/ CopyEnd(c) \/ DeferDelete(c) \/ DeferCloseUp(c)
             \/ DeferCloseDown(c) \/ Cancel(c)
      PROVE  Counted'
  <2>1. Dialing' = Dialing /\ Copying' = Copying /\ UNCHANGED <<dialingConns, copyingConns>>
    BY <1>7 DEF HandleInvalid, Refuse, Register, Spawn, Timeout, CopyCloseEarly, CopyEnd,
       DeferDelete, DeferCloseUp, DeferCloseDown, Cancel, Dialing, Copying, TypeOK, Held, AnswerOrder
  <2> QED BY <1>2, <2>1
<1>8. ASSUME NEW w \in Dialers,
             DialOk(w) \/ DialFail(w) \/ \E c \in Conns : Dispatch(c, w)
      PROVE  Counted'
  <2>1. Dialing' = Dialing /\ Copying' = Copying /\ UNCHANGED <<dialingConns, copyingConns>>
    BY <1>8 DEF DialOk, DialFail, Dispatch, Dialing, Copying, TypeOK
  <2> QED BY <1>2, <2>1
<1>9. CASE UNCHANGED vars
  BY <1>2, <1>9 DEF vars, Dialing, Copying
<1> QED BY <1>3, <1>4, <1>5, <1>6, <1>7, <1>8, <1>9 DEF Next

-----------------------------------------------------------------------------
(* The invariant holds in every reachable state.                           *)
THEOREM Invariance == Spec => []IInv
<1>1. Init => IInv
  <2> SUFFICES ASSUME Init PROVE IInv
    OBVIOUS
  <2>1. TypeOK
    BY NoConnAssumption DEF Init, TypeOK
  <2>2. Held
    BY DEF Init, Held, AnswerHasReceiver, OneDialer, AnswerOrder, UpstreamIsHeld, ResourcesAreHeld
  <2>3. Dialing = {} /\ Copying = {}
    BY DEF Init, Dialing, Copying
  <2> QED BY <2>1, <2>2, <2>3, CountConns DEF Init, IInv, Counted
<1>2. IInv /\ [Next]_vars => IInv'
  BY TypeStep, HeldStep, CountStep DEF IInv
<1> QED BY <1>1, <1>2, PTL DEF Spec

(* Types of the handler's variables, for any number of connections.        *)
THEOREM TypeCorrect == Spec => []TypeOK
<1>1. IInv => TypeOK
  BY DEF IInv
<1> QED BY <1>1, Invariance, PTL

(* A dialer that answers on the request's unbuffered channels always finds *)
(* the Handle of that request in its select.                               *)
THEOREM AnswersAreReceived == Spec => []AnswerHasReceiver
<1>1. IInv => AnswerHasReceiver
  BY DEF IInv, Held
<1> QED BY <1>1, Invariance, PTL

(* Every open upstream has exactly one owner who will close it or pass it  *)
(* on: dialer, Handle or copy.                                             *)
THEOREM UpstreamsAreOwned == Spec => []UpstreamHasOneOwner
<1>1. IInv => UpstreamHasOneOwner
  <2> SUFFICES ASSUME IInv, NEW c \in Conns, up[c] = "open"
               PROVE  Cardinality(OwnersOf(c)) = 1
    BY DEF UpstreamHasOneOwner
  <2> USE DEF IInv, Held
  <2>1. \E x : OwnersOf(c) = {x}
    <3>1. CASE \E w \in Dialers : req[w] = c /\ dpc[w] = "sendUp"
      <4>1. PICK w \in Dialers : req[w] = c /\ dpc[w] = "sendUp"
        BY <3>1
      <4>2. {v \in Dialers : req[v] = c /\ dpc[v] = "sendUp"} = {w}
        BY <4>1, NoConnAssumption DEF OneDialer, NoConnAssumption
      <4>3. hpc[c] = "select"
        BY <4>1 DEF AnswerHasReceiver
      <4>4. cpc[c] = "none"
        BY <4>3 DEF AnswerOrder
      <4>5. OwnersOf(c) = {<<"dialer", w>>}
        BY <4>2, <4>3, <4>4 DEF OwnersOf
      <4> QED BY <4>5
    <3>2. CASE ~\E w \in Dialers : req[w] = c /\ dpc[w] = "sendUp"
      <4>1. {v \in Dialers : req[v] = c /\ dpc[v] = "sendUp"} = {}
        BY <3>2
      <4>2. CASE answer[c] = "upstream" /\ hpc[c] \in {"decide", "register"}
        <5>1. cpc[c] = "none"
          BY <4>2 DEF AnswerOrder
        <5>2. OwnersOf(c) = {<<"handle", c>>}
          BY <4>1, <4>2, <5>1 DEF OwnersOf
        <5> QED BY <5>2
      <4>3. CASE cpc[c] \in {"spawned", "copying", "delete", "closeUp"}
        <5>1. hpc[c] = "returned"
          BY <4>3 DEF AnswerOrder
        <5>2. OwnersOf(c) = {<<"copy", c>>}
          BY <4>1, <4>3, <5>1 DEF OwnersOf
        <5> QED BY <5>2
      <4> QED BY <3>2, <4>2, <4>3 DEF UpstreamIsHeld
    <3> QED BY <3>1, <3>2
  <2>2. PICK x : OwnersOf(c) = {x}
    BY <2>1
  <2> QED BY <2>2, FS_Singleton
<1> QED BY <1>1, Invariance, PTL

(* A connection that is over has left no entry, upstream or context; when  *)
(* all are over, the counters are zero.                                    *)
THEOREM NothingIsLeft == Spec => []NothingLeftBehind
<1>1. IInv => NothingLeftBehind
  <2> SUFFICES ASSUME IInv PROVE NothingLeftBehind
    OBVIOUS
  <2> USE DEF IInv, Held
  <2> DEFINE Over(c) == hpc[c] = "returned" /\ cpc[c] \in {"none", "done"}
  <2>1. ASSUME NEW c \in Conns, Over(c)
        PROVE  /\ c \notin upstreams
               /\ up[c] # "open"
               /\ ctx[c] \in {"none", "cancelled"}
               /\ outcome[c] = "ok" => down[c] = "closed"
    BY <2>1 DEF ResourcesAreHeld, UpstreamIsHeld, AnswerHasReceiver, Busy, TypeOK
  <2>2. ASSUME \A c \in Conns : Over(c)
        PROVE  dialingConns = 0 /\ copyingConns = 0
    <3>1. Dialing = {} /\ Copying = {}
      BY <2>2 DEF Dialing, Copying
    <3> QED BY <3>1, CountConns DEF Counted
  <2> QED BY <2>1, <2>2 DEF NothingLeftBehind
<1> QED BY <1>1, Invariance, PTL

-----------------------------------------------------------------------------
(***************************************************************************)
(* The handler implements ConnLife.  Where a connection is in its life     *)
(* says what has become of its upstream, and a Handle that waits for an    *)
(* answer occupies a dialer, of which there are maxConcurrentDials.        *)
(***************************************************************************)

\* A Handle in its select waits for a dialer, and leaves it with an answer.
Answered ==
  \A c \in Conns :
    /\ hpc[c] = "select" => \E w \in Dialers : req[w] = c
    /\ hpc[c] = "decide" => answer[c] # "none"

\* The upstream is open from the dialer's answer to copy(), which closes it.
UpstreamFollows ==
  /\ \A w \in Dialers : dpc[w] = "sendUp" => up[req[w]] = "open"
  /\ \A c \in Conns :
       /\ hpc[c] \in {"decide", "register"} /\ answer[c] = "upstream" => up[c] = "open"
       /\ cpc[c] = "spawned" => up[c] = "open"
       /\ cpc[c] \in {"copying", "delete", "closeUp"} => up[c] \in {"open", "closed"}
       /\ cpc[c] \in {"closeDown", "uncount", "cancel", "done"} => up[c] = "closed"

LInv == IInv /\ Answered /\ UpstreamFollows

(* Every action keeps the upstream in step with the connection.            *)
LEMMA LifeInvStep ==
  ASSUME LInv, [Next]_vars
  PROVE  Answered' /\ UpstreamFollows'
<1> DEFINE Goal == Answered' /\ UpstreamFollows'
<1> USE NoConnAssumption DEF NoConnAssumption, LInv, IInv, Held, AnswerHasReceiver, OneDialer,
        AnswerOrder, Answered, UpstreamFollows, TypeOK, handle, dialer, stats
<1>1. ASSUME NEW c \in Conns, HandleInvalid(c) PROVE Goal
  BY <1>1 DEF HandleInvalid
<1>2. ASSUME NEW c \in Conns, HandleStart(c) PROVE Goal
  BY <1>2 DEF HandleStart
<1>3. ASSUME NEW c \in Conns, ReceiveUpstream(c) PROVE Goal
  BY <1>3 DEF ReceiveUpstream
<1>4. ASSUME NEW c \in Conns, ReceiveErr(c) PROVE Goal
  BY <1>4 DEF ReceiveErr
<1>5. ASSUME NEW c \in Conns, Refuse(c) PROVE Goal
  BY <1>5 DEF Refuse
<1>6. ASSUME NEW c \in Conns, Register(c) PROVE Goal
  BY <1>6 DEF Register
<1>7. ASSUME NEW c \in Conns, Spawn(c) PROVE Goal
  BY <1>7 DEF Spawn
<1>8. ASSUME NEW c \in Conns, Timeout(c) PROVE Goal
  BY <1>8 DEF Timeout
<1>9. ASSUME NEW c \in Conns, CopyStart(c) PROVE Goal
  BY <1>9 DEF CopyStart
<1>10. ASSUME NEW c \in Conns, CopyCloseEarly(c) PROVE Goal
  BY <1>10 DEF CopyCloseEarly
<1>11. ASSUME NEW c \in Conns, CopyEnd(c) PROVE Goal
  BY <1>11 DEF CopyEnd
<1>12. ASSUME NEW c \in Conns, DeferDelete(c) PROVE Goal
  BY <1>12 DEF DeferDelete
<1>13. ASSUME NEW c \in Conns, DeferCloseUp(c) PROVE Goal
  BY <1>13 DEF DeferCloseUp
<1>14. ASSUME NEW c \in Conns, DeferCloseDown(c) PROVE Goal
  BY <1>14 DEF DeferCloseDown
<1>15. ASSUME NEW c \in Conns, DeferUncount(c) PROVE Goal
  BY <1>15 DEF DeferUncount
<1>16. ASSUME NEW c \in Conns, Cancel(c) PROVE Goal
  BY <1>16 DEF Cancel
<1>17. ASSUME NEW c \in Conns, NEW w \in Dialers, Dispatch(c, w) PROVE Goal
  BY <1>17 DEF Dispatch
<1>18. ASSUME NEW w \in Dialers, DialOk(w) PROVE Goal
  BY <1>18 DEF DialOk
<1>19. ASSUME NEW w \in Dialers, DialFail(w) PROVE Goal
  BY <1>19 DEF DialFail
<1>20. CASE UNCHANGED vars
  BY <1>20 DEF vars
<1> QED
  BY <1>1, <1>2, <1>3, <1>4, <1>5, <1>6, <1>7, <1>8, <1>9, <1>10, <1>11, <1>12, <1>13, <1>14, <1>15, <1>16, <1>17, <1>18, <1>19, <1>20 DEF Next

(* The same, in every reachable state.                                     *)
THEOREM LifeInvariance == Spec => []LInv
<1>1. Init => Answered /\ UpstreamFollows
  BY DEF Init, Answered, UpstreamFollows
<1>2. LInv /\ IInv' /\ [Next]_vars => LInv'
  BY LifeInvStep DEF LInv
<1>3. Init /\ IInv => LInv
  BY <1>1 DEF LInv
<1> QED BY <1>2, <1>3, Invariance, PTL DEF Spec

(* One connection goes on in its life, the others stay where they are.     *)
LEMMA Becomes ==
  ASSUME NEW c \in Conns, NEW a, NEW b, lifeOf(c) = a, lifeOf(c)' = b,
         \A d \in Conns \ {c} : lifeOf(d)' = lifeOf(d)
  PROVE  Life!Become(c, a, b)
BY DEF Life!Become

(* While a connection waits for a dialer that is idle, fewer than          *)
(* Cardinality(Dialers) connections are being dialed.                      *)
LEMMA DialerIsFree ==
  ASSUME LInv, NEW w \in Dialers, dpc[w] = "idle"
  PROVE  Cardinality({d \in Conns : lifeOf(d) = "dialing"}) < Cardinality(Dialers)
<1> DEFINE D == {d \in Conns : lifeOf(d) = "dialing"}
           dialerOf == [d \in D |-> CHOOSE v \in Dialers : req[v] = d]
<1>1. \A d \in D : dialerOf[d] \in Dialers /\ req[dialerOf[d]] = d
  BY DEF LInv, Answered, lifeOf
<1>2. \A d \in D : dialerOf[d] # w
  BY <1>1, NoConnAssumption DEF LInv, IInv, TypeOK, NoConnAssumption
<1>3. dialerOf \in Injection(D, Dialers \ {w})
  BY <1>1, <1>2 DEF Injection, IsInjective
<1>4. /\ IsFiniteSet(Dialers) /\ IsFiniteSet(Dialers \ {w})
      /\ Cardinality(Dialers) \in Nat
      /\ Cardinality(Dialers \ {w}) = Cardinality(Dialers) - 1
  BY FiniteAssumption, FS_RemoveElement, FS_CardinalityType DEF FiniteAssumption
<1>5. IsFiniteSet(D) /\ Cardinality(D) <= Cardinality(Dialers \ {w})
  BY <1>3, <1>4, FS_Injection
<1>6. Cardinality(D) \in Nat
  BY <1>5, FS_CardinalityType
<1> QED BY <1>4, <1>5, <1>6

(* Every action is a step of some connection's life, or of none.           *)
LEMMA LifeStep == LInv /\ [Next]_vars => [Life!Next]_([c \in Conns |-> lifeOf(c)])
<1> SUFFICES ASSUME LInv, [Next]_vars
             PROVE  Life!Next \/ \A d \in Conns : lifeOf(d)' = lifeOf(d)
  OBVIOUS
<1> USE NoConnAssumption DEF NoConnAssumption, LInv, IInv, Held, AnswerHasReceiver,
        AnswerOrder, Answered, UpstreamFollows, TypeOK, handle, dialer, stats, lifeOf
<1>1. ASSUME NEW c \in Conns, HandleInvalid(c) PROVE Life!Next
  <2>1. lifeOf(c) = "new" /\ lifeOf(c)' = "over" /\ \A d \in Conns \ {c} : lifeOf(d)' = lifeOf(d)
    BY <1>1 DEF HandleInvalid
  <2> QED BY <2>1, Becomes DEF Life!Next, Life!Reject
<1>2. ASSUME NEW c \in Conns, HandleStart(c) PROVE Life!Next
  <2>1. lifeOf(c) = "new" /\ lifeOf(c)' = "queued" /\ \A d \in Conns \ {c} : lifeOf(d)' = lifeOf(d)
    BY <1>2 DEF HandleStart
  <2> QED BY <2>1, Becomes DEF Life!Next, Life!Queue
<1>3. ASSUME NEW c \in Conns, ReceiveErr(c) PROVE Life!Next
  <2>1. lifeOf(c) = "dialing" /\ lifeOf(c)' = "failed" /\ \A d \in Conns \ {c} : lifeOf(d)' = lifeOf(d)
    BY <1>3 DEF ReceiveErr
  <2> QED BY <2>1, Becomes DEF Life!Next, Life!Fail
<1>4. ASSUME NEW c \in Conns, ReceiveUpstream(c) PROVE Life!Next
  <2>1. lifeOf(c) = "dialing" /\ lifeOf(c)' = "open" /\ \A d \in Conns \ {c} : lifeOf(d)' = lifeOf(d)
    BY <1>4 DEF ReceiveUpstream
  <2> QED BY <2>1, Becomes DEF Life!Next, Life!Open
<1>5. ASSUME NEW c \in Conns, Refuse(c) PROVE Life!Next
  <2>1. lifeOf(c) = "failed" /\ lifeOf(c)' = "over" /\ \A d \in Conns \ {c} : lifeOf(d)' = lifeOf(d)
    BY <1>5 DEF Refuse
  <2> QED BY <2>1, Becomes DEF Life!Next, Life!GiveUp
<1>6. ASSUME NEW c \in Conns, Cancel(c) PROVE Life!Next
  <2>1. lifeOf(c) = "closed" /\ lifeOf(c)' = "over" /\ \A d \in Conns \ {c} : lifeOf(d)' = lifeOf(d)
    BY <1>6 DEF Cancel
  <2> QED BY <2>1, Becomes DEF Life!Next, Life!End
<1>7. ASSUME NEW c \in Conns, NEW w \in Dialers, Dispatch(c, w) PROVE Life!Next
  <2>1. lifeOf(c) = "queued" /\ lifeOf(c)' = "dialing" /\ \A d \in Conns \ {c} : lifeOf(d)' = lifeOf(d)
    BY <1>7 DEF Dispatch
  <2>2. Life!Become(c, "queued", "dialing")
    BY <2>1, Becomes
  <2>3. Cardinality({d \in Conns : lifeOf(d) = "dialing"}) < Cardinality(Dialers)
    BY <1>7, DialerIsFree DEF Dispatch
  <2>4. {d \in Conns : [e \in Conns |-> lifeOf(e)][d] = "dialing"} = {d \in Conns : lifeOf(d) = "dialing"}
    OBVIOUS
  <2>5. Life!Dial(c)
    BY ONLY <2>2, <2>3, <2>4 DEF Life!Dial, Life!Cardinality, Cardinality
  <2> QED BY <2>5 DEF Life!Next
<1>8. ASSUME NEW c \in Conns, CopyCloseEarly(c) \/ DeferCloseUp(c)
      PROVE  Life!Next \/ \A d \in Conns : lifeOf(d)' = lifeOf(d)
  <2>1. \A d \in Conns \ {c} : lifeOf(d)' = lifeOf(d)
    BY <1>8 DEF CopyCloseEarly, DeferCloseUp
  <2>2. lifeOf(c)' = lifeOf(c) \/ (lifeOf(c) = "open" /\ lifeOf(c)' = "closed")
    BY <1>8 DEF CopyCloseEarly, DeferCloseUp
  <2> QED BY <2>1, <2>2, Becomes DEF Life!Next, Life!Close
<1>9. ASSUME NEW c \in Conns, Register(c) PROVE \A d \in Conns : lifeOf(d)' = lifeOf(d)
  BY <1>9 DEF Register
<1>10. ASSUME NEW c \in Conns, Spawn(c) PROVE \A d \in Conns : lifeOf(d)' = lifeOf(d)
  BY <1>10 DEF Spawn
<1>11. ASSUME NEW c \in Conns, Timeout(c) PROVE \A d \in Conns : lifeOf(d)' = lifeOf(d)
  BY <1>11 DEF Timeout
<1>12. ASSUME NEW c \in Conns, CopyStart(c) PROVE \A d \in Conns : lifeOf(d)' = lifeOf(d)
  BY <1>12 DEF CopyStart
<1>13. ASSUME NEW c \in Conns, CopyEnd(c) PROVE \A d \in Conns : lifeOf(d)' = lifeOf(d)
  BY <1>13 DEF CopyEnd
<1>14. ASSUME NEW c \in Conns, DeferDelete(c) PROVE \A d \in Conns : lifeOf(d)' = lifeOf(d)
  BY <1>14 DEF DeferDelete
<1>15. ASSUME NEW c \in Conns, DeferCloseDown(c) PROVE \A d \in Conns : lifeOf(d)' = lifeOf(d)
  BY <1>15 DEF DeferCloseDown
<1>16. ASSUME NEW c \in Conns, DeferUncount(c) PROVE \A d \in Conns : lifeOf(d)' = lifeOf(d)
  BY <1>16 DEF DeferUncount
<1>17. ASSUME NEW w \in Dialers, DialOk(w) PROVE \A d \in Conns : lifeOf(d)' = lifeOf(d)
  BY <1>17 DEF DialOk
<1>18. ASSUME NEW w \in Dialers, DialFail(w) PROVE \A d \in Conns : lifeOf(d)' = lifeOf(d)
  BY <1>18 DEF DialFail
<1>19. CASE UNCHANGED vars
  BY <1>19 DEF vars
<1> QED
  BY <1>1, <1>2, <1>3, <1>4, <1>5, <1>6, <1>7, <1>8, <1>9, <1>10, <1>11, <1>12, <1>13, <1>14, <1>15, <1>16, <1>17, <1>18, <1>19 DEF Next

(* The handler implements ConnLife: whatever the interleaving of dials,    *)
(* timeouts, answers and copies, each connection lives the life that       *)
(* ConnLife gives it, and at most Cardinality(Dialers) are dialed at once. *)
THEOREM Implementation == Spec => ImplementsConnLife
<1>1. Init => Life!Init
  BY DEF Init, Life!Init, lifeOf
<1>2. LInv /\ [Next]_vars => [Life!Next]_([c \in Conns |-> lifeOf(c)])
  BY LifeStep
<1> QED BY <1>1, <1>2, LifeInvariance, PTL DEF Spec, ImplementsConnLife, Life!Spec

=============================================================================
