--------------------------- MODULE TcpCopy_proof ----------------------------
(* Safety of copy() for any number of chunks in each direction.            *)
EXTENDS TcpCopy, TLAPS

(***************************************************************************)
(* The strengthening says who can have switched the timer off, what the    *)
(* goroutines that wait have seen, and that the WaitGroup counts them.     *)
(***************************************************************************)

\* The timer is off only while a direction is about to reset it, or after a waiting
\* goroutine has taken its value.
WhoTurnedOff ==
  timer = "off" => \E d \in Dirs :
    dir[d] \in {"drain", "reset"} \/ waiter[d] \in {"closeUp", "closeDown", "done"}

\* A waiting goroutine goes on only after the end of its direction.
WaiterSawEnd == \A d \in Dirs : waiter[d] # "first" => dir[d] = "ended"

\* The WaitGroup counts the waiting goroutines that are not done.
NotDone(d) == IF waiter[d] = "done" THEN 0 ELSE 1
GroupCounts == wg = NotDone("out") + NotDone("in")

\* Only waiting goroutines that have seen an end, and copy() in its deferred calls,
\* close something; copy() makes these calls in order.
ClosedByWhom ==
  /\ upClosed \/ downClosed => main # "wait" \/ \E d \in Dirs : waiter[d] # "first"
  /\ main # "wait" => wg = 0
  /\ main \in {"closeUp", "closeDown", "done"} => ~entry
  /\ main \in {"closeDown", "done"} => upClosed
  /\ main = "done" => downClosed

IInv == TypeOK /\ WhoTurnedOff /\ WaiterSawEnd /\ GroupCounts /\ ClosedByWhom /\ ReaderIsWatched

-----------------------------------------------------------------------------
(* Every action keeps the variables in their types; that the WaitGroup is  *)
(* never decremented below zero follows from what it counts.               *)
LEMMA TypeStep == TypeOK /\ GroupCounts /\ [Next]_vars => TypeOK'
<1> SUFFICES ASSUME TypeOK, GroupCounts, [Next]_vars PROVE TypeOK'
  OBVIOUS
<1> USE MaxChunksAssumption DEF TypeOK, GroupCounts, NotDone, Dirs, MaxChunksAssumption, conns
<1>1. ASSUME NEW d \in Dirs, Move(d) PROVE TypeOK'
  BY <1>1 DEF Move
<1>2. ASSUME NEW d \in Dirs, End(d) PROVE TypeOK'
  BY <1>2 DEF End
<1>3. ASSUME NEW d \in Dirs, KeepFreshStop(d) PROVE TypeOK'
  BY <1>3 DEF KeepFreshStop
<1>4. ASSUME NEW d \in Dirs, KeepFreshDrain(d) PROVE TypeOK'
  BY <1>4 DEF KeepFreshDrain
<1>5. ASSUME NEW d \in Dirs, KeepFreshReset(d) PROVE TypeOK'
  BY <1>5 DEF KeepFreshReset
<1>6. ASSUME NEW d \in Dirs, WaitFirst(d) PROVE TypeOK'
  BY <1>6 DEF WaitFirst
<1>7. ASSUME NEW d \in Dirs, WaitSecond(d) PROVE TypeOK'
  BY <1>7 DEF WaitSecond
<1>8. ASSUME NEW d \in Dirs, WaitTimeout(d) PROVE TypeOK'
  BY <1>8 DEF WaitTimeout
<1>9. ASSUME NEW d \in Dirs, TimeoutCloseUp(d) PROVE TypeOK'
  BY <1>9 DEF TimeoutCloseUp
<1>10. ASSUME NEW d \in Dirs, TimeoutCloseDown(d) PROVE TypeOK'
  BY <1>10 DEF TimeoutCloseDown
<1>11. CASE TimerFires
  BY <1>11 DEF TimerFires
<1>12. CASE WaitGroup
  BY <1>12 DEF WaitGroup
<1>13. CASE DeferDelete
  BY <1>13 DEF DeferDelete
<1>14. CASE DeferCloseUp
  BY <1>14 DEF DeferCloseUp
<1>15. CASE DeferCloseDown
  BY <1>15 DEF DeferCloseDown
<1>16. CASE UNCHANGED vars
  BY <1>16 DEF vars
<1> QED
  BY <1>1, <1>2, <1>3, <1>4, <1>5, <1>6, <1>7, <1>8, <1>9, <1>10, <1>11, <1>12, <1>13, <1>14, <1>15, <1>16 DEF Next

(* Whatever the two directions and the two waiting goroutines do to the    *)
(* timer they share, a direction that is waited for stays watched.         *)
LEMMA CopyStep ==
  ASSUME IInv, TypeOK', [Next]_vars
  PROVE  WhoTurnedOff' /\ WaiterSawEnd' /\ GroupCounts' /\ ClosedByWhom' /\ ReaderIsWatched'
<1> DEFINE Goal ==
      WhoTurnedOff' /\ WaiterSawEnd' /\ GroupCounts' /\ ClosedByWhom' /\ ReaderIsWatched'
<1> USE DEF IInv, TypeOK, WhoTurnedOff, WaiterSawEnd, GroupCounts, NotDone, ClosedByWhom,
        ReaderIsWatched, Dirs, Opposite, conns
<1>1. ASSUME NEW d \in Dirs, Move(d) PROVE Goal
  BY <1>1 DEF Move
<1>2. ASSUME NEW d \in Dirs, End(d) PROVE Goal
  BY <1>2 DEF End
<1>3. ASSUME NEW d \in Dirs, KeepFreshStop(d) PROVE Goal
  BY <1>3 DEF KeepFreshStop
<1>4. ASSUME NEW d \in Dirs, KeepFreshDrain(d) PROVE Goal
  BY <1>4 DEF KeepFreshDrain
<1>5. ASSUME NEW d \in Dirs, KeepFreshReset(d) PROVE Goal
  BY <1>5 DEF KeepFreshReset
<1>6. ASSUME NEW d \in Dirs, WaitFirst(d) PROVE Goal
  BY <1>6 DEF WaitFirst
<1>7. ASSUME NEW d \in Dirs, WaitSecond(d) PROVE Goal
  BY <1>7 DEF WaitSecond
<1>8. ASSUME NEW d \in Dirs, WaitTimeout(d) PROVE Goal
  BY <1>8 DEF WaitTimeout
<1>9. ASSUME NEW d \in Dirs, TimeoutCloseUp(d) PROVE Goal
  BY <1>9 DEF TimeoutCloseUp
<1>10. ASSUME NEW d \in Dirs, TimeoutCloseDown(d) PROVE Goal
  BY <1>10 DEF TimeoutCloseDown
<1>11. CASE TimerFires
  BY <1>11 DEF TimerFires
<1>12. CASE WaitGroup
  BY <1>12 DEF WaitGroup
<1>13. CASE DeferDelete
  BY <1>13 DEF DeferDelete
<1>14. CASE DeferCloseUp
  BY <1>14 DEF DeferCloseUp
<1>15. CASE DeferCloseDown
  BY <1>15 DEF DeferCloseDown
<1>16. CASE UNCHANGED vars
  BY <1>16 DEF vars
<1> QED
  BY <1>1, <1>2, <1>3, <1>4, <1>5, <1>6, <1>7, <1>8, <1>9, <1>10, <1>11, <1>12, <1>13, <1>14, <1>15, <1>16 DEF Next

-----------------------------------------------------------------------------
(* The invariant holds in every reachable state.                           *)
THEOREM Invariance == Spec => []IInv
<1>1. Init => IInv
  <2> SUFFICES ASSUME Init PROVE IInv
    OBVIOUS
  <2>1. TypeOK
    <3>1. moved \in [Dirs -> 0..MaxChunks] /\ wg \in 0..2
      BY MaxChunksAssumption DEF Init, MaxChunksAssumption
    <3>2. /\ timer \in {"armed", "fired", "off"}
          /\ main \in {"wait", "delete", "closeUp", "closeDown", "done"}
      BY DEF Init
    <3>3. /\ dir \in [Dirs -> {"read", "fresh", "drain", "reset", "ended"}]
          /\ waiter \in [Dirs -> {"first", "second", "closeUp", "closeDown", "done"}]
      BY DEF Init
    <3>4. upClosed \in BOOLEAN /\ downClosed \in BOOLEAN /\ entry \in BOOLEAN
      BY DEF Init
    <3> QED BY <3>1, <3>2, <3>3, <3>4 DEF TypeOK
  <2>2. GroupCounts
    BY DEF Init, GroupCounts, NotDone, Dirs
  <2>3. WhoTurnedOff /\ WaiterSawEnd /\ ClosedByWhom /\ ReaderIsWatched
    BY DEF Init, WhoTurnedOff, WaiterSawEnd, ClosedByWhom, ReaderIsWatched
  <2> QED BY <2>1, <2>2, <2>3 DEF IInv
<1>2. IInv /\ [Next]_vars => IInv'
  BY TypeStep, CopyStep DEF IInv
<1> QED BY <1>1, <1>2, PTL DEF Spec

(* Types of copy's state; the WaitGroup never goes below zero.             *)
THEOREM TypeCorrect == Spec => []TypeOK
<1>1. IInv => TypeOK
  BY DEF IInv
<1> QED BY <1>1, Invariance, PTL

(* No interleaving of keepFresh and the waiting goroutines leaves a        *)
(* reading direction without the timer once the other one has ended.       *)
THEOREM ReadersAreWatched == Spec => []ReaderIsWatched
<1>1. IInv => ReaderIsWatched
  BY DEF IInv
<1> QED BY <1>1, Invariance, PTL

(* No connection is closed while both directions are going.                *)
THEOREM ClosedInTime == Spec => []ClosedAfterOneEnded
<1>1. IInv => ClosedAfterOneEnded
  BY DEF IInv, TypeOK, ClosedByWhom, WaiterSawEnd, GroupCounts, NotDone, Dirs, ClosedAfterOneEnded
<1> QED BY <1>1, Invariance, PTL

(* Nothing is released while netx still uses it, and everything is on      *)
(* return.                                                                 *)
THEOREM ReleasedInTime == Spec => []ReleasedWhenBothEnded
<1>1. IInv => ReleasedWhenBothEnded
  BY DEF IInv, TypeOK, ClosedByWhom, WaiterSawEnd, GroupCounts, NotDone, Dirs, ReleasedWhenBothEnded
<1> QED BY <1>1, Invariance, PTL

=============================================================================
