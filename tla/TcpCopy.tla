------------------------------- MODULE TcpCopy -------------------------------
(***************************************************************************)
(* internalsdk/ios/tcp.go, proxiedTCPHandler.copy: the life of one proxied *)
(* connection.  Two goroutines of netx (external) copy in one direction    *)
(* each and call keepFresh for every chunk; two waiting goroutines close   *)
(* everything when one direction has ended and the other has been idle for *)
(* closeTimeout; copy itself waits for both and then releases the pair.    *)
(*                                                                         *)
(* netx reports the end of a direction on a channel that the code receives *)
(* from twice: the error once and, the channel being closed, nil from then *)
(* on.  The timer is a Go timer of go.mod's version (1.25): Stop reports   *)
(* true and discards a value nobody has received yet; it reports false     *)
(* when the timer is stopped or its value has been received.               *)
(***************************************************************************)
EXTENDS Integers

CONSTANT MaxChunks   \* bound: chunks copied per direction

ASSUME MaxChunksAssumption == MaxChunks \in Nat

Dirs == {"out", "in"}
Opposite(d) == IF d = "out" THEN "in" ELSE "out"

VARIABLES
  timer,     \* closeTimer: "armed", "fired" (a value is in closeTimer.C), "off"
  dir,       \* netx goroutine: "read", "fresh" (about to call keepFresh), "drain"
             \* (blocked on <-closeTimer.C), "reset" (about to Reset), "ended"
  moved,     \* chunks copied so far
  waiter,    \* goroutine first waiting for d: "first", "second", "closeUp",
             \* "closeDown", "done"
  wg,        \* the WaitGroup's counter: waiting goroutines that are not done
  upClosed, downClosed,
  entry,     \* the connection is a key of h.upstreams
  main       \* copy(): "wait", "delete", "closeUp", "closeDown", "done"

vars == <<timer, dir, moved, waiter, wg, upClosed, downClosed, entry, main>>
conns == <<upClosed, downClosed>>

-----------------------------------------------------------------------------
(* Mutated forms of the actions below: plausible slips in this code that   *)
(* the properties must notice.  No specification uses them.                *)

\* keepFresh does not re-arm a timer it has stopped.
KeepFreshReset_Forgotten(d) ==
  /\ dir[d] = "reset"
  /\ dir' = [dir EXCEPT ![d] = "read"]
  /\ UNCHANGED <<timer, moved, waiter, wg, conns, entry, main>>

\* The timer ends the wait without closing anything.
WaitTimeout_NoClose(d) ==
  /\ waiter[d] = "second" /\ timer = "fired"
  /\ timer' = "off"
  /\ waiter' = [waiter EXCEPT ![d] = "done"]
  /\ wg' = wg - 1
  /\ UNCHANGED <<dir, moved, conns, entry, main>>

-----------------------------------------------------------------------------
Init ==
  /\ timer = "armed"
  /\ dir = [d \in Dirs |-> "read"]
  /\ moved = [d \in Dirs |-> 0]
  /\ waiter = [d \in Dirs |-> "first"]
  /\ wg = 2
  /\ upClosed = FALSE
  /\ downClosed = FALSE
  /\ entry = TRUE
  /\ main = "wait"

-----------------------------------------------------------------------------
(* The two directions (netx, external) and keepFresh *)

\* A chunk is read and written on; OnOut or OnIn follows.
Move(d) ==
  /\ dir[d] = "read"
  /\ moved[d] < MaxChunks
  /\ ~upClosed /\ ~downClosed
  /\ moved' = [moved EXCEPT ![d] = @ + 1]
  /\ dir' = [dir EXCEPT ![d] = "fresh"]
  /\ UNCHANGED <<timer, waiter, wg, conns, entry, main>>

\* The direction ends: end of file, an error, or a connection closed under it.
End(d) ==
  /\ dir[d] = "read"
  /\ dir' = [dir EXCEPT ![d] = "ended"]
  /\ UNCHANGED <<timer, moved, waiter, wg, conns, entry, main>>

\* if !closeTimer.Stop()
KeepFreshStop(d) ==
  /\ dir[d] = "fresh"
  /\ dir' = [dir EXCEPT ![d] = IF timer = "off" THEN "drain" ELSE "reset"]
  /\ timer' = "off"
  /\ UNCHANGED <<moved, waiter, wg, conns, entry, main>>

\* <-closeTimer.C
KeepFreshDrain(d) ==
  /\ dir[d] = "drain" /\ timer = "fired"
  /\ timer' = "off"
  /\ dir' = [dir EXCEPT ![d] = "reset"]
  /\ UNCHANGED <<moved, waiter, wg, conns, entry, main>>

\* closeTimer.Reset(closeTimeout)
KeepFreshReset(d) ==
  /\ dir[d] = "reset"
  /\ timer' = "armed"
  /\ dir' = [dir EXCEPT ![d] = "read"]
  /\ UNCHANGED <<moved, waiter, wg, conns, entry, main>>

\* closeTimeout passes without the timer having been stopped.
TimerFires ==
  /\ timer = "armed"
  /\ timer' = "fired"
  /\ UNCHANGED <<dir, moved, waiter, wg, conns, entry, main>>

-----------------------------------------------------------------------------
(* The goroutine that waits for direction d first *)

\* err := <-errCh of its own direction
WaitFirst(d) ==
  /\ waiter[d] = "first" /\ dir[d] = "ended"
  /\ waiter' = [waiter EXCEPT ![d] = "second"]
  /\ UNCHANGED <<timer, dir, moved, wg, conns, entry, main>>

\* select: the opposite direction has ended too
WaitSecond(d) ==
  /\ waiter[d] = "second" /\ dir[Opposite(d)] = "ended"
  /\ waiter' = [waiter EXCEPT ![d] = "done"]
  /\ wg' = wg - 1
  /\ UNCHANGED <<timer, dir, moved, conns, entry, main>>

\* select: the close timer has fired
WaitTimeout(d) ==
  /\ waiter[d] = "second" /\ timer = "fired"
  /\ timer' = "off"
  /\ waiter' = [waiter EXCEPT ![d] = "closeUp"]
  /\ UNCHANGED <<dir, moved, wg, conns, entry, main>>

\* upstream.Close(); downstream.Close()
TimeoutCloseUp(d) ==
  /\ waiter[d] = "closeUp"
  /\ upClosed' = TRUE
  /\ waiter' = [waiter EXCEPT ![d] = "closeDown"]
  /\ UNCHANGED <<timer, dir, moved, wg, downClosed, entry, main>>

TimeoutCloseDown(d) ==
  /\ waiter[d] = "closeDown"
  /\ downClosed' = TRUE
  /\ waiter' = [waiter EXCEPT ![d] = "done"]
  /\ wg' = wg - 1
  /\ UNCHANGED <<timer, dir, moved, upClosed, entry, main>>

-----------------------------------------------------------------------------
(* copy() itself *)

\* wg.Wait()
WaitGroup ==
  /\ main = "wait"
  /\ wg = 0
  /\ main' = "delete"
  /\ UNCHANGED <<timer, dir, moved, waiter, wg, conns, entry>>

\* The deferred calls: delete the map entry, close upstream, close downstream.
DeferDelete ==
  /\ main = "delete"
  /\ entry' = FALSE
  /\ main' = "closeUp"
  /\ UNCHANGED <<timer, dir, moved, waiter, wg, conns>>

DeferCloseUp ==
  /\ main = "closeUp"
  /\ upClosed' = TRUE
  /\ main' = "closeDown"
  /\ UNCHANGED <<timer, dir, moved, waiter, wg, downClosed, entry>>

DeferCloseDown ==
  /\ main = "closeDown"
  /\ downClosed' = TRUE
  /\ main' = "done"
  /\ UNCHANGED <<timer, dir, moved, waiter, wg, upClosed, entry>>

KeepFresh(d) == KeepFreshStop(d) \/ KeepFreshDrain(d) \/ KeepFreshReset(d)
Wait(d) ==
  WaitFirst(d) \/ WaitSecond(d) \/ WaitTimeout(d) \/ TimeoutCloseUp(d) \/ TimeoutCloseDown(d)
Main == WaitGroup \/ DeferDelete \/ DeferCloseUp \/ DeferCloseDown

Next ==
  \/ \E d \in Dirs :
       \/ Move(d) \/ End(d)
       \/ KeepFreshStop(d) \/ KeepFreshDrain(d) \/ KeepFreshReset(d)
       \/ WaitFirst(d) \/ WaitSecond(d) \/ WaitTimeout(d)
       \/ TimeoutCloseUp(d) \/ TimeoutCloseDown(d)
  \/ TimerFires
  \/ WaitGroup \/ DeferDelete \/ DeferCloseUp \/ DeferCloseDown

Spec == Init /\ [][Next]_vars

\* Goroutines run and time passes.  A direction need never move data or end by
\* itself, but it ends once a connection has been closed under it.
Fairness ==
  /\ \A d \in Dirs :
       /\ WF_vars(KeepFresh(d))
       /\ WF_vars(Wait(d))
       /\ WF_vars((upClosed \/ downClosed) /\ End(d))
  /\ WF_vars(TimerFires)
  /\ WF_vars(Main)

FairSpec == Spec /\ Fairness
-----------------------------------------------------------------------------
(* Properties *)

\* The variables have the shapes the declarations above give them.
TypeOK ==
  /\ timer \in {"armed", "fired", "off"}
  /\ dir \in [Dirs -> {"read", "fresh", "drain", "reset", "ended"}]
  /\ moved \in [Dirs -> 0..MaxChunks]
  /\ waiter \in [Dirs -> {"first", "second", "closeUp", "closeDown", "done"}]
  /\ wg \in 0..2
  /\ upClosed \in BOOLEAN /\ downClosed \in BOOLEAN
  /\ entry \in BOOLEAN
  /\ main \in {"wait", "delete", "closeUp", "closeDown", "done"}

\* While one direction has ended and the other waits for data, the close timer
\* is running (or has just fired): the two directions share the timer, and no
\* interleaving of their keepFresh calls leaves a reading direction unwatched.
ReaderIsWatched ==
  \A d \in Dirs :
    waiter[d] = "second" /\ dir[Opposite(d)] = "read" => timer # "off"

\* No connection is closed while both directions are still going.
ClosedAfterOneEnded ==
  upClosed \/ downClosed => \E d \in Dirs : dir[d] = "ended"

\* When copy lets go of the pair, both netx goroutines are finished with the
\* connections and with copy's buffers, and on return everything is released.
ReleasedWhenBothEnded ==
  /\ main # "wait" => \A d \in Dirs : dir[d] = "ended"
  /\ main = "done" => ~entry /\ upClosed /\ downClosed

\* A pair with one direction ended and the other reading, with nothing to come,
\* is closed and released: "opposite direction idle for more than closeTimeout,
\* close everything".
IdleIsClosed ==
  \A d \in Dirs :
    (dir[d] = "ended" /\ dir[Opposite(d)] = "read" /\ moved[Opposite(d)] = MaxChunks)
      ~> (main = "done")

\* The same promise without the proviso that the remaining direction is reading:
\* once one direction has ended and no more data comes, copy returns.
EndedIsClosed ==
  \A d \in Dirs : (dir[d] = "ended") ~> (main = "done")
=============================================================================
