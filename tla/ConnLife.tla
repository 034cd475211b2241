------------------------------- MODULE ConnLife -------------------------------
(***************************************************************************)
(* What the TCP handler promises of the connections it is given, whatever  *)
(* goroutines it uses: each is served once, at most MaxDials upstreams are *)
(* being dialed at a time (maxConcurrentDials in internalsdk/ios/ios.go,   *)
(* for the sake of memory), one whose dial failed never has an upstream,   *)
(* and one that has is not over before its upstream is closed.             *)
(* ProxiedTCP implements this specification.                               *)
(***************************************************************************)
EXTENDS Naturals, FiniteSets

CONSTANTS Conns,     \* connections
          MaxDials   \* upstreams dialed at a time

VARIABLE life   \* of a connection: "new", "queued", "dialing", "failed",
                \* "open", "closed" or "over"

Init == life = [c \in Conns |-> "new"]

Become(c, from, to) == life[c] = from /\ life' = [life EXCEPT ![c] = to]

\* The connection is refused, or its dial is asked for.
Reject(c) == Become(c, "new", "over")
Queue(c) == Become(c, "new", "queued")

\* Its upstream is dialed when it is one of MaxDials.
Dial(c) ==
  /\ Cardinality({d \in Conns : life[d] = "dialing"}) < MaxDials
  /\ Become(c, "queued", "dialing")

\* The dial fails, and so does the connection ...
Fail(c) == Become(c, "dialing", "failed")
GiveUp(c) == Become(c, "failed", "over")

\* ... or there is an upstream, which is closed before the connection is over.
Open(c) == Become(c, "dialing", "open")
Close(c) == Become(c, "open", "closed")
End(c) == Become(c, "closed", "over")

Next == \E c \in Conns :
  Reject(c) \/ Queue(c) \/ Dial(c) \/ Fail(c) \/ GiveUp(c) \/ Open(c) \/ Close(c) \/ End(c)

Spec == Init /\ [][Next]_life
=============================================================================
