----------------------------- MODULE ProxiedTCP ------------------------------
(***************************************************************************)
(* internalsdk/ios/tcp.go: the handler of the tunnel's TCP connections.    *)
(* Handle looks up the host, hands a dial request to one of a few dialing  *)
(* goroutines through an unbuffered channel, waits for the answer on the   *)
(* request's own channels, registers the pair of connections and starts    *)
(* copy() on a goroutine of its own, whose deferred calls release them.    *)
(*                                                                         *)
(* One call of Handle per downstream connection.  The bytes copied, and    *)
(* how copy() decides that it is over, are the subject of TcpCopy.         *)
(***************************************************************************)
EXTENDS Integers, FiniteSets

CONSTANTS Conns,    \* downstream connections, each handled once
          Dialers,  \* the goroutines of handleDials (maxConcurrentDials)
          NoConn    \* a dialer holds no request

ASSUME NoConnAssumption == NoConn \notin Conns
ASSUME FiniteAssumption == IsFiniteSet(Conns) /\ IsFiniteSet(Dialers)

VARIABLES
  hpc,        \* Handle: "new", "queue", "select", "decide", "register", "returned"
  answer,     \* what Handle received: "none", "upstream", "err"
  outcome,    \* what Handle returned: "none", "invalid", "error", "ok"
  ctx,        \* the request's context: "none", "live", "expired", "cancelled"
  dpc,        \* dialer: "idle", "dialing", "sendUp", "sendErr"
  req,        \* the connection whose request the dialer holds
  up,         \* upstream connection dialed for c: "none", "open", "closed"
  down,       \* downstream connection: "open", "closed"
  upstreams,  \* keys of h.upstreams
  dialingConns, copyingConns,
  cpc         \* copy(): "none", "spawned", "copying", then its deferred calls
              \* "delete", "closeUp", "closeDown", "uncount", and "cancel", "done"

vars == <<hpc, answer, outcome, ctx, dpc, req, up, down, upstreams,
          dialingConns, copyingConns, cpc>>

handle == <<hpc, answer, outcome>>
dialer == <<dpc, req>>
stats == <<upstreams, dialingConns, copyingConns>>

Init ==
  /\ hpc = [c \in Conns |-> "new"]
  /\ answer = [c \in Conns |-> "none"]
  /\ outcome = [c \in Conns |-> "none"]
  /\ ctx = [c \in Conns |-> "none"]
  /\ dpc = [w \in Dialers |-> "idle"]
  /\ req = [w \in Dialers |-> NoConn]
  /\ up = [c \in Conns |-> "none"]
  /\ down = [c \in Conns |-> "open"]
  /\ upstreams = {}
  /\ dialingConns = 0
  /\ copyingConns = 0
  /\ cpc = [c \in Conns |-> "none"]

-----------------------------------------------------------------------------
(* Mutated forms of the actions below: plausible slips in this code that   *)
(* the properties must notice.  No specification uses them.                *)

\* Handle also selects on ctx.Done() and gives the request up.
ReceiveErr_OrTimeout(c) ==
  /\ hpc[c] = "select"
  /\ \/ /\ ctx[c] = "expired"
        /\ UNCHANGED dialer
     \/ \E w \in Dialers :
          /\ req[w] = c /\ dpc[w] = "sendErr"
          /\ dpc' = [dpc EXCEPT ![w] = "idle"]
          /\ req' = [req EXCEPT ![w] = NoConn]
  /\ answer' = [answer EXCEPT ![c] = "err"]
  /\ hpc' = [hpc EXCEPT ![c] = "decide"]
  /\ dialingConns' = dialingConns - 1
  /\ UNCHANGED <<outcome, ctx, up, down, upstreams, copyingConns, cpc>>

\* The context of a failed dial is not cancelled.
Refuse_KeepsContext(c) ==
  /\ hpc[c] = "decide" /\ answer[c] = "err"
  /\ hpc' = [hpc EXCEPT ![c] = "returned"]
  /\ outcome' = [outcome EXCEPT ![c] = "error"]
  /\ UNCHANGED <<answer, ctx, dialer, up, down, stats, cpc>>

\* A successful dial is refused, without closing it, once the context expired.
Refuse_WhenExpired(c) ==
  /\ hpc[c] = "decide" /\ (answer[c] = "err" \/ ctx[c] = "expired")
  /\ hpc' = [hpc EXCEPT ![c] = "returned"]
  /\ outcome' = [outcome EXCEPT ![c] = "error"]
  /\ ctx' = [ctx EXCEPT ![c] = "cancelled"]
  /\ UNCHANGED <<answer, dialer, up, down, stats, cpc>>

-----------------------------------------------------------------------------
(* Handle *)

\* grabber.ReverseLookup fails: nothing has been set up yet.
HandleInvalid(c) ==
  /\ hpc[c] = "new"
  /\ hpc' = [hpc EXCEPT ![c] = "returned"]
  /\ outcome' = [outcome EXCEPT ![c] = "invalid"]
  /\ UNCHANGED <<answer, ctx, dialer, up, down, stats, cpc>>

\* The lookup succeeds: the dial timeout starts before the request is queued.
HandleStart(c) ==
  /\ hpc[c] = "new"
  /\ hpc' = [hpc EXCEPT ![c] = "queue"]
  /\ ctx' = [ctx EXCEPT ![c] = "live"]
  /\ dialingConns' = dialingConns + 1
  /\ UNCHANGED <<answer, outcome, dialer, up, down, upstreams, copyingConns, cpc>>

\* h.dialRequests <- req meets an idle dialer.
Dispatch(c, w) ==
  /\ hpc[c] = "queue"
  /\ dpc[w] = "idle"
  /\ hpc' = [hpc EXCEPT ![c] = "select"]
  /\ dpc' = [dpc EXCEPT ![w] = "dialing"]
  /\ req' = [req EXCEPT ![w] = c]
  /\ UNCHANGED <<answer, outcome, ctx, up, down, stats, cpc>>

\* upstream = <-req.upstream, and the dialer goes on to its next request.
ReceiveUpstream(c) ==
  /\ hpc[c] = "select"
  /\ \E w \in Dialers :
       /\ req[w] = c /\ dpc[w] = "sendUp"
       /\ dpc' = [dpc EXCEPT ![w] = "idle"]
       /\ req' = [req EXCEPT ![w] = NoConn]
  /\ answer' = [answer EXCEPT ![c] = "upstream"]
  /\ hpc' = [hpc EXCEPT ![c] = "decide"]
  /\ dialingConns' = dialingConns - 1
  /\ UNCHANGED <<outcome, ctx, up, down, upstreams, copyingConns, cpc>>

\* err = <-req.err
ReceiveErr(c) ==
  /\ hpc[c] = "select"
  /\ \E w \in Dialers :
       /\ req[w] = c /\ dpc[w] = "sendErr"
       /\ dpc' = [dpc EXCEPT ![w] = "idle"]
       /\ req' = [req EXCEPT ![w] = NoConn]
  /\ answer' = [answer EXCEPT ![c] = "err"]
  /\ hpc' = [hpc EXCEPT ![c] = "decide"]
  /\ dialingConns' = dialingConns - 1
  /\ UNCHANGED <<outcome, ctx, up, down, upstreams, copyingConns, cpc>>

\* The dial failed: cancelContext and return the error.
Refuse(c) ==
  /\ hpc[c] = "decide" /\ answer[c] = "err"
  /\ hpc' = [hpc EXCEPT ![c] = "returned"]
  /\ outcome' = [outcome EXCEPT ![c] = "error"]
  /\ ctx' = [ctx EXCEPT ![c] = "cancelled"]
  /\ UNCHANGED <<answer, dialer, up, down, stats, cpc>>

\* The dial succeeded: wrap the downstream, register the pair under h.mx.
Register(c) ==
  /\ hpc[c] = "decide" /\ answer[c] = "upstream"
  /\ hpc' = [hpc EXCEPT ![c] = "register"]
  /\ upstreams' = upstreams \cup {c}
  /\ UNCHANGED <<answer, outcome, ctx, dialer, up, down, dialingConns,
                 copyingConns, cpc>>

\* go func() { copy; cancelContext }() and return nil.
Spawn(c) ==
  /\ hpc[c] = "register"
  /\ hpc' = [hpc EXCEPT ![c] = "returned"]
  /\ outcome' = [outcome EXCEPT ![c] = "ok"]
  /\ cpc' = [cpc EXCEPT ![c] = "spawned"]
  /\ UNCHANGED <<answer, ctx, dialer, up, down, stats>>

\* The timeout of the request's context passes (dialTimeout).
Timeout(c) ==
  /\ ctx[c] = "live"
  /\ ctx' = [ctx EXCEPT ![c] = "expired"]
  /\ UNCHANGED <<handle, dialer, up, down, stats, cpc>>

-----------------------------------------------------------------------------
(* handleDial *)

\* dialOut returns a connection; it fails once the context is done.
DialOk(w) ==
  /\ dpc[w] = "dialing"
  /\ ctx[req[w]] = "live"
  /\ dpc' = [dpc EXCEPT ![w] = "sendUp"]
  /\ up' = [up EXCEPT ![req[w]] = "open"]
  /\ UNCHANGED <<handle, ctx, req, down, stats, cpc>>

\* dialOut returns an error.
DialFail(w) ==
  /\ dpc[w] = "dialing"
  /\ dpc' = [dpc EXCEPT ![w] = "sendErr"]
  /\ UNCHANGED <<handle, ctx, req, up, down, stats, cpc>>

-----------------------------------------------------------------------------
(* The copying goroutine *)

\* copy() is entered.
CopyStart(c) ==
  /\ cpc[c] = "spawned"
  /\ cpc' = [cpc EXCEPT ![c] = "copying"]
  /\ copyingConns' = copyingConns + 1
  /\ UNCHANGED <<handle, ctx, dialer, up, down, upstreams, dialingConns>>

\* While copying, the close timer may close both connections early, in this
\* order (the rest of copy is still to come).
CopyCloseEarly(c) ==
  /\ cpc[c] = "copying"
  /\ \/ up[c] = "open" /\ up' = [up EXCEPT ![c] = "closed"] /\ UNCHANGED down
     \/ /\ up[c] = "closed" /\ down[c] = "open"
        /\ down' = [down EXCEPT ![c] = "closed"] /\ UNCHANGED up
  /\ UNCHANGED <<handle, ctx, dialer, stats, cpc>>

\* wg.Wait() returns.
CopyEnd(c) ==
  /\ cpc[c] = "copying"
  /\ cpc' = [cpc EXCEPT ![c] = "delete"]
  /\ UNCHANGED <<handle, ctx, dialer, up, down, stats>>

\* The deferred calls run last to first: delete the entry ...
DeferDelete(c) ==
  /\ cpc[c] = "delete"
  /\ cpc' = [cpc EXCEPT ![c] = "closeUp"]
  /\ upstreams' = upstreams \ {c}
  /\ UNCHANGED <<handle, ctx, dialer, up, down, dialingConns, copyingConns>>

\* ... close upstream ...
DeferCloseUp(c) ==
  /\ cpc[c] = "closeUp"
  /\ cpc' = [cpc EXCEPT ![c] = "closeDown"]
  /\ up' = [up EXCEPT ![c] = "closed"]
  /\ UNCHANGED <<handle, ctx, dialer, down, stats>>

\* ... close downstream ...
DeferCloseDown(c) ==
  /\ cpc[c] = "closeDown"
  /\ cpc' = [cpc EXCEPT ![c] = "uncount"]
  /\ down' = [down EXCEPT ![c] = "closed"]
  /\ UNCHANGED <<handle, ctx, dialer, up, stats>>

\* ... and decrement the counter.
DeferUncount(c) ==
  /\ cpc[c] = "uncount"
  /\ cpc' = [cpc EXCEPT ![c] = "cancel"]
  /\ copyingConns' = copyingConns - 1
  /\ UNCHANGED <<handle, ctx, dialer, up, down, upstreams, dialingConns>>

\* cancelContext() after copy has returned.
Cancel(c) ==
  /\ cpc[c] = "cancel"
  /\ cpc' = [cpc EXCEPT ![c] = "done"]
  /\ ctx' = [ctx EXCEPT ![c] = "cancelled"]
  /\ UNCHANGED <<handle, dialer, up, down, stats>>

Next ==
  \/ \E c \in Conns :
       \/ HandleInvalid(c) \/ HandleStart(c)
       \/ ReceiveUpstream(c) \/ ReceiveErr(c)
       \/ Refuse(c) \/ Register(c) \/ Spawn(c) \/ Timeout(c)
       \/ CopyStart(c) \/ CopyCloseEarly(c) \/ CopyEnd(c)
       \/ DeferDelete(c) \/ DeferCloseUp(c) \/ DeferCloseDown(c)
       \/ DeferUncount(c) \/ Cancel(c)
  \/ \E c \in Conns, w \in Dialers : Dispatch(c, w)
  \/ \E w \in Dialers : DialOk(w) \/ DialFail(w)

Spec == Init /\ [][Next]_vars

\* Goroutines run; dialOut returns at the latest when its context is done; a
\* connection ends some day.  A sender blocked on h.dialRequests is served in
\* order of arrival, hence SF for its dispatch.
Fairness ==
  /\ \A c \in Conns :
       /\ SF_vars(\E w \in Dialers : Dispatch(c, w))
       /\ WF_vars(ReceiveUpstream(c) \/ ReceiveErr(c))
       /\ WF_vars(Refuse(c) \/ Register(c)) /\ WF_vars(Spawn(c))
       /\ WF_vars(CopyStart(c)) /\ WF_vars(CopyEnd(c))
       /\ WF_vars(DeferDelete(c) \/ DeferCloseUp(c) \/ DeferCloseDown(c)
                    \/ DeferUncount(c) \/ Cancel(c))
  /\ \A w \in Dialers : WF_vars(DialOk(w) \/ DialFail(w))

FairSpec == Spec /\ Fairness
-----------------------------------------------------------------------------
(* Properties *)

\* The variables have the shapes the declarations above give them.
TypeOK ==
  /\ hpc \in [Conns -> {"new", "queue", "select", "decide", "register", "returned"}]
  /\ answer \in [Conns -> {"none", "upstream", "err"}]
  /\ outcome \in [Conns -> {"none", "invalid", "error", "ok"}]
  /\ ctx \in [Conns -> {"none", "live", "expired", "cancelled"}]
  /\ dpc \in [Dialers -> {"idle", "dialing", "sendUp", "sendErr"}]
  /\ req \in [Dialers -> Conns \cup {NoConn}]
  /\ \A w \in Dialers : (req[w] = NoConn) <=> (dpc[w] = "idle")
  /\ up \in [Conns -> {"none", "open", "closed"}]
  /\ down \in [Conns -> {"open", "closed"}]
  /\ upstreams \in SUBSET Conns
  /\ dialingConns \in Int
  /\ copyingConns \in Int
  /\ cpc \in [Conns -> {"none", "spawned", "copying", "delete", "closeUp",
                        "closeDown", "uncount", "cancel", "done"}]

\* A dialer sends its answer on an unbuffered channel, so it is stuck for good,
\* with the connection it has opened, unless the request's Handle is there to
\* receive: Handle must not leave its select early, whatever the context does.
AnswerHasReceiver ==
  \A w \in Dialers : dpc[w] # "idle" => hpc[req[w]] = "select"

\* Every open upstream connection has exactly one owner who will close it or
\* pass it on: the dialer that opened it, its Handle, or its copying goroutine.
OwnersOf(c) ==
  {<<"dialer", w>> : w \in {v \in Dialers : req[v] = c /\ dpc[v] = "sendUp"}}
  \cup (IF answer[c] = "upstream" /\ hpc[c] \in {"decide", "register"}
        THEN {<<"handle", c>>} ELSE {})
  \cup (IF cpc[c] \in {"spawned", "copying", "delete", "closeUp"}
        THEN {<<"copy", c>>} ELSE {})

UpstreamHasOneOwner ==
  \A c \in Conns : up[c] = "open" => Cardinality(OwnersOf(c)) = 1

\* A connection that is over has left nothing behind: no entry, no open
\* upstream, no context with a running timeout; and once all are over, no
\* count.
NothingLeftBehind ==
  LET Over(c) == hpc[c] = "returned" /\ cpc[c] \in {"none", "done"} IN
  /\ \A c \in Conns : Over(c) =>
       /\ c \notin upstreams
       /\ up[c] # "open"
       /\ ctx[c] \in {"none", "cancelled"}
       /\ outcome[c] = "ok" => down[c] = "closed"
  /\ (\A c \in Conns : Over(c)) => dialingConns = 0 /\ copyingConns = 0

\* Every call of Handle returns, however many requests compete for the dialers.
HandleReturns == \A c \in Conns : (hpc[c] = "queue") ~> (hpc[c] = "returned")

-----------------------------------------------------------------------------
(* The life of each connection, and the promise that the handler keeps     *)

lifeOf(c) ==
  IF hpc[c] = "new" THEN "new"
  ELSE IF hpc[c] = "queue" THEN "queued"
  ELSE IF hpc[c] = "select" THEN "dialing"
  ELSE IF hpc[c] = "decide" /\ answer[c] = "err" THEN "failed"
  ELSE IF hpc[c] = "returned" /\ cpc[c] \in {"none", "done"} THEN "over"
  ELSE IF up[c] = "open" THEN "open"
  ELSE "closed"

Life == INSTANCE ConnLife WITH
          MaxDials <- Cardinality(Dialers), life <- [c \in Conns |-> lifeOf(c)]

\* The handler implements ConnLife: dials, timeouts, answers, copies and deferred calls,
\* however they interleave, never serve a connection twice, dial more than
\* maxConcurrentDials upstreams at a time, or end a connection with its upstream open.
ImplementsConnLife == Life!Spec
=============================================================================
