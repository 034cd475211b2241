----------------------------- MODULE WriteWorker -----------------------------
(***************************************************************************)
(* internalsdk/ios/thread_limiting_conn.go: all writes to the TCP          *)
(* connections of the tunnel are executed by ONE goroutine (the worker),   *)
(* which takes them from a bounded channel.  A call of                     *)
(* threadLimitingTCPConn.Write queues a task and waits for the connection's*)
(* result channel; Close closes that channel and then the connection.      *)
(*                                                                         *)
(* Every connection has one writer (the inbound half of copy() in tcp.go)  *)
(* and several callers of Close (copy's two waiting goroutines and its     *)
(* deferred calls).  The k-th Write of a connection is the task <<c, k>>;  *)
(* what a write returns is abstracted to WHOSE result it is.               *)
(***************************************************************************)
EXTENDS Integers, Sequences

CONSTANTS Conns,      \* the downstream connections
          Closers,    \* the goroutines that may call Close on a connection
          Depth,      \* capacity of worker.tasks (downstreamWriteBufferDepth)
          MaxWrites,  \* bound: Write calls made per connection
          NoTask      \* the worker holds no task

Writes == 1..MaxWrites
Task == Conns \X Writes

ASSUME DepthAssumption == Depth \in Nat \ {0}
ASSUME MaxWritesAssumption == MaxWrites \in Nat
ASSUME NoTaskAssumption == NoTask \notin Task

Closed == -1       \* the write returned errWriteOnClosedConn
Pending == 0       \* the write has not returned

VARIABLES
  tasks,         \* worker.tasks, a FIFO channel
  running,       \* the task the worker goroutine executes, or NoTask
  stage,         \* "idle", "write" (inside Conn.Write), "deliver" (inside writeResult.Write)
  wpc,           \* writer of c: "idle", "enqueue" (blocked on tasks), "await" (on writeResult)
  writeNo,       \* number of the writer's current or last Write
  result,        \* buffered content of c.writeResult (capacity 1)
  resultClosed,  \* c.writeResult has been closed
  connClosed,    \* the wrapped Conn has been closed
  once,          \* c.closeOnce: "new", "running", "done"
  closer,        \* closer[c][g]: g's call of c.Close: "none", "inside", "returned"
  performed,     \* history: the writes passed on to the wrapped Conn, in order
  returned,      \* history: whose result the k-th Write returned
  afterClose     \* history: the writes begun after a Close of c had returned

worker == <<tasks, running, stage>>
closing == <<resultClosed, connClosed, once, closer>>
vars == <<tasks, running, stage, wpc, writeNo, result, resultClosed,
          connClosed, once, closer, performed, returned, afterClose>>

Init ==
  /\ tasks = << >>
  /\ running = NoTask
  /\ stage = "idle"
  /\ wpc = [c \in Conns |-> "idle"]
  /\ writeNo = [c \in Conns |-> 0]
  /\ result = [c \in Conns |-> << >>]
  /\ resultClosed = [c \in Conns |-> FALSE]
  /\ connClosed = [c \in Conns |-> FALSE]
  /\ once = [c \in Conns |-> "new"]
  /\ closer = [c \in Conns |-> [g \in Closers |-> "none"]]
  /\ performed = [c \in Conns |-> << >>]
  /\ returned = [c \in Conns |-> [k \in Writes |-> Pending]]
  /\ afterClose = [c \in Conns |-> {}]

-----------------------------------------------------------------------------
(* Mutated forms of the actions below: plausible slips in this code that   *)
(* the properties must notice.  No specification uses them.                *)

\* Write gives up before its result arrives (a timeout around the receive).
AwaitResult_GivesUp(c) ==
  /\ wpc[c] = "await"
  /\ \/ /\ result[c] # << >>
        /\ returned' = [returned EXCEPT ![c][writeNo[c]] = Head(result[c])]
        /\ result' = [result EXCEPT ![c] = Tail(@)]
     \/ /\ result[c] = << >>
        /\ returned' = [returned EXCEPT ![c][writeNo[c]] = Closed]
        /\ UNCHANGED result
  /\ wpc' = [wpc EXCEPT ![c] = "idle"]
  /\ UNCHANGED <<worker, writeNo, closing, performed, afterClose>>

\* Write waits for a result only, not for the closing of the channel.
AwaitResult_IgnoresClose(c) ==
  /\ wpc[c] = "await"
  /\ result[c] # << >>
  /\ returned' = [returned EXCEPT ![c][writeNo[c]] = Head(result[c])]
  /\ result' = [result EXCEPT ![c] = Tail(@)]
  /\ wpc' = [wpc EXCEPT ![c] = "idle"]
  /\ UNCHANGED <<worker, writeNo, closing, performed, afterClose>>

\* The worker serves the newest task first.
Take_NewestFirst ==
  /\ stage = "idle"
  /\ tasks # << >>
  /\ running' = tasks[Len(tasks)]
  /\ tasks' = SubSeq(tasks, 1, Len(tasks) - 1)
  /\ stage' = "write"
  /\ UNCHANGED <<wpc, writeNo, result, closing, performed, returned, afterClose>>

-----------------------------------------------------------------------------
(* The writer of c *)

\* The next call of Write on c begins.
WriteCall(c) ==
  /\ wpc[c] = "idle"
  /\ writeNo[c] < MaxWrites
  /\ wpc' = [wpc EXCEPT ![c] = "enqueue"]
  /\ writeNo' = [writeNo EXCEPT ![c] = @ + 1]
  /\ afterClose' = IF \E g \in Closers : closer[c][g] = "returned"
                   THEN [afterClose EXCEPT ![c] = @ \cup {writeNo[c] + 1}]
                   ELSE afterClose
  /\ UNCHANGED <<worker, result, closing, performed, returned>>

\* c.writeWorker.tasks <- func: blocks while the channel is full, closed
\* connection or not.
Enqueue(c) ==
  /\ wpc[c] = "enqueue"
  /\ Len(tasks) < Depth
  /\ tasks' = Append(tasks, <<c, writeNo[c]>>)
  /\ wpc' = [wpc EXCEPT ![c] = "await"]
  /\ UNCHANGED <<running, stage, writeNo, result, closing, performed,
                 returned, afterClose>>

\* result, ok := <-c.writeResult.Read(): a buffered result is drained even
\* after the channel was closed.
AwaitResult(c) ==
  /\ wpc[c] = "await"
  /\ \/ /\ result[c] # << >>
        /\ returned' = [returned EXCEPT ![c][writeNo[c]] = Head(result[c])]
        /\ result' = [result EXCEPT ![c] = Tail(@)]
     \/ /\ result[c] = << >>
        /\ resultClosed[c]
        /\ returned' = [returned EXCEPT ![c][writeNo[c]] = Closed]
        /\ UNCHANGED result
  /\ wpc' = [wpc EXCEPT ![c] = "idle"]
  /\ UNCHANGED <<worker, writeNo, closing, performed, afterClose>>

-----------------------------------------------------------------------------
(* The worker goroutine *)

\* for task := range w.tasks
Take ==
  /\ stage = "idle"
  /\ tasks # << >>
  /\ running' = Head(tasks)
  /\ tasks' = Tail(tasks)
  /\ stage' = "write"
  /\ UNCHANGED <<wpc, writeNo, result, closing, performed, returned, afterClose>>

\* c.Conn.Write(b) returns (with or without an error).
Perform ==
  /\ stage = "write"
  /\ performed' = [performed EXCEPT ![running[1]] = Append(@, running[2])]
  /\ stage' = "deliver"
  /\ UNCHANGED <<tasks, running, wpc, writeNo, result, closing, returned, afterClose>>

\* c.writeResult.Write: dropped once the channel is closed, otherwise it
\* needs room in the channel of capacity 1.
Deliver ==
  /\ stage = "deliver"
  /\ LET c == running[1] IN
       \/ /\ resultClosed[c]
          /\ UNCHANGED result
       \/ /\ ~resultClosed[c]
          /\ Len(result[c]) < 1
          /\ result' = [result EXCEPT ![c] = Append(@, running[2])]
  /\ running' = NoTask
  /\ stage' = "idle"
  /\ UNCHANGED <<tasks, wpc, writeNo, closing, performed, returned, afterClose>>

-----------------------------------------------------------------------------
(* Close, called by any of the closers *)

\* The first caller enters closeOnce.Do and closes the result channel.
CloseFirst(c, g) ==
  /\ closer[c][g] = "none"
  /\ once[c] = "new"
  /\ once' = [once EXCEPT ![c] = "running"]
  /\ closer' = [closer EXCEPT ![c][g] = "inside"]
  /\ resultClosed' = [resultClosed EXCEPT ![c] = TRUE]
  /\ UNCHANGED <<worker, wpc, writeNo, result, connClosed, performed, returned, afterClose>>

\* It then closes the wrapped connection and returns.
CloseFinish(c, g) ==
  /\ closer[c][g] = "inside"
  /\ connClosed' = [connClosed EXCEPT ![c] = TRUE]
  /\ once' = [once EXCEPT ![c] = "done"]
  /\ closer' = [closer EXCEPT ![c][g] = "returned"]
  /\ UNCHANGED <<worker, wpc, writeNo, result, resultClosed, performed, returned, afterClose>>

\* Any later caller waits in closeOnce.Do until the first one is done.
CloseAgain(c, g) ==
  /\ closer[c][g] = "none"
  /\ once[c] = "done"
  /\ closer' = [closer EXCEPT ![c][g] = "returned"]
  /\ UNCHANGED <<worker, wpc, writeNo, result, resultClosed, connClosed, once,
                 performed, returned, afterClose>>

Close(c, g) == CloseFirst(c, g) \/ CloseFinish(c, g) \/ CloseAgain(c, g)
Write(c) == WriteCall(c) \/ Enqueue(c) \/ AwaitResult(c)
Work == Take \/ Perform \/ Deliver

Next ==
  \/ \E c \in Conns : WriteCall(c)
  \/ \E c \in Conns : Enqueue(c)
  \/ \E c \in Conns : AwaitResult(c)
  \/ Take
  \/ Perform
  \/ Deliver
  \/ \E c \in Conns, g \in Closers : CloseFirst(c, g)
  \/ \E c \in Conns, g \in Closers : CloseFinish(c, g)
  \/ \E c \in Conns, g \in Closers : CloseAgain(c, g)

Spec == Init /\ [][Next]_vars

\* Goroutines are scheduled fairly, senders blocked on a channel are served in
\* order (hence SF for Enqueue), and the tunnel's TCP stack answers a write or
\* fails it.  Nobody is obliged to start a Write or a Close.
Fairness ==
  /\ WF_vars(Work)
  /\ \A c \in Conns : SF_vars(Enqueue(c)) /\ WF_vars(AwaitResult(c))
  /\ \A c \in Conns, g \in Closers : WF_vars(CloseFinish(c, g))

FairSpec == Spec /\ Fairness
-----------------------------------------------------------------------------
(* Properties *)

\* The variables have the shapes the declarations above give them.
TypeOK ==
  /\ tasks \in Seq(Task)
  /\ running \in Task \cup {NoTask}
  /\ stage \in {"idle", "write", "deliver"}
  /\ (running = NoTask) <=> (stage = "idle")
  /\ wpc \in [Conns -> {"idle", "enqueue", "await"}]
  /\ writeNo \in [Conns -> 0..MaxWrites]
  /\ \A c \in Conns : wpc[c] # "idle" => writeNo[c] \in Writes
  /\ result \in [Conns -> Seq(Writes)]
  /\ resultClosed \in [Conns -> BOOLEAN]
  /\ connClosed \in [Conns -> BOOLEAN]
  /\ once \in [Conns -> {"new", "running", "done"}]
  /\ closer \in [Conns -> [Closers -> {"none", "inside", "returned"}]]
  /\ performed \in [Conns -> Seq(Writes)]
  /\ returned \in [Conns -> [Writes -> Writes \cup {Pending, Closed}]]
  /\ afterClose \in [Conns -> SUBSET Writes]

\* A Write never returns the byte count and error of another Write of its
\* connection: the result channel carries no identity, so this rests on the
\* pairing of one task with one receive, across closes (Write, lines 54-63).
OwnResult ==
  \A c \in Conns, k \in Writes : returned[c][k] \in {Pending, Closed, k}

\* The worker is shared by all connections, so it must never block on handing
\* a result over: whenever it is about to, the channel is closed or has room.
WorkerNeverBlocked ==
  stage = "deliver" =>
    resultClosed[running[1]] \/ result[running[1]] = << >>

\* The bytes of a connection reach the wrapped Conn in the order they were
\* written and no write is performed twice, although writes of a closed
\* connection return before the worker has executed them.
InOrderOnce ==
  \A c \in Conns : \A i, j \in 1..Len(performed[c]) :
    i < j => performed[c][i] < performed[c][j]

\* A Write begun after some Close has returned fails with
\* errWriteOnClosedConn: no result left over from before is taken for its own.
WriteAfterCloseFails ==
  \A c \in Conns : \A k \in afterClose[c] : returned[c][k] \in {Pending, Closed}

\* When any call of Close has returned, also one that lost the race for
\* closeOnce, the result channel and the wrapped connection are closed.
CloseReturnsClosed ==
  \A c \in Conns, g \in Closers :
    closer[c][g] = "returned" => resultClosed[c] /\ connClosed[c]

\* Every Write returns, whatever the other connections of the shared worker do.
WriteReturns ==
  \A c \in Conns : (wpc[c] = "await" \/ wpc[c] = "enqueue") ~> (wpc[c] = "idle")

=============================================================================
