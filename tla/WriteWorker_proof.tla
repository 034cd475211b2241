-------------------------- MODULE WriteWorker_proof --------------------------
(* Safety of the shared write worker for any number of connections,        *)
(* closers and writes and any queue capacity.                              *)
EXTENDS WriteWorker, TLAPS

(***************************************************************************)
(* The strengthening.  While a connection's result channel is open, its    *)
(* writer's wait is matched by exactly one task, queued or running, or by  *)
(* the one buffered result; once it is closed, tasks may be left behind,   *)
(* but no result of theirs can reach the channel any more.                 *)
(***************************************************************************)
Open(c) == ~resultClosed[c]

\* A queued task of an open connection belongs to the Write in progress.
QueuedIsAwaited ==
  \A i \in 1..Len(tasks) :
    Open(tasks[i][1]) =>
      /\ wpc[tasks[i][1]] = "await"
      /\ tasks[i][2] = writeNo[tasks[i][1]]
      /\ result[tasks[i][1]] = << >>
      /\ running = NoTask \/ running[1] # tasks[i][1]

\* An open connection has at most one queued task.
QueuedOnce ==
  \A i, j \in 1..Len(tasks) :
    tasks[i][1] = tasks[j][1] /\ Open(tasks[i][1]) => i = j

\* The running task of an open connection belongs to the Write in progress.
RunningIsAwaited ==
  stage # "idle" /\ Open(running[1]) =>
      /\ wpc[running[1]] = "await"
      /\ running[2] = writeNo[running[1]]
      /\ result[running[1]] = << >>

\* A buffered result is the result of the Write in progress.
ResultIsAwaited ==
  \A c \in Conns : result[c] # << >> =>
    /\ wpc[c] = "await"
    /\ result[c] = << writeNo[c] >>
    /\ writeNo[c] \notin afterClose[c]

\* What has been closed by whom.
CloseOrder ==
  \A c \in Conns :
    /\ once[c] = "done" => resultClosed[c] /\ connClosed[c]
    /\ once[c] = "running" => resultClosed[c]
    /\ \A g \in Closers :
         /\ closer[c][g] = "inside" => resultClosed[c]
         /\ closer[c][g] = "returned" => once[c] = "done"
    /\ afterClose[c] # {} => resultClosed[c]
    /\ \A k \in afterClose[c] : k <= writeNo[c]

\* A Write that has not begun has returned nothing.
FuturePending ==
  \A c \in Conns, k \in Writes : k > writeNo[c] => returned[c][k] = Pending

IInv ==
  /\ TypeOK
  /\ FuturePending
  /\ QueuedIsAwaited
  /\ QueuedOnce
  /\ RunningIsAwaited
  /\ ResultIsAwaited
  /\ CloseOrder
  /\ OwnResult
  /\ WriteAfterCloseFails

-----------------------------------------------------------------------------
(* No action of the writers, the worker or the closers leaves the types.   *)
LEMMA TypeStep == TypeOK /\ [Next]_vars => TypeOK'
<1> USE DepthAssumption, MaxWritesAssumption, NoTaskAssumption
      DEF Writes, Task, DepthAssumption, MaxWritesAssumption, NoTaskAssumption
<1> SUFFICES ASSUME TypeOK, [Next]_vars PROVE TypeOK'
  OBVIOUS
<1> USE DEF TypeOK
<1>1. ASSUME NEW c \in Conns, WriteCall(c) PROVE TypeOK'
  BY <1>1 DEF WriteCall, worker, closing
<1>2. ASSUME NEW c \in Conns, Enqueue(c) PROVE TypeOK'
  <2>1. <<c, writeNo[c]>> \in Conns \X (1..MaxWrites)
    BY <1>2 DEF Enqueue
  <2>2. tasks' \in Seq(Conns \X (1..MaxWrites))
    BY <1>2, <2>1 DEF Enqueue
  <2> QED BY <1>2, <2>2 DEF Enqueue, closing
<1>3. ASSUME NEW c \in Conns, AwaitResult(c) PROVE TypeOK'
  <2>1. result[c] # << >> => Head(result[c]) \in Writes /\ Tail(result[c]) \in Seq(Writes)
    <3>1. result[c] \in Seq(Writes)
      OBVIOUS
    <3> QED BY <3>1
  <2>2. PICK v \in Writes \cup {Pending, Closed} :
          returned' = [returned EXCEPT ![c][writeNo[c]] = v]
    BY <1>3, <2>1 DEF AwaitResult
  <2>3. returned' \in [Conns -> [Writes -> Writes \cup {Pending, Closed}]]
    BY <2>2
  <2>4. PICK q \in Seq(Writes) : result' = [result EXCEPT ![c] = q]
    <3>1. CASE result[c] # << >>
      BY <1>3, <2>1, <3>1 DEF AwaitResult
    <3>2. CASE result[c] = << >>
      <4>1. result' = [result EXCEPT ![c] = result[c]]
        BY <1>3, <3>2 DEF AwaitResult
      <4> QED BY <4>1
    <3> QED BY <3>1, <3>2
  <2>5. result' \in [Conns -> Seq(Writes)]
    BY <2>4
  <2>6. wpc' = [wpc EXCEPT ![c] = "idle"]
    BY <1>3 DEF AwaitResult
  <2>7. UNCHANGED <<tasks, running, stage, writeNo, resultClosed, connClosed, once, closer,
                    performed, afterClose>>
    BY <1>3 DEF AwaitResult, worker, closing
  <2> QED BY <2>3, <2>5, <2>6, <2>7
<1>4. CASE Take
  <2>1. tasks # << >> /\ running' = Head(tasks) /\ tasks' = Tail(tasks) /\ stage' = "write"
    BY <1>4 DEF Take
  <2>2. running' \in Task /\ tasks' \in Seq(Task)
    <3> DEFINE T == Conns \X (1..MaxWrites)
    <3>1. tasks \in Seq(T) /\ tasks # << >>
      BY <2>1
    <3> HIDE DEF T
    <3>2. Head(tasks) \in T /\ Tail(tasks) \in Seq(T)
      BY <3>1
    <3> QED BY <2>1, <3>2 DEF T
  <2>3. UNCHANGED <<wpc, writeNo, result, resultClosed, connClosed, once, closer, performed,
                    returned, afterClose>>
    BY <1>4 DEF Take, closing
  <2> QED BY <2>1, <2>2, <2>3
<1>5. CASE Perform
  BY <1>5 DEF Perform, closing
<1>6. CASE Deliver
  <2>1. running \in Task
    BY <1>6 DEF Deliver
  <2>2. result[running[1]] \in Seq(Writes) /\ running[2] \in Writes
    BY <2>1
  <2>3. Append(result[running[1]], running[2]) \in Seq(Writes)
    BY <2>2
  <2>4. result' \in [Conns -> Seq(Writes)]
    BY <1>6, <2>3 DEF Deliver
  <2> QED BY <1>6, <2>4 DEF Deliver, closing
<1>7. ASSUME NEW c \in Conns, NEW g \in Closers, CloseFirst(c, g) PROVE TypeOK'
  BY <1>7 DEF CloseFirst, worker
<1>8. ASSUME NEW c \in Conns, NEW g \in Closers, CloseFinish(c, g) PROVE TypeOK'
  BY <1>8 DEF CloseFinish, worker
<1>9. ASSUME NEW c \in Conns, NEW g \in Closers, CloseAgain(c, g) PROVE TypeOK'
  BY <1>9 DEF CloseAgain, worker
<1>10. CASE UNCHANGED vars
  BY <1>10 DEF vars
<1> QED
  BY <1>1, <1>2, <1>3, <1>4, <1>5, <1>6, <1>7, <1>8, <1>9, <1>10 DEF Next

(* The initial state has the declared types.                               *)
LEMMA TypeCorrectInit == Init => TypeOK
  BY DepthAssumption, MaxWritesAssumption, NoTaskAssumption
  DEF Init, TypeOK, Pending, Closed, Writes, Task, MaxWritesAssumption, NoTaskAssumption

(* Every reachable state has the declared types.                           *)
THEOREM TypeCorrect == Spec => []TypeOK
  BY TypeCorrectInit, TypeStep, PTL DEF Spec

-----------------------------------------------------------------------------
(* What the types say of a queued and of a running task.                   *)
LEMMA TaskTypes ==
  ASSUME TypeOK
  PROVE  /\ \A i \in 1..Len(tasks) :
              tasks[i] \in Task /\ tasks[i][1] \in Conns /\ tasks[i][2] \in Writes
         /\ running # NoTask => running[1] \in Conns /\ running[2] \in Writes
         /\ \A t \in Task : t # NoTask
<1>1. \A i \in 1..Len(tasks) : tasks[i] \in Task
  BY DEF TypeOK
<1>2. \A t \in Task : t[1] \in Conns /\ t[2] \in Writes /\ t # NoTask
  BY NoTaskAssumption DEF Task, NoTaskAssumption
<1>3. running # NoTask => running \in Task
  BY DEF TypeOK
<1> QED BY <1>1, <1>2, <1>3

Rest == /\ FuturePending /\ QueuedIsAwaited /\ QueuedOnce /\ RunningIsAwaited
        /\ ResultIsAwaited /\ CloseOrder /\ OwnResult /\ WriteAfterCloseFails

(* A Write that begins leaves everything matched: it has no task yet, and  *)
(* there is no stale result for it to find.                                *)
LEMMA WriteCallStep ==
  ASSUME TypeOK, TypeOK', Rest, NEW c \in Conns, WriteCall(c)
  PROVE  Rest'
<1> USE DEF Rest, WriteCall, worker, closing
<1>1. /\ wpc[c] = "idle" /\ wpc' = [wpc EXCEPT ![c] = "enqueue"] /\ wpc \in [Conns -> {"idle", "enqueue", "await"}]
      /\ writeNo \in [Conns -> 0..MaxWrites] /\ writeNo' = [writeNo EXCEPT ![c] = @ + 1]
  BY DEF TypeOK
<1>2. FuturePending'
  BY <1>1, MaxWritesAssumption DEF FuturePending, Writes, MaxWritesAssumption
<1>3. QueuedIsAwaited'
  <2> SUFFICES ASSUME NEW i \in 1..Len(tasks), Open(tasks[i][1])
               PROVE  /\ wpc'[tasks[i][1]] = "await"
                      /\ tasks[i][2] = writeNo'[tasks[i][1]]
                      /\ result[tasks[i][1]] = << >>
                      /\ running = NoTask \/ running[1] # tasks[i][1]
    BY DEF QueuedIsAwaited, Open
  <2>1. tasks[i][1] \in Conns /\ tasks[i][1] # c
    BY <1>1, TaskTypes DEF QueuedIsAwaited
  <2> QED BY <1>1, <2>1 DEF QueuedIsAwaited
<1>4. QueuedOnce' /\ OwnResult'
  BY DEF QueuedOnce, Open, OwnResult
<1>5. RunningIsAwaited'
  <2> SUFFICES ASSUME stage # "idle", Open(running[1])
               PROVE  /\ wpc'[running[1]] = "await"
                      /\ running[2] = writeNo'[running[1]]
                      /\ result[running[1]] = << >>
    BY DEF RunningIsAwaited, Open
  <2>1. running[1] \in Conns /\ running[1] # c
    BY <1>1, TaskTypes DEF RunningIsAwaited, TypeOK
  <2> QED BY <1>1, <2>1 DEF RunningIsAwaited
<1>6. ResultIsAwaited'
  <2> SUFFICES ASSUME NEW d \in Conns, result[d] # << >>
               PROVE  /\ wpc'[d] = "await" /\ result[d] = << writeNo'[d] >>
                      /\ writeNo'[d] \notin afterClose'[d]
    BY DEF ResultIsAwaited
  <2>1. d # c
    BY <1>1 DEF ResultIsAwaited
  <2> QED BY <1>1, <2>1 DEF ResultIsAwaited
<1>7. CloseOrder'
  <2>1. \A d \in Conns : afterClose'[d] # afterClose[d] =>
          d = c /\ resultClosed[c] /\ afterClose'[c] = afterClose[c] \cup {writeNo'[c]}
    BY <1>1 DEF CloseOrder, TypeOK
  <2> SUFFICES ASSUME NEW d \in Conns
               PROVE  /\ afterClose'[d] # {} => resultClosed[d]
                      /\ \A k \in afterClose'[d] : k <= writeNo'[d]
    BY DEF CloseOrder
  <2>2. \A k \in afterClose[d] : k <= writeNo'[d]
    BY <1>1, MaxWritesAssumption DEF CloseOrder, TypeOK, Writes, MaxWritesAssumption
  <2> QED BY <1>1, <2>1, <2>2, MaxWritesAssumption DEF CloseOrder, MaxWritesAssumption
<1>8. WriteAfterCloseFails'
  <2> SUFFICES ASSUME NEW d \in Conns, NEW k \in afterClose'[d]
               PROVE  returned[d][k] \in {Pending, Closed}
    BY DEF WriteAfterCloseFails
  <2>1. k \in afterClose[d] \/ (d = c /\ k = writeNo[c] + 1 /\ k \in Writes)
    BY <1>1 DEF TypeOK
  <2> QED BY <1>1, <2>1, MaxWritesAssumption
          DEF WriteAfterCloseFails, FuturePending, MaxWritesAssumption
<1> QED BY <1>2, <1>3, <1>4, <1>5, <1>6, <1>7, <1>8

(* Queueing the task matches the wait that begins with it.                 *)
LEMMA EnqueueStep ==
  ASSUME TypeOK, TypeOK', Rest, NEW c \in Conns, Enqueue(c)
  PROVE  Rest'
<1> USE DEF Rest, Enqueue, closing
<1>1. /\ wpc[c] = "enqueue" /\ wpc' = [wpc EXCEPT ![c] = "await"]
      /\ wpc \in [Conns -> {"idle", "enqueue", "await"}]
  BY DEF TypeOK
<1>2. /\ Len(tasks') = Len(tasks) + 1 /\ Len(tasks) \in Nat
      /\ tasks'[Len(tasks')] = <<c, writeNo[c]>>
      /\ \A i \in 1..Len(tasks) : tasks'[i] = tasks[i]
  BY DEF TypeOK
<1>3. /\ \A i \in 1..Len(tasks) : tasks[i][1] = c => ~Open(c)
      /\ running # NoTask /\ Open(c) => running[1] # c
      /\ result[c] = << >>
  <2>1. \A i \in 1..Len(tasks) : tasks[i][1] = c => ~Open(c)
    BY <1>1, TaskTypes DEF QueuedIsAwaited, Open
  <2>2. running # NoTask /\ Open(c) => running[1] # c
    BY <1>1 DEF RunningIsAwaited, TypeOK, Open
  <2>3. result[c] = << >>
    BY <1>1 DEF ResultIsAwaited
  <2> QED BY <2>1, <2>2, <2>3
<1>4. QueuedIsAwaited'
  <2> SUFFICES ASSUME NEW i \in 1..Len(tasks'), Open(tasks'[i][1])
               PROVE  /\ wpc'[tasks'[i][1]] = "await"
                      /\ tasks'[i][2] = writeNo[tasks'[i][1]]
                      /\ result[tasks'[i][1]] = << >>
                      /\ running = NoTask \/ running[1] # tasks'[i][1]
    BY DEF QueuedIsAwaited, Open
  <2>1. CASE i = Len(tasks')
    BY <1>1, <1>2, <1>3, <2>1
  <2>2. CASE i \in 1..Len(tasks)
    BY <1>1, <1>2, <1>3, <2>2, TaskTypes DEF QueuedIsAwaited
  <2> QED BY <1>2, <2>1, <2>2
<1>5. QueuedOnce'
  BY <1>2, <1>3 DEF QueuedOnce, Open
<1>6. RunningIsAwaited'
  BY <1>1, <1>3, TaskTypes DEF RunningIsAwaited, Open, TypeOK
<1>7. ResultIsAwaited'
  BY <1>1, <1>3 DEF ResultIsAwaited
<1>8. FuturePending' /\ CloseOrder' /\ OwnResult' /\ WriteAfterCloseFails'
  BY DEF FuturePending, CloseOrder, OwnResult, WriteAfterCloseFails
<1> QED BY <1>4, <1>5, <1>6, <1>7, <1>8

(* A Write returns its own result, or the closing of the channel.          *)
LEMMA AwaitResultStep ==
  ASSUME TypeOK, TypeOK', Rest, NEW c \in Conns, AwaitResult(c)
  PROVE  Rest'
<1> USE DEF Rest, AwaitResult, worker, closing
<1>1. /\ wpc[c] = "await" /\ wpc' = [wpc EXCEPT ![c] = "idle"]
      /\ wpc \in [Conns -> {"idle", "enqueue", "await"}]
      /\ writeNo[c] \in Writes
  BY DEF TypeOK
<1>2. PICK v \in {writeNo[c], Closed} :
        /\ returned' = [returned EXCEPT ![c][writeNo[c]] = v]
        /\ v = writeNo[c] => result[c] = << writeNo[c] >> /\ writeNo[c] \notin afterClose[c]
  <2>1. CASE result[c] # << >>
    BY <2>1 DEF ResultIsAwaited
  <2>2. CASE result[c] = << >>
    BY <2>2, <1>1 DEF Closed, Writes
  <2> QED BY <2>1, <2>2
<1>3. result'[c] = << >> /\ \A d \in Conns \ {c} : result'[d] = result[d]
  <2>1. CASE result[c] = << >>
    BY <2>1
  <2>2. CASE result[c] # << >>
    <3>1. Tail(result[c]) = << >>
      <4>1. result[c] = << writeNo[c] >>
        BY <2>2 DEF ResultIsAwaited
      <4> QED BY <4>1
    <3>2. result' = [result EXCEPT ![c] = << >>]
      BY <2>2, <3>1
    <3> QED BY <3>2 DEF TypeOK
  <2> QED BY <2>1, <2>2
<1>4. /\ \A i \in 1..Len(tasks) : tasks[i][1] = c => ~Open(c)
      /\ running # NoTask => ~(running[1] = c /\ Open(c))
  <2>1. result[c] # << >> \/ ~Open(c)
    BY DEF Open
  <2>2. \A i \in 1..Len(tasks) : tasks[i][1] = c => ~Open(c)
    BY <2>1 DEF QueuedIsAwaited, Open
  <2>3. running # NoTask => ~(running[1] = c /\ Open(c))
    BY <2>1 DEF RunningIsAwaited, Open, TypeOK
  <2> QED BY <2>2, <2>3
<1>5. QueuedIsAwaited'
  <2> SUFFICES ASSUME NEW i \in 1..Len(tasks), Open(tasks[i][1])
               PROVE  /\ wpc'[tasks[i][1]] = "await"
                      /\ tasks[i][2] = writeNo[tasks[i][1]]
                      /\ result'[tasks[i][1]] = << >>
                      /\ running = NoTask \/ running[1] # tasks[i][1]
    BY DEF QueuedIsAwaited, Open
  <2> QED BY <1>1, <1>3, <1>4, TaskTypes DEF QueuedIsAwaited
<1>6. RunningIsAwaited'
  <2> SUFFICES ASSUME stage # "idle", Open(running[1])
               PROVE  /\ wpc'[running[1]] = "await"
                      /\ running[2] = writeNo[running[1]]
                      /\ result'[running[1]] = << >>
    BY DEF RunningIsAwaited, Open
  <2> QED BY <1>1, <1>3, <1>4, TaskTypes DEF RunningIsAwaited, TypeOK
<1>7. ResultIsAwaited'
  BY <1>1, <1>3 DEF ResultIsAwaited
<1>8. \A d \in Conns, k \in Writes :
        returned'[d][k] = IF d = c /\ k = writeNo[c] THEN v ELSE returned[d][k]
  BY <1>2 DEF TypeOK
<1>9. OwnResult'
  BY <1>2, <1>8 DEF OwnResult
<1>10. WriteAfterCloseFails'
  <2> SUFFICES ASSUME NEW d \in Conns, NEW k \in afterClose[d]
               PROVE  returned'[d][k] \in {Pending, Closed}
    BY DEF WriteAfterCloseFails
  <2>1. k \in Writes
    BY DEF TypeOK
  <2> QED BY <1>2, <1>8, <2>1 DEF WriteAfterCloseFails
<1>11. FuturePending'
  BY <1>1, <1>8, MaxWritesAssumption DEF FuturePending, Writes, MaxWritesAssumption
<1>12. QueuedOnce' /\ CloseOrder'
  BY DEF QueuedOnce, CloseOrder, Open
<1> QED BY <1>5, <1>6, <1>7, <1>9, <1>10, <1>11, <1>12

(* Taking the head of the queue moves the awaited task from queue to hand. *)
LEMMA TakeStep ==
  ASSUME TypeOK, TypeOK', Rest, Take
  PROVE  Rest'
<1> USE DEF Rest, Take, closing
<1>1. /\ Len(tasks) \in Nat /\ Len(tasks) > 0 /\ Len(tasks') = Len(tasks) - 1
      /\ running' = tasks[1]
      /\ \A i \in 1..Len(tasks') : i + 1 \in 1..Len(tasks) /\ tasks'[i] = tasks[i + 1]
  BY DEF TypeOK
<1>2. running' # NoTask /\ running'[1] \in Conns
  BY <1>1, TaskTypes
<1>3. QueuedIsAwaited'
  <2> SUFFICES ASSUME NEW i \in 1..Len(tasks'), Open(tasks'[i][1])
               PROVE  /\ wpc[tasks'[i][1]] = "await"
                      /\ tasks'[i][2] = writeNo[tasks'[i][1]]
                      /\ result[tasks'[i][1]] = << >>
                      /\ running'[1] # tasks'[i][1]
    BY DEF QueuedIsAwaited, Open
  <2>1. i + 1 \in 1..Len(tasks) /\ 1 \in 1..Len(tasks) /\ i + 1 # 1 /\ tasks'[i] = tasks[i + 1]
    BY <1>1
  <2>2. tasks[1][1] # tasks[i + 1][1]
    BY <2>1 DEF QueuedOnce, Open
  <2> QED BY <1>1, <2>1, <2>2 DEF QueuedIsAwaited, Open
<1>4. QueuedOnce'
  <2> SUFFICES ASSUME NEW i \in 1..Len(tasks'), NEW j \in 1..Len(tasks'),
                      tasks'[i][1] = tasks'[j][1], Open(tasks'[i][1])
               PROVE  i = j
    BY DEF QueuedOnce, Open
  <2>1. i + 1 = j + 1
    BY <1>1 DEF QueuedOnce, Open
  <2> QED BY <2>1
<1>5. RunningIsAwaited'
  BY <1>1 DEF QueuedIsAwaited, RunningIsAwaited, Open
<1>6. ResultIsAwaited' /\ FuturePending' /\ CloseOrder' /\ OwnResult' /\ WriteAfterCloseFails'
  BY DEF ResultIsAwaited, FuturePending, CloseOrder, OwnResult, WriteAfterCloseFails
<1> QED BY <1>3, <1>4, <1>5, <1>6

(* Performing the write touches neither the queue nor the result.          *)
LEMMA PerformStep ==
  ASSUME TypeOK, Rest, Perform
  PROVE  Rest'
<1> USE DEF Rest, Perform, closing
<1>1. QueuedIsAwaited' /\ QueuedOnce'
  BY DEF QueuedIsAwaited, QueuedOnce, Open
<1>2. RunningIsAwaited'
  BY DEF RunningIsAwaited, Open
<1>3. ResultIsAwaited' /\ FuturePending' /\ CloseOrder' /\ OwnResult' /\ WriteAfterCloseFails'
  BY DEF ResultIsAwaited, FuturePending, CloseOrder, OwnResult, WriteAfterCloseFails
<1> QED BY <1>1, <1>2, <1>3

(* The result of an open connection is put where its Write waits; that of  *)
(* a closed one is dropped.                                                *)
LEMMA DeliverStep ==
  ASSUME TypeOK, TypeOK', Rest, Deliver
  PROVE  Rest'
<1> USE DEF Rest, Deliver, closing
<1> DEFINE c == running[1]
<1>1. running # NoTask /\ c \in Conns /\ running[2] \in Writes /\ running' = NoTask
  BY TaskTypes DEF TypeOK
<1>2. Open(c) => /\ wpc[c] = "await" /\ running[2] = writeNo[c]
                 /\ result[c] = << >> /\ writeNo[c] \notin afterClose[c]
  BY <1>1 DEF RunningIsAwaited, CloseOrder, Open
<1>3. /\ Open(c) => result'[c] = << writeNo[c] >>
      /\ ~Open(c) => result' = result
      /\ \A d \in Conns \ {c} : result'[d] = result[d]
  <2>1. CASE Open(c)
    <3>1. result' = [result EXCEPT ![c] = << writeNo[c] >>]
      BY <1>2, <2>1 DEF Open
    <3> QED BY <1>1, <2>1, <3>1 DEF TypeOK
  <2>2. CASE ~Open(c)
    BY <2>2 DEF Open
  <2> QED BY <2>1, <2>2
<1>4. QueuedIsAwaited'
  <2> SUFFICES ASSUME NEW i \in 1..Len(tasks), Open(tasks[i][1])
               PROVE  /\ wpc[tasks[i][1]] = "await"
                      /\ tasks[i][2] = writeNo[tasks[i][1]]
                      /\ result'[tasks[i][1]] = << >>
    BY <1>1 DEF QueuedIsAwaited, Open
  <2> QED BY <1>1, <1>3, TaskTypes DEF QueuedIsAwaited, Open
<1>5. ResultIsAwaited'
  <2> SUFFICES ASSUME NEW d \in Conns, result'[d] # << >>
               PROVE  /\ wpc[d] = "await" /\ result'[d] = << writeNo[d] >>
                      /\ writeNo[d] \notin afterClose[d]
    BY DEF ResultIsAwaited
  <2>1. CASE d = c /\ Open(c)
    BY <1>2, <1>3, <2>1
  <2>2. CASE ~(d = c /\ Open(c))
    BY <1>3, <2>2 DEF ResultIsAwaited
  <2> QED BY <2>1, <2>2
<1>6. RunningIsAwaited' /\ QueuedOnce'
  BY DEF RunningIsAwaited, QueuedOnce, Open
<1>7. FuturePending' /\ CloseOrder' /\ OwnResult' /\ WriteAfterCloseFails'
  BY DEF FuturePending, CloseOrder, OwnResult, WriteAfterCloseFails
<1> QED BY <1>4, <1>5, <1>6, <1>7

(* Closing only weakens what has to hold of a connection's tasks.          *)
LEMMA CloseStep ==
  ASSUME TypeOK, Rest, NEW c \in Conns, NEW g \in Closers,
         CloseFirst(c, g) \/ CloseFinish(c, g) \/ CloseAgain(c, g)
  PROVE  Rest'
<1> USE DEF Rest, worker
<1>1. /\ UNCHANGED <<tasks, running, stage, wpc, writeNo, result, returned, afterClose>>
      /\ \A d \in Conns : resultClosed[d] => resultClosed'[d]
      /\ \A d : Open(d)' => Open(d) \/ d \notin Conns
  BY DEF CloseFirst, CloseFinish, CloseAgain, TypeOK, Open
<1>2. QueuedIsAwaited' /\ QueuedOnce'
  BY <1>1, TaskTypes DEF QueuedIsAwaited, QueuedOnce
<1>3. RunningIsAwaited'
  BY <1>1, TaskTypes DEF RunningIsAwaited, TypeOK
<1>4. ResultIsAwaited' /\ FuturePending' /\ OwnResult' /\ WriteAfterCloseFails'
  BY <1>1 DEF ResultIsAwaited, FuturePending, OwnResult, WriteAfterCloseFails
<1>5. CloseOrder'
  <2>1. CASE CloseFirst(c, g)
    BY <1>1, <2>1 DEF CloseFirst, CloseOrder, TypeOK
  <2>2. CASE CloseFinish(c, g)
    BY <1>1, <2>2 DEF CloseFinish, CloseOrder, TypeOK
  <2>3. CASE CloseAgain(c, g)
    BY <1>1, <2>3 DEF CloseAgain, CloseOrder, TypeOK
  <2> QED BY <2>1, <2>2, <2>3
<1> QED BY <1>2, <1>3, <1>4, <1>5

-----------------------------------------------------------------------------
(* The invariant holds in every reachable state.                           *)
THEOREM Invariance == Spec => []IInv
<1>1. Init => IInv
  BY TypeCorrectInit DEF Init, IInv, QueuedIsAwaited, QueuedOnce, RunningIsAwaited,
     ResultIsAwaited, CloseOrder, FuturePending, OwnResult, WriteAfterCloseFails, Pending
<1>2. IInv /\ [Next]_vars => IInv'
  <2> SUFFICES ASSUME IInv, [Next]_vars PROVE IInv'
    OBVIOUS
  <2>1. TypeOK /\ TypeOK' /\ Rest
    BY TypeStep DEF IInv, Rest
  <2>2. Rest'
    <3>1. CASE UNCHANGED vars
      BY <2>1, <3>1 DEF vars, Rest, QueuedIsAwaited, QueuedOnce, RunningIsAwaited, Open,
         ResultIsAwaited, CloseOrder, FuturePending, OwnResult, WriteAfterCloseFails
    <3> QED
      BY <2>1, <3>1, WriteCallStep, EnqueueStep, AwaitResultStep, TakeStep, PerformStep,
         DeliverStep, CloseStep DEF Next
  <2> QED BY <2>1, <2>2 DEF IInv, Rest
<1> QED BY <1>1, <1>2, PTL DEF Spec

(* No Write ever returns the result of another Write.                      *)
THEOREM ResultsAreOwn == Spec => []OwnResult
<1>1. IInv => OwnResult
  BY DEF IInv
<1> QED BY <1>1, Invariance, PTL

(* The worker shared by all connections never blocks on a delivery.        *)
THEOREM DeliveryNeverBlocks == Spec => []WorkerNeverBlocked
<1>1. IInv => WorkerNeverBlocked
  BY DEF IInv, RunningIsAwaited, WorkerNeverBlocked, Open
<1> QED BY <1>1, Invariance, PTL

(* A Write begun after a Close has returned fails.                         *)
THEOREM ClosedWritesFail == Spec => []WriteAfterCloseFails
<1>1. IInv => WriteAfterCloseFails
  BY DEF IInv
<1> QED BY <1>1, Invariance, PTL

(* Whichever caller of Close returns, everything is closed by then.        *)
THEOREM CloseIsComplete == Spec => []CloseReturnsClosed
<1>1. IInv => CloseReturnsClosed
  BY DEF IInv, CloseOrder, CloseReturnsClosed
<1> QED BY <1>1, Invariance, PTL

-----------------------------------------------------------------------------
(***************************************************************************)
(* Order.  The writes performed on a connection, the running one and the   *)
(* queued ones stand in the order of their calls, and all of them have     *)
(* begun before any that is still to be queued.                            *)
(***************************************************************************)
Begun(c, k) == k \in Writes /\ k <= writeNo[c] /\ (wpc[c] = "enqueue" => k < writeNo[c])

\* Only writes that have been queued are in the queue, in hand or performed.
AllBegun ==
  /\ \A i \in 1..Len(tasks) : Begun(tasks[i][1], tasks[i][2])
  /\ running # NoTask => Begun(running[1], running[2])
  /\ \A c \in Conns : \A i \in 1..Len(performed[c]) : Begun(c, performed[c][i])

\* A connection's tasks are queued in order.
QueueInOrder ==
  \A i, j \in 1..Len(tasks) : i < j /\ tasks[i][1] = tasks[j][1] => tasks[i][2] < tasks[j][2]

\* The task in hand precedes its connection's queued ones.
RunningFirst ==
  running # NoTask =>
    \A j \in 1..Len(tasks) : tasks[j][1] = running[1] => running[2] < tasks[j][2]

\* The performed writes precede its connection's queued ones, and the one in hand.
PerformedFirst ==
  \A c \in Conns : \A i \in 1..Len(performed[c]) :
    /\ \A j \in 1..Len(tasks) : tasks[j][1] = c => performed[c][i] < tasks[j][2]
    /\ stage = "write" /\ running[1] = c => performed[c][i] < running[2]

OrderInv == AllBegun /\ QueueInOrder /\ RunningFirst /\ PerformedFirst /\ InOrderOnce

(* The step of the order, from the types.                                  *)
LEMMA OrderStep ==
  ASSUME TypeOK, TypeOK', OrderInv, [Next]_vars
  PROVE  OrderInv'
<1> USE DEF OrderInv
<1>typed.
      /\ Len(tasks) \in Nat
      /\ \A i \in 1..Len(tasks) : tasks[i][1] \in Conns /\ tasks[i][2] \in Nat
      /\ running # NoTask => running[1] \in Conns /\ running[2] \in Nat
      /\ (running = NoTask) <=> (stage = "idle")
      /\ \A c \in Conns : /\ writeNo[c] \in Nat
                          /\ Len(performed[c]) \in Nat
                          /\ \A i \in 1..Len(performed[c]) : performed[c][i] \in Nat
  <2>1. Writes \subseteq Nat
    BY MaxWritesAssumption DEF Writes, MaxWritesAssumption
  <2>2. 0..MaxWrites \subseteq Nat
    BY MaxWritesAssumption DEF MaxWritesAssumption
  <2>3. \A c \in Conns : performed[c] \in Seq(Writes) /\ writeNo[c] \in 0..MaxWrites
    BY DEF TypeOK
  <2>5. (running = NoTask) <=> (stage = "idle")
    BY DEF TypeOK
  <2>6. tasks \in Seq(Task)
    BY DEF TypeOK
  <2>7. \A i \in 1..Len(tasks) : tasks[i][1] \in Conns /\ tasks[i][2] \in Nat
    BY <2>1, TaskTypes
  <2>8. running # NoTask => running[1] \in Conns /\ running[2] \in Nat
    BY <2>1, TaskTypes
  <2>9. \A c \in Conns : /\ writeNo[c] \in Nat
                         /\ Len(performed[c]) \in Nat
                         /\ \A i \in 1..Len(performed[c]) : performed[c][i] \in Nat
    <3> SUFFICES ASSUME NEW c \in Conns
                 PROVE  /\ writeNo[c] \in Nat
                        /\ Len(performed[c]) \in Nat
                        /\ \A i \in 1..Len(performed[c]) : performed[c][i] \in Nat
      OBVIOUS
    <3>1. Len(performed[c]) \in Nat /\ \A i \in 1..Len(performed[c]) : performed[c][i] \in Writes
      BY <2>3
    <3>2. writeNo[c] \in Nat
      BY <2>2, <2>3
    <3> QED BY <2>1, <3>1, <3>2
  <2>10. Len(tasks) \in Nat
    BY <2>6
  <2> QED BY <2>5, <2>7, <2>8, <2>9, <2>10
\* Steps that touch neither queue, hand, history nor the numbers of the writes.
<1>1. ASSUME UNCHANGED <<tasks, running, performed, writeNo>>,
             stage' = stage \/ stage' # "write",
             \A c \in Conns : wpc'[c] = "enqueue" => wpc[c] = "enqueue"
      PROVE  OrderInv'
  <2>1. AllBegun'
    BY <1>1, <1>typed DEF AllBegun, Begun
  <2>2. QueueInOrder' /\ RunningFirst' /\ InOrderOnce'
    BY <1>1 DEF QueueInOrder, RunningFirst, InOrderOnce
  <2>3. PerformedFirst'
    BY <1>1 DEF PerformedFirst
  <2> QED BY <2>1, <2>2, <2>3
<1>2. ASSUME NEW c \in Conns, WriteCall(c) PROVE OrderInv'
  <2> USE <1>2 DEF WriteCall, worker, closing
  <2>1. /\ UNCHANGED <<tasks, running, stage, performed>>
        /\ writeNo'[c] = writeNo[c] + 1
        /\ \A d \in Conns \ {c} : writeNo'[d] = writeNo[d] /\ wpc'[d] = wpc[d]
    BY DEF TypeOK
  <2>2. \A d \in Conns, k \in Writes : Begun(d, k) => Begun(d, k)'
    BY <2>1, <1>typed, MaxWritesAssumption DEF Begun, Writes, MaxWritesAssumption
  <2>3. AllBegun'
    BY <2>1, <2>2, <1>typed DEF AllBegun, Begun
  <2>4. QueueInOrder' /\ RunningFirst' /\ PerformedFirst' /\ InOrderOnce'
    BY <2>1 DEF QueueInOrder, RunningFirst, PerformedFirst, InOrderOnce
  <2> QED BY <2>3, <2>4
<1>3. ASSUME NEW c \in Conns, Enqueue(c) PROVE OrderInv'
  <2> USE <1>3 DEF Enqueue, closing
  <2>1. /\ UNCHANGED <<running, stage, performed, writeNo>>
        /\ wpc[c] = "enqueue" /\ writeNo[c] \in Writes
        /\ wpc'[c] = "await" /\ \A d \in Conns \ {c} : wpc'[d] = wpc[d]
        /\ Len(tasks') = Len(tasks) + 1
        /\ tasks'[Len(tasks')] = <<c, writeNo[c]>>
        /\ \A i \in 1..Len(tasks) : tasks'[i] = tasks[i]
    BY DEF TypeOK
  <2>2. \A d \in Conns, k \in Writes : Begun(d, k) => Begun(d, k)'
    BY <2>1 DEF Begun
  <2>3. Begun(c, writeNo[c])'
    BY <2>1, <1>typed DEF Begun
  <2>4. AllBegun'
    <3>1. ASSUME NEW i \in 1..Len(tasks') PROVE Begun(tasks[i][1], tasks[i][2])'
      <4>1. CASE i = Len(tasks')
        BY <2>1, <2>3, <4>1
      <4>2. CASE i \in 1..Len(tasks)
        BY <2>1, <2>2, <1>typed, <4>2 DEF AllBegun, Begun
      <4> QED BY <2>1, <1>typed, <3>1, <4>1, <4>2
    <3>2. running # NoTask => Begun(running[1], running[2])'
      <4> HAVE running # NoTask
      <4>1. running[1] \in Conns /\ Begun(running[1], running[2])
        BY <1>typed DEF AllBegun
      <4> QED BY <4>1, <2>2 DEF Begun
    <3>3. ASSUME NEW d \in Conns, NEW i \in 1..Len(performed[d])
          PROVE  Begun(d, performed[d][i])'
      <4>1. Begun(d, performed[d][i])
        BY <3>3 DEF AllBegun
      <4> QED BY <2>1, <2>2, <4>1 DEF Begun
    <3> QED BY <2>1, <3>1, <3>2, <3>3 DEF AllBegun
  <2>5. QueueInOrder'
    <3> SUFFICES ASSUME NEW i \in 1..Len(tasks'), NEW j \in 1..Len(tasks'),
                        i < j, tasks'[i][1] = tasks'[j][1]
                 PROVE  tasks'[i][2] < tasks'[j][2]
      BY DEF QueueInOrder
    <3>1. i \in 1..Len(tasks) /\ tasks'[i] = tasks[i]
      BY <2>1, <1>typed
    <3>2. CASE j = Len(tasks')
      <4>0. tasks'[j] = <<c, writeNo[c]>>
        BY <2>1, <3>2
      <4>1. tasks[i][1] = c /\ tasks'[j] = <<c, writeNo[c]>>
        BY <3>1, <4>0
      <4>2. tasks[i][2] < writeNo[c]
        BY <2>1, <3>1, <4>1 DEF AllBegun, Begun
      <4>3. tasks'[j][2] = writeNo[c]
        BY <4>1
      <4> QED BY <3>1, <4>2, <4>3
    <3>3. CASE j \in 1..Len(tasks)
      BY <2>1, <3>1, <3>3 DEF QueueInOrder
    <3>4. j = Len(tasks') \/ j \in 1..Len(tasks)
      <4>1. j \in 1..(Len(tasks) + 1) /\ Len(tasks) \in Nat
        BY <2>1, <1>typed
      <4> QED BY <2>1, <4>1
    <3> QED BY <3>2, <3>3, <3>4
  <2>6. RunningFirst'
    BY <2>1, <1>typed DEF RunningFirst, AllBegun, Begun
  <2>7. PerformedFirst'
    BY <2>1, <1>typed DEF PerformedFirst, AllBegun, Begun
  <2> QED BY <2>1, <2>4, <2>5, <2>6, <2>7 DEF InOrderOnce
<1>4. ASSUME NEW c \in Conns, AwaitResult(c) PROVE OrderInv'
  BY <1>4, <1>1 DEF AwaitResult, worker, closing, TypeOK
<1>5. CASE Take
  <2> USE <1>5 DEF Take, closing
  <2>1. /\ UNCHANGED <<performed, writeNo, wpc>>
        /\ Len(tasks) > 0 /\ Len(tasks') = Len(tasks) - 1
        /\ running' = tasks[1] /\ running = NoTask
        /\ \A i \in 1..Len(tasks') : i + 1 \in 1..Len(tasks) /\ tasks'[i] = tasks[i + 1]
    BY DEF TypeOK
  <2>2. AllBegun'
    BY <2>1, <1>typed DEF AllBegun, Begun
  <2>3. QueueInOrder'
    BY <2>1, <1>typed DEF QueueInOrder
  <2>4. RunningFirst'
    BY <2>1, <1>typed DEF QueueInOrder, RunningFirst
  <2>5. PerformedFirst'
    BY <2>1, <1>typed DEF PerformedFirst
  <2> QED BY <2>1, <2>2, <2>3, <2>4, <2>5 DEF InOrderOnce
<1>6. CASE Perform
  <2> USE <1>6 DEF Perform, closing
  <2> DEFINE r == running[1]
  <2>1. /\ UNCHANGED <<tasks, running, writeNo, wpc>> /\ stage' = "deliver"
        /\ running # NoTask /\ r \in Conns
        /\ performed' = [performed EXCEPT ![r] = Append(@, running[2])]
    BY <1>typed
  <2>2. /\ \A d \in Conns \ {r} : performed'[d] = performed[d]
        /\ Len(performed'[r]) = Len(performed[r]) + 1
        /\ performed'[r][Len(performed'[r])] = running[2]
        /\ \A i \in 1..Len(performed[r]) : performed'[r][i] = performed[r][i]
    <3> DEFINE q == performed[r]
    <3>1. q \in Seq(Writes) /\ running[2] \in Writes
      BY <2>1, <1>typed DEF TypeOK, Task
    <3> HIDE DEF q
    <3>2. /\ Len(Append(q, running[2])) = Len(q) + 1
          /\ Append(q, running[2])[Len(q) + 1] = running[2]
          /\ \A i \in 1..Len(q) : Append(q, running[2])[i] = q[i]
      BY <3>1
    <3>3. performed'[r] = Append(q, running[2])
      BY <2>1 DEF TypeOK, q
    <3>4. \A d \in Conns \ {r} : performed'[d] = performed[d]
      BY <2>1 DEF TypeOK
    <3> QED BY <3>2, <3>3, <3>4 DEF q
  <2>3. AllBegun'
    BY <2>1, <2>2, <1>typed DEF AllBegun, Begun
  <2>4. QueueInOrder' /\ RunningFirst'
    BY <2>1 DEF QueueInOrder, RunningFirst
  <2>5. PerformedFirst'
    BY <2>1, <2>2, <1>typed DEF PerformedFirst, RunningFirst
  <2>6. InOrderOnce'
    <3> SUFFICES ASSUME NEW c \in Conns, NEW i \in 1..Len(performed'[c]),
                        NEW j \in 1..Len(performed'[c]), i < j
                 PROVE  performed'[c][i] < performed'[c][j]
      BY DEF InOrderOnce
    <3>1. CASE c # r \/ j \in 1..Len(performed[c])
      BY <2>2, <3>1 DEF InOrderOnce
    <3>2. CASE c = r /\ j = Len(performed'[c])
      BY <2>1, <2>2, <3>2, <1>typed DEF PerformedFirst
    <3> QED BY <2>1, <2>2, <3>1, <3>2, <1>typed
  <2> QED BY <2>3, <2>4, <2>5, <2>6
<1>7. CASE Deliver
  <2> USE <1>7 DEF Deliver, closing
  <2>1. AllBegun' /\ RunningFirst'
    BY <1>typed DEF AllBegun, RunningFirst, Begun
  <2>2. QueueInOrder' /\ PerformedFirst' /\ InOrderOnce'
    BY DEF QueueInOrder, PerformedFirst, InOrderOnce
  <2> QED BY <2>1, <2>2
<1>8. ASSUME NEW c \in Conns, NEW g \in Closers,
             CloseFirst(c, g) \/ CloseFinish(c, g) \/ CloseAgain(c, g)
      PROVE  OrderInv'
  BY <1>8, <1>1 DEF CloseFirst, CloseFinish, CloseAgain, worker
<1>9. CASE UNCHANGED vars
  BY <1>9, <1>1 DEF vars
<1> QED BY <1>2, <1>3, <1>4, <1>5, <1>6, <1>7, <1>8, <1>9 DEF Next

(* A connection's writes are performed in the order of the calls, none     *)
(* twice, also those that the worker executes after the connection closed. *)
THEOREM WritesInOrder == Spec => []InOrderOnce
<1>1. Init => OrderInv
  BY DEF Init, OrderInv, AllBegun, QueueInOrder, RunningFirst, PerformedFirst, InOrderOnce
<1>2. TypeOK /\ OrderInv /\ [Next]_vars => OrderInv'
  BY TypeStep, OrderStep
<1>3. OrderInv => InOrderOnce
  BY DEF OrderInv
<1> QED BY <1>1, <1>2, <1>3, TypeCorrect, PTL DEF Spec

=============================================================================
