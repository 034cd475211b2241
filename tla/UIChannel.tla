------------------------------ MODULE UIChannel ------------------------------
(***************************************************************************)
(* desktop/ws: the messages from the services of the desktop app to the    *)
(* windows of its UI.  A service's writeAll passes its messages to the one *)
(* writeAll of the channel, which fans them out to the queues of all       *)
(* connections; each connection has a goroutine that writes from its queue *)
(* and, in no fixed order, from the queue of its greetings.                *)
(*                                                                         *)
(* A message is the version of its service's state that it shows.  What a  *)
(* writeAll has taken but not yet passed on counts as the head of the      *)
(* queue it was taken from.  The way back, readLoop, is not modelled here. *)
(***************************************************************************)
EXTENDS Integers, Sequences, FiniteSets

CONSTANTS Services,
          Hello,       \* services with a helloFn
          Direct,      \* services whose messages go through SendMessage
          Clients,     \* connections of UI windows; a reconnecting window is a new one
          Healthy,     \* connections whose websocket never blocks a write for good
          OutCap,      \* capacity of Service.out and of wsconn.out (1000)
          RemoveCap,   \* capacity of connsToRemove (100)
          MaxVersion   \* bound: changes of a service's state

ASSUME UIChannelAssumption ==
  /\ Hello \subseteq Services /\ Direct \subseteq Services \ Hello
  /\ Healthy \subseteq Clients
  /\ OutCap \in Nat \ {0} /\ RemoveCap \in Nat \ {0} /\ MaxVersion \in Nat

None == -1
Version == 0..MaxVersion

VARIABLES
  reg,      \* service: "new", "hello", "add", "added", "started", "stopping", "stopped"
  ver,      \* the service's state
  helloVer, \* what its helloFn has read for Register
  sent,     \* the last version it has given to Out or SendMessage
  svcOut,   \* Service.out
  fan,      \* what clientChannels.writeAll is sending, and the connections to do
  conn,     \* connection: "none", "added" to conns, "open" after onConnect, "removed"
  writer,   \* its wsconn.write: "none", "running", "failed", "done"
  alive,    \* the websocket is open
  closed,   \* wsconn.out is closed
  due,      \* services whose writeHelloMsg for the connection has not run yet
  hello,    \* greetings on their way to the connection or in connectOut
  out,      \* wsconn.out
  removing, \* connsToRemove
  greeted,  \* services onConnect has greeted the connection for
  got,      \* the newest version it has received
  dropped   \* services of which it has missed a message

vars == <<reg, ver, helloVer, sent, svcOut, fan, conn, writer, alive, closed, due, hello,
          out, removing, greeted, got, dropped>>
service == <<reg, ver, helloVer, sent, svcOut>>
window == <<greeted, got, dropped>>

Nothing == [s \in Services |-> None]
Idle == fan.rest = {}
Newest(a, b) == IF a > b THEN a ELSE b

Init ==
  /\ reg = [s \in Services |-> "new"]
  /\ ver = [s \in Services |-> 0]
  /\ helloVer = Nothing
  /\ sent = Nothing
  /\ svcOut = [s \in Services |-> <<>>]
  /\ fan = [msg |-> <<>>, rest |-> {}]
  /\ conn = [c \in Clients |-> "none"]
  /\ writer = [c \in Clients |-> "none"]
  /\ alive = [c \in Clients |-> FALSE]
  /\ closed = [c \in Clients |-> FALSE]
  /\ due = [c \in Clients |-> {}]
  /\ hello = [c \in Clients |-> {}]
  /\ out = [c \in Clients |-> <<>>]
  /\ removing = {}
  /\ greeted = [c \in Clients |-> {}]
  /\ got = [c \in Clients |-> Nothing]
  /\ dropped = [c \in Clients |-> {}]

-----------------------------------------------------------------------------
(* Mutated forms of the actions below: plausible slips in this code that   *)
(* the properties must notice.  No specification uses them.                *)

\* The select of the fan-out has no default.
FanoutOne_Blocks(c) ==
  /\ c \in fan.rest /\ Len(out[c]) < OutCap
  /\ out' = [out EXCEPT ![c] = Append(@, fan.msg)]
  /\ fan' = [fan EXCEPT !.rest = @ \ {c}]
  /\ UNCHANGED <<service, conn, writer, alive, closed, due, hello, removing, window>>

\* A connection takes part in the fan-out once its greetings are written.
Conns_Greeted == {c \in Clients : conn[c] = "open" /\ due[c] = {} /\ hello[c] = {}}

\* doWrite removes the connection itself instead of asking writeAll to do it.
WriterRemove_Itself(c) ==
  /\ writer[c] = "failed"
  /\ writer' = [writer EXCEPT ![c] = "done"]
  /\ closed' = [closed EXCEPT ![c] = TRUE]
  /\ conn' = [conn EXCEPT ![c] = "removed"]
  /\ UNCHANGED <<service, fan, alive, due, hello, out, removing, window>>

-----------------------------------------------------------------------------
(* Services: Register, Unregister and what they send                       *)

\* Register first reads the greeting for the windows that are connected ...
RegisterHello(s) ==
  /\ s \in Hello /\ reg[s] = "new"
  /\ helloVer' = [helloVer EXCEPT ![s] = ver[s]]
  /\ reg' = [reg EXCEPT ![s] = "hello"]
  /\ UNCHANGED <<ver, sent, svcOut, fan, conn, writer, alive, closed, due, hello, out,
                 removing, window>>

\* ... and, when the channel's writeAll has taken it, adds the service to the map.
RegisterAdd(s) ==
  /\ reg[s] = IF s \in Hello THEN "add" ELSE "new"
  /\ reg' = [reg EXCEPT ![s] = "added"]
  /\ UNCHANGED <<ver, helloVer, sent, svcOut, fan, conn, writer, alive, closed, due, hello,
                 out, removing, window>>

\* The caller of Register stores Out; from here on its changes are sent.
Started(s) ==
  /\ s \notin Direct /\ reg[s] = "added"
  /\ reg' = [reg EXCEPT ![s] = "started"]
  /\ UNCHANGED <<ver, helloVer, sent, svcOut, fan, conn, writer, alive, closed, due, hello,
                 out, removing, window>>

Unregister(s) ==
  /\ s \notin Direct /\ reg[s] = "started"
  /\ reg' = [reg EXCEPT ![s] = "stopping"]
  /\ UNCHANGED <<ver, helloVer, sent, svcOut, fan, conn, writer, alive, closed, due, hello,
                 out, removing, window>>

\* The select of the service's writeAll takes from stopCh.
StopWriteAll(s) ==
  /\ reg[s] = "stopping"
  /\ reg' = [reg EXCEPT ![s] = "stopped"]
  /\ UNCHANGED <<ver, helloVer, sent, svcOut, fan, conn, writer, alive, closed, due, hello,
                 out, removing, window>>

\* The state of a service changes and, if it has an Out, the new one is sent to it.
Publish(s) ==
  /\ s \notin Direct /\ ver[s] < MaxVersion
  /\ ver' = [ver EXCEPT ![s] = @ + 1]
  /\ \/ /\ reg[s] \in {"started", "stopping", "stopped"} /\ Len(svcOut[s]) < OutCap
        /\ svcOut' = [svcOut EXCEPT ![s] = Append(@, ver'[s])]
        /\ sent' = [sent EXCEPT ![s] = ver'[s]]
     \/ /\ reg[s] \in {"new", "hello", "add", "added"}
        /\ UNCHANGED <<svcOut, sent>>
  /\ UNCHANGED <<reg, helloVer, fan, conn, writer, alive, closed, due, hello, out, removing,
                 window>>

-----------------------------------------------------------------------------
(* clientChannels.writeAll                                                 *)

\* clonedConns
Conns == {c \in Clients : conn[c] \in {"added", "open"}}

\* It has received a message and cloned the map of connections.
FanoutStart(m) ==
  /\ Idle
  /\ fan' = [msg |-> m, rest |-> Conns]

Fanout(s) ==
  /\ reg[s] \in {"added", "started", "stopping"} /\ svcOut[s] # <<>>
  /\ FanoutStart(<<s, Head(svcOut[s])>>)
  /\ svcOut' = [svcOut EXCEPT ![s] = Tail(@)]
  /\ UNCHANGED <<reg, ver, helloVer, sent, conn, writer, alive, closed, due, hello, out,
                 removing, window>>

FanoutHello(s) ==
  /\ reg[s] = "hello"
  /\ FanoutStart(<<s, helloVer[s]>>)
  /\ reg' = [reg EXCEPT ![s] = "add"]
  /\ helloVer' = [helloVer EXCEPT ![s] = None]
  /\ UNCHANGED <<ver, sent, svcOut, conn, writer, alive, closed, due, hello, out,
                 removing, window>>

SendMessage(s) ==
  /\ s \in Direct /\ ver[s] < MaxVersion /\ reg[s] = "added"
  /\ ver' = [ver EXCEPT ![s] = @ + 1]
  /\ sent' = [sent EXCEPT ![s] = ver'[s]]
  /\ FanoutStart(<<s, ver'[s]>>)
  /\ UNCHANGED <<reg, helloVer, svcOut, conn, writer, alive, closed, due, hello, out,
                 removing, window>>

\* One connection of the clone: a message for which its queue has no room is dropped.
FanoutOne(c) ==
  /\ c \in fan.rest
  /\ \/ /\ Len(out[c]) < OutCap
        /\ out' = [out EXCEPT ![c] = Append(@, fan.msg)]
        /\ UNCHANGED dropped
     \/ /\ Len(out[c]) = OutCap
        /\ dropped' = IF alive[c] THEN [dropped EXCEPT ![c] = @ \cup {fan.msg[1]}] ELSE dropped
        /\ UNCHANGED out
  /\ fan' = [fan EXCEPT !.rest = @ \ {c}]
  /\ UNCHANGED <<service, conn, writer, alive, closed, due, hello, removing, greeted, got>>

\* lockedRemoveConn of a connection whose writer has failed; what its queues still hold
\* nobody will read.
RemoveConn(c) ==
  /\ Idle /\ c \in removing
  /\ removing' = removing \ {c}
  /\ conn' = [conn EXCEPT ![c] = "removed"]
  /\ closed' = [closed EXCEPT ![c] = TRUE]
  /\ alive' = [alive EXCEPT ![c] = FALSE]
  /\ out' = [out EXCEPT ![c] = <<>>]
  /\ hello' = [hello EXCEPT ![c] = {}]
  /\ UNCHANGED <<service, fan, writer, due, window>>

-----------------------------------------------------------------------------
(* A connection: ServeHTTP and its goroutines                              *)

\* The upgraded connection is added to conns.
Connect(c) ==
  /\ conn[c] = "none"
  /\ conn' = [conn EXCEPT ![c] = "added"]
  /\ alive' = [alive EXCEPT ![c] = TRUE]
  /\ UNCHANGED <<service, fan, writer, closed, due, hello, out, removing, window>>

\* onConnect spawns a writeHelloMsg per service; then the writer is started.
OnConnect(c) ==
  /\ conn[c] = "added"
  /\ conn' = [conn EXCEPT ![c] = "open"]
  /\ writer' = [writer EXCEPT ![c] = "running"]
  /\ due' = [due EXCEPT ![c] = {s \in Hello : reg[s] \in {"added", "started"}}]
  /\ greeted' = [greeted EXCEPT ![c] = due'[c]]
  /\ UNCHANGED <<service, fan, alive, closed, hello, out, removing, got, dropped>>

\* The helloFn reads the state of the service and queues it for the connection.
WriteHelloMsg(c, s) ==
  /\ s \in due[c]
  /\ due' = [due EXCEPT ![c] = @ \ {s}]
  /\ hello' = [hello EXCEPT ![c] = @ \cup {<<s, ver[s]>>}]
  /\ UNCHANGED <<service, fan, conn, writer, alive, closed, out, removing, window>>

\* The window receives a message.
Receive(c, m) == got' = [got EXCEPT ![c][m[1]] = Newest(@, m[2])]

WriteHello(c) ==
  /\ writer[c] = "running" /\ alive[c]
  /\ \E m \in hello[c] :
       /\ hello' = [hello EXCEPT ![c] = @ \ {m}]
       /\ Receive(c, m)
  /\ UNCHANGED <<service, fan, conn, writer, alive, closed, due, out, removing, greeted, dropped>>

WriteOut(c) ==
  /\ writer[c] = "running" /\ alive[c] /\ out[c] # <<>>
  /\ Receive(c, Head(out[c]))
  /\ out' = [out EXCEPT ![c] = Tail(@)]
  /\ UNCHANGED <<service, fan, conn, writer, alive, closed, due, hello, removing, greeted, dropped>>

\* doWrite on a websocket that is closed fails.
WriteFails(c) ==
  /\ writer[c] = "running" /\ ~alive[c]
  /\ \/ out[c] # <<>> /\ out' = [out EXCEPT ![c] = Tail(@)] /\ UNCHANGED hello
     \/ \E m \in hello[c] : hello' = [hello EXCEPT ![c] = @ \ {m}] /\ UNCHANGED out
  /\ writer' = [writer EXCEPT ![c] = "failed"]
  /\ UNCHANGED <<service, fan, conn, alive, closed, due, removing, window>>

WriterRemove(c) ==
  /\ writer[c] = "failed" /\ Cardinality(removing) < RemoveCap
  /\ removing' = removing \cup {c}
  /\ writer' = [writer EXCEPT ![c] = "done"]
  /\ UNCHANGED <<service, fan, conn, alive, closed, due, hello, out, window>>

\* The window goes away and what it knew with it; wsconn.read returns and ServeHTTP closes the websocket.
Disconnect(c) ==
  /\ conn[c] = "open" /\ alive[c]
  /\ alive' = [alive EXCEPT ![c] = FALSE]
  /\ greeted' = [greeted EXCEPT ![c] = {}]
  /\ got' = [got EXCEPT ![c] = Nothing]
  /\ dropped' = [dropped EXCEPT ![c] = {}]
  /\ UNCHANGED <<service, fan, conn, writer, closed, due, hello, out, removing>>

-----------------------------------------------------------------------------
Write(c) == WriteHello(c) \/ WriteOut(c) \/ WriteFails(c)

Next ==
  \/ \E s \in Services :
       \/ RegisterHello(s) \/ RegisterAdd(s) \/ Started(s) \/ Unregister(s) \/ StopWriteAll(s)
       \/ Publish(s) \/ Fanout(s) \/ FanoutHello(s) \/ SendMessage(s)
  \/ \E c \in Clients :
       \/ FanoutOne(c) \/ RemoveConn(c) \/ Connect(c) \/ OnConnect(c)
       \/ WriteHello(c) \/ WriteOut(c) \/ WriteFails(c) \/ WriterRemove(c) \/ Disconnect(c)
       \/ \E s \in Services : WriteHelloMsg(c, s)

Spec == Init /\ [][Next]_vars

\* The channel's writeAll goes on with a fan-out, and its select comes to both of its cases;
\* the writers run on, but a write may block for good where the peer is not Healthy.
Fairness ==
  /\ WF_vars(\E c \in Clients : FanoutOne(c))
  /\ WF_vars(\E s \in Services : Fanout(s) \/ FanoutHello(s))
  /\ WF_vars(\E c \in Clients : RemoveConn(c))
  /\ \A c \in Clients : WF_vars(WriterRemove(c))
  /\ \A c \in Healthy : WF_vars(Write(c))

FairSpec == Spec /\ Fairness
-----------------------------------------------------------------------------
(* Properties *)

\* clientChannels.writeAll never sends to the closed queue of a connection, although it
\* works on a clone of the map: only it removes connections.
NoSendOnClosed == \A c \in fan.rest : ~closed[c]

\* Nothing of service s is on its way to connection c.
Delivered(c, s) ==
  /\ reg[s] \in {"added", "started"} /\ conn[c] = "open" /\ alive[c]
  /\ Idle /\ svcOut[s] = <<>> /\ s \notin due[c]
  /\ \A m \in hello[c] : m[1] # s
  /\ \A i \in DOMAIN out[c] : out[c][i][1] # s

\* No update falls between the greeting of a window and the first broadcast to it: when
\* nothing is on its way and nothing was dropped for want of room, a greeted window has
\* received the last update that was sent, or something newer.
ReachesGreeted ==
  \A c \in Clients : \A s \in greeted[c] \ dropped[c] :
    Delivered(c, s) => got[c][s] >= sent[s]

\* Every open window has been told the state of every service with a helloFn.
ReachesEveryClient ==
  \A c \in Clients, s \in Hello : Delivered(c, s) => got[c][s] # None

\* A window whose websocket blocks holds up nobody: when the services have no more changes,
\* everything they have given to Out (unless they are unregistered) and to SendMessage has
\* been offered to every connection.
Busy == ~Idle \/ \E s \in Services : svcOut[s] # <<>> /\ reg[s] # "stopped"
SlowClientIsHarmless == Busy ~> ~Busy

=============================================================================
