--------------------------- MODULE DesktopUI_proof ---------------------------
(* Safety of the channel to the windows of the UI, for any number of       *)
(* services, connections and messages and any capacities of its queues,    *)
(* and of the switch and the system's proxy, for any number of commands.   *)
EXTENDS UIChannel, SystemProxy, SequenceTheorems, TLAPS

-----------------------------------------------------------------------------
(* The channel.                                                            *)

Msg == Services \X (Version \cup {None})
Queue == Seq(Msg)

TypeInv ==
  /\ reg \in [Services -> {"new", "hello", "add", "added", "started", "stopping", "stopped"}]
  /\ ver \in [Services -> Version]
  /\ helloVer \in [Services -> Version \cup {None}]
  /\ sent \in [Services -> Version \cup {None}]
  /\ svcOut \in [Services -> Seq(Version)]
  /\ fan = [msg |-> fan.msg, rest |-> fan.rest]
  /\ fan.rest \subseteq Clients /\ (fan.rest # {} => fan.msg \in Msg)
  /\ conn \in [Clients -> {"none", "added", "open", "removed"}]
  /\ writer \in [Clients -> {"none", "running", "failed", "done"}]
  /\ alive \in [Clients -> BOOLEAN] /\ closed \in [Clients -> BOOLEAN]
  /\ due \in [Clients -> SUBSET Services]
  /\ hello \in [Clients -> SUBSET Msg]
  /\ out \in [Clients -> Queue]
  /\ removing \subseteq Clients
  /\ greeted \in [Clients -> SUBSET Services]
  /\ got \in [Clients -> [Services -> Version \cup {None}]]
  /\ dropped \in [Clients -> SUBSET Services]

(***************************************************************************)
(* The strengthening of NoSendOnClosed: a queue is closed only when its    *)
(* connection is removed, and who is removed is in no clone.               *)
(***************************************************************************)
ClosedIsRemoved == \A c \in Clients : closed[c] => conn[c] = "removed"
CloneIsCurrent == \A c \in fan.rest : conn[c] \in {"added", "open"}

(***************************************************************************)
(* The strengthening of ReachesGreeted: what a greeted window lacks is on  *)
(* one of the ways to it, as new as the last version sent or newer.        *)
(***************************************************************************)
NotAhead == \A s \in Services : sent[s] <= ver[s]

InService(s) == svcOut[s] # <<>> /\ svcOut[s][Len(svcOut[s])] >= sent[s]
InFan(c, s) == c \in fan.rest /\ fan.msg[1] = s /\ fan.msg[2] >= sent[s]
InHello(c, s) == \E m \in hello[c] : m[1] = s /\ m[2] >= sent[s]
InOut(c, s) == \E i \in DOMAIN out[c] : out[c][i][1] = s /\ out[c][i][2] >= sent[s]

OnItsWay(c, s) ==
  s \in due[c] \/ InService(s) \/ InFan(c, s) \/ InHello(c, s) \/ InOut(c, s)

Served(c, s) == got[c][s] >= sent[s] \/ OnItsWay(c, s)

GreetedIsServed ==
  \A c \in Clients : conn[c] = "open" /\ alive[c] =>
    \A s \in greeted[c] \ dropped[c] : Served(c, s)

IInv == TypeInv /\ ClosedIsRemoved /\ CloneIsCurrent /\ NotAhead /\ GreetedIsServed

-----------------------------------------------------------------------------
(* Types.                                                                  *)

LEMMA VersionIsNat == Version \subseteq Nat /\ 0 \in Version /\ None \in Int
  BY UIChannelAssumption DEF UIChannelAssumption, Version, None

LEMMA NewestIsVersion ==
  \A a, b \in Version \cup {None} : /\ Newest(a, b) \in Version \cup {None}
                                   /\ Newest(a, b) >= a /\ Newest(a, b) >= b
  BY VersionIsNat DEF Newest

LEMMA TypeStep == TypeInv /\ [Next]_vars => TypeInv'
<1> SUFFICES ASSUME TypeInv, [Next]_vars PROVE TypeInv'
  OBVIOUS
<1> USE VersionIsNat DEF TypeInv, service, window
<1>1. ASSUME NEW s \in Services, RegisterHello(s) PROVE TypeInv'
  BY <1>1 DEF RegisterHello
<1>2. ASSUME NEW s \in Services,
             RegisterAdd(s) \/ Started(s) \/ Unregister(s) \/ StopWriteAll(s) PROVE TypeInv'
  BY <1>2 DEF RegisterAdd, Started, Unregister, StopWriteAll
<1>3. ASSUME NEW s \in Services, Publish(s) PROVE TypeInv'
  <2>1. ver[s] + 1 \in Version
    BY <1>3, UIChannelAssumption DEF Publish, Version, UIChannelAssumption
  <2>2. ver' = [ver EXCEPT ![s] = ver[s] + 1] /\ ver'[s] = ver[s] + 1
    BY <1>3 DEF Publish
  <2>3. svcOut' \in {svcOut, [svcOut EXCEPT ![s] = Append(svcOut[s], ver[s] + 1)]}
        /\ sent' \in {sent, [sent EXCEPT ![s] = ver[s] + 1]}
    BY <1>3, <2>2 DEF Publish
  <2>4. UNCHANGED <<reg, helloVer, fan, conn, writer, alive, closed, due, hello, out, removing,
                    greeted, got, dropped>>
    BY <1>3 DEF Publish
  <2>5. svcOut' \in [Services -> Seq(Version)]
    <3> DEFINE q == Append(svcOut[s], ver[s] + 1)
    <3>1. q \in Seq(Version)
      BY <2>1
    <3>2. svcOut' \in {svcOut, [svcOut EXCEPT ![s] = q]}
      BY <2>3
    <3> HIDE DEF q
    <3>3. [svcOut EXCEPT ![s] = q] \in [Services -> Seq(Version)]
      BY <3>1
    <3> QED BY <3>2, <3>3
  <2>6. ver' \in [Services -> Version] /\ sent' \in [Services -> Version \cup {None}]
    BY <2>1, <2>2, <2>3
  <2> QED BY <2>4, <2>5, <2>6
<1>4. ASSUME NEW s \in Services, Fanout(s) PROVE TypeInv'
  <2>1. Head(svcOut[s]) \in Version /\ Tail(svcOut[s]) \in Seq(Version)
    BY <1>4 DEF Fanout
  <2>2. svcOut' = [svcOut EXCEPT ![s] = Tail(svcOut[s])]
        /\ fan' = [msg |-> <<s, Head(svcOut[s])>>, rest |-> Conns]
    BY <1>4 DEF Fanout, FanoutStart
  <2>3. UNCHANGED <<reg, ver, helloVer, sent, conn, writer, alive, closed, due, hello, out,
                    removing, greeted, got, dropped>>
    BY <1>4 DEF Fanout
  <2> QED BY <2>1, <2>2, <2>3 DEF Conns, Msg
<1>5. ASSUME NEW s \in Services, FanoutHello(s) PROVE TypeInv'
  BY <1>5 DEF FanoutHello, FanoutStart, Conns, Msg
<1>6. ASSUME NEW s \in Services, SendMessage(s) PROVE TypeInv'
  <2>1. ver[s] + 1 \in Version
    BY <1>6, UIChannelAssumption DEF SendMessage, Version, UIChannelAssumption
  <2>2. ver' = [ver EXCEPT ![s] = ver[s] + 1] /\ ver'[s] = ver[s] + 1
    BY <1>6 DEF SendMessage
  <2>3. sent' = [sent EXCEPT ![s] = ver[s] + 1]
        /\ fan' = [msg |-> <<s, ver[s] + 1>>, rest |-> Conns]
    BY <1>6, <2>2 DEF SendMessage, FanoutStart
  <2>4. UNCHANGED <<reg, helloVer, svcOut, conn, writer, alive, closed, due, hello, out,
                    removing, greeted, got, dropped>>
    BY <1>6 DEF SendMessage
  <2> QED BY <2>1, <2>2, <2>3, <2>4 DEF Conns, Msg
<1>7. ASSUME NEW c \in Clients, FanoutOne(c) PROVE TypeInv'
  <2>1. c \in fan.rest /\ fan' = [fan EXCEPT !.rest = @ \ {c}]
        /\ out' \in {out, [out EXCEPT ![c] = Append(out[c], fan.msg)]}
        /\ dropped' \in {dropped, [dropped EXCEPT ![c] = @ \cup {fan.msg[1]}]}
    BY <1>7 DEF FanoutOne
  <2>2. UNCHANGED <<reg, ver, helloVer, sent, svcOut, conn, writer, alive, closed, due, hello,
                    removing, greeted, got>>
    BY <1>7 DEF FanoutOne
  <2>3. fan.msg \in Msg /\ fan.msg[1] \in Services
    BY <2>1 DEF Msg
  <2>4. out' \in [Clients -> Queue]
    <3> DEFINE q == Append(out[c], fan.msg)
    <3>1. q \in Queue
      BY <2>1, <2>3 DEF Queue
    <3>2. out' \in {out, [out EXCEPT ![c] = q]}
      BY <2>1
    <3> HIDE DEF q
    <3>3. [out EXCEPT ![c] = q] \in [Clients -> Queue]
      BY <3>1
    <3> QED BY <3>2, <3>3
  <2>5. /\ fan' = [msg |-> fan'.msg, rest |-> fan'.rest] /\ fan'.msg = fan.msg
        /\ fan'.rest = fan.rest \ {c}
    BY <2>1
  <2>6. dropped' \in [Clients -> SUBSET Services]
    <3> DEFINE missed == dropped[c] \cup {fan.msg[1]}
    <3>1. missed \in SUBSET Services
      BY <2>3
    <3>2. dropped' \in {dropped, [dropped EXCEPT ![c] = missed]}
      BY <2>1
    <3> HIDE DEF missed
    <3>3. [dropped EXCEPT ![c] = missed] \in [Clients -> SUBSET Services]
      BY <3>1
    <3> QED BY <3>2, <3>3
  <2> QED BY <2>2, <2>3, <2>4, <2>5, <2>6
<1>8. ASSUME NEW c \in Clients, RemoveConn(c) PROVE TypeInv'
  BY <1>8 DEF RemoveConn, Queue
<1>9. ASSUME NEW c \in Clients, Connect(c) \/ OnConnect(c) PROVE TypeInv'
  <2>1. CASE Connect(c)
    BY <2>1 DEF Connect
  <2>2. CASE OnConnect(c)
    <3> DEFINE d == {s \in Hello : reg[s] \in {"added", "started"}}
    <3>1. d \in SUBSET Services /\ due' = [due EXCEPT ![c] = d]
      BY <2>2, UIChannelAssumption DEF OnConnect, UIChannelAssumption
    <3> HIDE DEF d
    <3>2. greeted' = [greeted EXCEPT ![c] = d]
      BY <2>2, <3>1 DEF OnConnect
    <3> QED BY <2>2, <3>1, <3>2 DEF OnConnect
  <2> QED BY <1>9, <2>1, <2>2
<1>10. ASSUME NEW c \in Clients, NEW s \in Services, WriteHelloMsg(c, s) PROVE TypeInv'
  BY <1>10 DEF WriteHelloMsg, Msg
<1>11. ASSUME NEW c \in Clients, NEW m \in Msg, Receive(c, m)
       PROVE  got' \in [Clients -> [Services -> Version \cup {None}]]
  <2> DEFINE v == Newest(got[c][m[1]], m[2])
  <2>1. m[1] \in Services /\ m[2] \in Version \cup {None}
    BY DEF Msg
  <2>2. v \in Version \cup {None}
    BY <2>1, NewestIsVersion
  <2>3. got' = [got EXCEPT ![c] = [got[c] EXCEPT ![m[1]] = v]]
    BY <1>11 DEF Receive
  <2> QED BY <2>1, <2>2, <2>3
<1>12. ASSUME NEW c \in Clients, WriteHello(c) PROVE TypeInv'
  BY <1>11, <1>12 DEF WriteHello
<1>13. ASSUME NEW c \in Clients, WriteOut(c) PROVE TypeInv'
  <2>1. Head(out[c]) \in Msg /\ Tail(out[c]) \in Queue
    BY <1>13 DEF WriteOut, Queue
  <2> QED BY <1>11, <1>13, <2>1 DEF WriteOut
<1>14. ASSUME NEW c \in Clients, WriteFails(c) PROVE TypeInv'
  <2>1. out[c] # <<>> => Tail(out[c]) \in Queue
    BY DEF Queue
  <2> QED BY <1>14, <2>1 DEF WriteFails
<1>15. ASSUME NEW c \in Clients, WriterRemove(c) \/ Disconnect(c) PROVE TypeInv'
  <2>1. Nothing \in [Services -> Version \cup {None}]
    BY DEF Nothing
  <2>2. CASE WriterRemove(c)
    BY <2>2 DEF WriterRemove
  <2>3. CASE Disconnect(c)
    BY <2>1, <2>3 DEF Disconnect
  <2> QED BY <1>15, <2>2, <2>3
<1>16. CASE UNCHANGED vars
  BY <1>16 DEF vars
<1> QED
  BY <1>1, <1>2, <1>3, <1>4, <1>5, <1>6, <1>7, <1>8, <1>9, <1>10, <1>12, <1>13, <1>14, <1>15,
     <1>16 DEF Next

-----------------------------------------------------------------------------
(* Removed connections.                                                    *)

LEMMA ClosedStep ==
  TypeInv /\ ClosedIsRemoved /\ CloneIsCurrent /\ [Next]_vars =>
    ClosedIsRemoved' /\ CloneIsCurrent'
<1> SUFFICES ASSUME TypeInv, ClosedIsRemoved, CloneIsCurrent, [Next]_vars
             PROVE  ClosedIsRemoved' /\ CloneIsCurrent'
  OBVIOUS
<1> USE DEF TypeInv, ClosedIsRemoved, CloneIsCurrent, service, window
<1>1. CASE UNCHANGED <<conn, closed>> /\ fan'.rest \subseteq fan.rest
  BY <1>1
<1>2. ASSUME NEW s \in Services,
             RegisterHello(s) \/ RegisterAdd(s) \/ Started(s) \/ Unregister(s) \/ StopWriteAll(s)
             \/ Publish(s)
      PROVE  ClosedIsRemoved' /\ CloneIsCurrent'
  BY <1>1, <1>2 DEF RegisterHello, RegisterAdd, Started, Unregister, StopWriteAll, Publish
<1>3. ASSUME NEW s \in Services, Fanout(s) \/ FanoutHello(s) \/ SendMessage(s)
      PROVE  ClosedIsRemoved' /\ CloneIsCurrent'
  <2>1. UNCHANGED <<conn, closed>> /\ fan'.rest = Conns
    BY <1>3 DEF Fanout, FanoutHello, SendMessage, FanoutStart
  <2> QED BY <2>1 DEF Conns
<1>4. ASSUME NEW c \in Clients, FanoutOne(c) PROVE ClosedIsRemoved' /\ CloneIsCurrent'
  <2>1. UNCHANGED <<conn, closed>> /\ fan' = [fan EXCEPT !.rest = fan.rest \ {c}]
    BY <1>4 DEF FanoutOne
  <2>2. fan'.rest \subseteq fan.rest
    BY <2>1
  <2> QED BY <1>1, <2>1, <2>2
<1>5. ASSUME NEW c \in Clients, RemoveConn(c) PROVE ClosedIsRemoved' /\ CloneIsCurrent'
  BY <1>5 DEF RemoveConn, Idle
<1>6. ASSUME NEW c \in Clients, Connect(c) \/ OnConnect(c)
      PROVE  ClosedIsRemoved' /\ CloneIsCurrent'
  <2>1. /\ UNCHANGED <<fan, closed>> /\ conn[c] \in {"none", "added"}
        /\ conn' \in {[conn EXCEPT ![c] = "added"], [conn EXCEPT ![c] = "open"]}
    BY <1>6 DEF Connect, OnConnect
  <2>2. conn'[c] \in {"added", "open"} /\ \A d \in Clients \ {c} : conn'[d] = conn[d]
    BY <2>1
  <2>3. ~closed[c]
    BY <2>1
  <2> QED BY <2>1, <2>2, <2>3
<1>7. ASSUME NEW c \in Clients,
             \/ WriteHello(c) \/ WriteOut(c) \/ WriteFails(c) \/ WriterRemove(c) \/ Disconnect(c)
             \/ \E s \in Services : WriteHelloMsg(c, s)
      PROVE  ClosedIsRemoved' /\ CloneIsCurrent'
  BY <1>1, <1>7 DEF WriteHello, WriteOut, WriteFails, WriterRemove, Disconnect, WriteHelloMsg
<1>8. CASE UNCHANGED vars
  BY <1>1, <1>8 DEF vars
<1> QED BY <1>2, <1>3, <1>4, <1>5, <1>6, <1>7, <1>8 DEF Next
-----------------------------------------------------------------------------
(* Greeted windows.                                                        *)

LEMMA AheadStep == TypeInv /\ NotAhead /\ [Next]_vars => NotAhead'
<1> SUFFICES ASSUME TypeInv, NotAhead, [Next]_vars PROVE NotAhead'
  OBVIOUS
<1> USE DEF service
<1>1. CASE UNCHANGED <<sent, ver>>
  BY <1>1 DEF NotAhead
<1>2. ASSUME NEW s \in Services, Publish(s) \/ SendMessage(s) PROVE NotAhead'
  <2>1. ver' = [ver EXCEPT ![s] = ver[s] + 1]
        /\ sent' \in {sent, [sent EXCEPT ![s] = ver'[s]]}
    BY <1>2 DEF Publish, SendMessage
  <2>2. ver[s] \in Nat /\ sent[s] \in Int
    BY VersionIsNat DEF TypeInv
  <2> QED BY <2>1, <2>2 DEF NotAhead, TypeInv
<1>3. ASSUME NEW s \in Services,
             RegisterHello(s) \/ RegisterAdd(s) \/ Started(s) \/ Unregister(s) \/ StopWriteAll(s)
             \/ Fanout(s) \/ FanoutHello(s)
      PROVE  NotAhead'
  BY <1>1, <1>3 DEF RegisterHello, RegisterAdd, Started, Unregister, StopWriteAll, Fanout, FanoutHello
<1>4. ASSUME NEW c \in Clients,
             \/ FanoutOne(c) \/ RemoveConn(c) \/ Connect(c) \/ OnConnect(c)
             \/ WriteHello(c) \/ WriteOut(c) \/ WriteFails(c) \/ WriterRemove(c) \/ Disconnect(c)
             \/ \E s \in Services : WriteHelloMsg(c, s)
      PROVE  NotAhead'
  BY <1>1, <1>4 DEF FanoutOne, RemoveConn, Connect, OnConnect, WriteHello, WriteOut, WriteFails,
     WriterRemove, Disconnect, WriteHelloMsg
<1>5. CASE UNCHANGED vars
  BY <1>1, <1>5 DEF vars
<1> QED BY <1>2, <1>3, <1>4, <1>5 DEF Next

\* Append and Tail, element by element.
LEMMA AppendLast ==
  ASSUME NEW S, NEW q \in Seq(S), NEW e \in S
  PROVE  /\ Append(q, e) # <<>> /\ Len(Append(q, e)) = Len(q) + 1
         /\ Append(q, e)[Len(Append(q, e))] = e
  OBVIOUS

LEMMA TailElements ==
  ASSUME NEW S, NEW q \in Seq(S), q # <<>>
  PROVE  /\ Tail(q) \in Seq(S) /\ Len(Tail(q)) = Len(q) - 1 /\ Len(q) \in Nat \ {0}
         /\ DOMAIN q = 1 .. Len(q) /\ DOMAIN Tail(q) = 1 .. Len(q) - 1
         /\ \A i \in 1 .. Len(q) - 1 : Tail(q)[i] = q[i + 1]
  OBVIOUS

\* The services' side of the channel.
LEMMA ServiceServes ==
  ASSUME TypeInv, GreetedIsServed, NEW t \in Services,
         \/ RegisterHello(t) \/ RegisterAdd(t) \/ Started(t) \/ Unregister(t) \/ StopWriteAll(t)
         \/ Publish(t) \/ Fanout(t) \/ FanoutHello(t) \/ SendMessage(t)
  PROVE  GreetedIsServed'
<1> USE VersionIsNat DEF service, window
<1>1. UNCHANGED <<conn, alive, due, hello, out, greeted, got, dropped>>
  BY DEF RegisterHello, RegisterAdd, Started, Unregister, StopWriteAll, Publish, Fanout,
     FanoutHello, SendMessage
<1> SUFFICES ASSUME NEW c \in Clients, conn[c] = "open", alive[c],
                    NEW s \in greeted[c], Served(c, s), s \in Services
             PROVE  Served(c, s)'
  BY <1>1 DEF GreetedIsServed, TypeInv
<1>2. CASE UNCHANGED <<sent, svcOut, fan>>
  BY <1>1, <1>2 DEF Served, OnItsWay, InService, InFan, InHello, InOut
<1>3. CASE Publish(t)
  <2>1. ver'[t] = ver[t] + 1 /\ ver'[t] \in Int
    BY <1>3 DEF Publish, TypeInv
  <2>2. CASE svcOut' = [svcOut EXCEPT ![t] = Append(@, ver'[t])] /\ sent' = [sent EXCEPT ![t] = ver'[t]]
    <3>1. CASE s = t
      <4>1. sent'[s] = ver'[s] /\ svcOut'[s] = Append(svcOut[s], ver'[s])
        BY <2>2, <3>1 DEF TypeInv
      <4>2. svcOut'[s] # <<>> /\ svcOut'[s][Len(svcOut'[s])] = ver'[s]
        <5>1. svcOut[s] \in Seq(Version)
          BY DEF TypeInv
        <5>2. ver'[s] \in Version
          BY TypeStep, <1>3 DEF Next, TypeInv
        <5> QED BY <3>1, <4>1, <5>1, <5>2, AppendLast
      <4> QED BY <2>1, <3>1, <4>1, <4>2 DEF Served, OnItsWay, InService
    <3>2. CASE s # t
      <4>1. sent'[s] = sent[s] /\ svcOut'[s] = svcOut[s] /\ UNCHANGED fan
        BY <1>3, <2>2, <3>2 DEF Publish
      <4> QED BY <1>1, <4>1 DEF Served, OnItsWay, InService, InFan, InHello, InOut
    <3> QED BY <3>1, <3>2
  <2>3. CASE UNCHANGED <<svcOut, sent>>
    BY <1>2, <1>3, <2>3 DEF Publish
  <2> QED BY <1>3, <2>2, <2>3 DEF Publish
<1>4. CASE Fanout(t)
  <2>1. /\ fan.rest = {} /\ fan'.msg = <<t, Head(svcOut[t])>> /\ c \in fan'.rest
        /\ sent' = sent /\ svcOut' = [svcOut EXCEPT ![t] = Tail(@)] /\ svcOut[t] # <<>>
    BY <1>4 DEF Fanout, FanoutStart, Idle, Conns
  <2>2. ~InFan(c, s)
    BY <2>1 DEF InFan
  <2>3. CASE s = t /\ InService(s)
    <3>1. CASE Len(svcOut[t]) = 1
      BY <2>1, <2>3, <3>1 DEF InService, Served, OnItsWay, InFan, TypeInv
    <3>2. CASE Len(svcOut[t]) # 1
      <4>1. svcOut'[s] = Tail(svcOut[s]) /\ svcOut[s] \in Seq(Version) /\ Len(svcOut[s]) > 1
        <5>1. svcOut \in [Services -> Seq(Version)]
          BY DEF TypeInv
        <5>2. svcOut[s] \in Seq(Version) /\ svcOut[s] # <<>>
          BY <2>1, <2>3, <5>1
        <5>3. Len(svcOut[s]) \in Nat \ {0}
          BY <5>2, TailElements
        <5>4. svcOut'[s] = Tail(svcOut[s])
          BY <2>1, <2>3, <5>1
        <5>5. Len(svcOut[s]) > 1
          <6> DEFINE n == Len(svcOut[s])
          <6>1. n \in Nat \ {0} /\ n # 1
            BY <2>3, <3>2, <5>3
          <6> HIDE DEF n
          <6>2. n > 1
            BY <6>1
          <6> QED BY <6>2 DEF n
        <5> QED BY <5>2, <5>4, <5>5
      <4>2. svcOut'[s] # <<>> /\ svcOut'[s][Len(svcOut'[s])] = svcOut[s][Len(svcOut[s])]
        <5>1. svcOut[s] # <<>>
          BY <2>1, <2>3
        <5> DEFINE q == svcOut[s]  r == svcOut'[s]
        <5>2. Len(r) = Len(q) - 1 /\ r[Len(q) - 1] = q[Len(q) - 1 + 1] /\ Len(q) \in Nat
          BY <4>1, <5>1, TailElements
        <5>3. r \in Seq(Version) /\ Len(r) # 0
          BY <4>1, <5>1, <5>2, TailElements
        <5>4. r # <<>>
          BY <5>3
        <5> QED BY <5>2, <5>4
      <4> QED BY <2>1, <2>3, <4>2 DEF InService, Served, OnItsWay
    <3> QED BY <3>1, <3>2
  <2>4. CASE s # t
    <3>1. svcOut'[s] = svcOut[s]
      BY <2>1, <2>4 DEF TypeInv
    <3> QED BY <1>1, <2>1, <2>2, <3>1 DEF Served, OnItsWay, InService, InHello, InOut
  <2>5. CASE ~InService(s)
    BY <1>1, <2>1, <2>2, <2>5 DEF Served, OnItsWay, InHello, InOut
  <2> QED BY <2>3, <2>4, <2>5
<1>5. CASE FanoutHello(t)
  <2>1. fan.rest = {} /\ UNCHANGED <<sent, svcOut>>
    BY <1>5 DEF FanoutHello, FanoutStart, Idle
  <2> QED BY <1>1, <2>1 DEF Served, OnItsWay, InService, InFan, InHello, InOut
<1>6. CASE SendMessage(t)
  <2>1. /\ fan.rest = {} /\ fan'.msg = <<t, ver'[t]>> /\ c \in fan'.rest
        /\ sent' = [sent EXCEPT ![t] = ver'[t]] /\ UNCHANGED svcOut /\ ver'[t] \in Int
    BY <1>6 DEF SendMessage, FanoutStart, Idle, Conns, TypeInv
  <2>2. CASE s = t
    BY <2>1, <2>2 DEF Served, OnItsWay, InFan, TypeInv
  <2>3. CASE s # t
    <3>1. sent'[s] = sent[s]
      BY <2>1, <2>3
    <3> QED BY <1>1, <2>1, <3>1 DEF Served, OnItsWay, InService, InFan, InHello, InOut
  <2> QED BY <2>2, <2>3
<1>7. CASE RegisterHello(t) \/ RegisterAdd(t) \/ Started(t) \/ Unregister(t) \/ StopWriteAll(t)
  BY <1>2, <1>7 DEF RegisterHello, RegisterAdd, Started, Unregister, StopWriteAll
<1> QED BY <1>3, <1>4, <1>5, <1>6, <1>7

\* A window receives message m: what it lacks becomes no more.
LEMMA Receives ==
  ASSUME TypeInv, NEW c \in Clients, NEW m \in Msg, Receive(c, m)
  PROVE  /\ \A d \in Clients \ {c} : got'[d] = got[d]
         /\ \A s \in Services : got'[c][s] >= got[c][s] /\ (m[1] = s => got'[c][s] >= m[2])
<1> DEFINE v == Newest(got[c][m[1]], m[2])
<1>1. m[1] \in Services /\ m[2] \in Version \cup {None} /\ got[c][m[1]] \in Version \cup {None}
  BY DEF Msg, TypeInv
<1>2. v >= got[c][m[1]] /\ v >= m[2]
  BY <1>1, NewestIsVersion
<1>3. got' = [got EXCEPT ![c] = [got[c] EXCEPT ![m[1]] = v]]
  BY DEF Receive
<1>4. /\ \A d \in Clients \ {c} : got'[d] = got[d]
      /\ got'[c][m[1]] = v /\ \A s \in Services \ {m[1]} : got'[c][s] = got[c][s]
  BY <1>1, <1>3 DEF TypeInv
<1>5. \A s \in Services : got[c][s] \in Int
  BY VersionIsNat DEF TypeInv
<1> QED BY <1>1, <1>2, <1>4, <1>5

\* The connections' side of the channel.
LEMMA ConnectionServes ==
  ASSUME TypeInv, NotAhead, GreetedIsServed, NEW d \in Clients,
         \/ FanoutOne(d) \/ RemoveConn(d) \/ Connect(d) \/ OnConnect(d)
         \/ WriteHello(d) \/ WriteOut(d) \/ WriteFails(d) \/ WriterRemove(d) \/ Disconnect(d)
         \/ \E t \in Services : WriteHelloMsg(d, t)
  PROVE  GreetedIsServed'
<1> USE VersionIsNat DEF service, window
<1>1. UNCHANGED <<ver, sent, svcOut>>
  BY DEF FanoutOne, RemoveConn, Connect, OnConnect, WriteHello, WriteOut, WriteFails,
     WriterRemove, Disconnect, WriteHelloMsg
<1> SUFFICES ASSUME NEW c \in Clients, conn'[c] = "open", alive'[c],
                    NEW s \in greeted'[c], s \notin dropped'[c]
             PROVE  Served(c, s)'
  BY DEF GreetedIsServed
<1>2. CASE /\ conn[c] = "open" /\ alive[c] /\ s \in greeted[c] /\ s \notin dropped[c]
           /\ due'[c] = due[c] /\ hello'[c] = hello[c] /\ out'[c] = out[c] /\ got'[c] = got[c]
           /\ (c \in fan.rest => c \in fan'.rest /\ fan'.msg = fan.msg)
  <2>1. Served(c, s)
    BY <1>2 DEF GreetedIsServed
  <2> QED BY <1>1, <1>2, <2>1 DEF Served, OnItsWay, InService, InFan, InHello, InOut
<1>3. CASE FanoutOne(d)
  <2>1. /\ d \in fan.rest /\ fan'.rest = fan.rest \ {d} /\ fan'.msg = fan.msg
        /\ UNCHANGED <<conn, alive, due, hello, greeted, got>>
    BY <1>3 DEF FanoutOne, TypeInv
  <2>2. CASE c # d
    BY <1>2, <1>3, <2>1, <2>2 DEF FanoutOne, TypeInv
  <2>3. CASE c = d /\ out' = [out EXCEPT ![d] = Append(@, fan.msg)] /\ dropped' = dropped
    <3>1. Served(c, s)
      BY <2>1, <2>3 DEF GreetedIsServed
    <3>2. out'[c] = Append(out[c], fan.msg) /\ out[c] \in Seq(Msg) /\ fan.msg \in Msg
      BY <2>1, <2>3 DEF TypeInv, Queue
    <3>3. /\ \A i \in DOMAIN out[c] : i \in DOMAIN out'[c] /\ out'[c][i] = out[c][i]
          /\ Len(out'[c]) \in DOMAIN out'[c] /\ out'[c][Len(out'[c])] = fan.msg
      BY <3>2
    <3>4. InOut(c, s) \/ InFan(c, s) => InOut(c, s)'
      BY <1>1, <3>3 DEF InOut, InFan
    <3> QED BY <1>1, <2>1, <3>1, <3>4 DEF Served, OnItsWay, InService, InHello
  <2>4. CASE c = d /\ out' = out /\ dropped' = [dropped EXCEPT ![d] = @ \cup {fan.msg[1]}]
    <3>1. Served(c, s) /\ fan.msg[1] # s
      BY <2>1, <2>4 DEF GreetedIsServed, TypeInv
    <3> QED BY <1>1, <2>1, <2>4, <3>1 DEF Served, OnItsWay, InService, InFan, InHello, InOut
  <2>5. alive[c]
    BY <2>1
  <2> QED BY <1>3, <2>2, <2>3, <2>4, <2>5 DEF FanoutOne
<1>4. CASE RemoveConn(d) \/ Connect(d) \/ WriteFails(d) \/ Disconnect(d)
  <2>1. c # d
    BY <1>4 DEF RemoveConn, Connect, WriteFails, Disconnect, TypeInv
  <2> QED BY <1>2, <1>4, <2>1 DEF RemoveConn, Connect, WriteFails, Disconnect, TypeInv
<1>5. CASE OnConnect(d)
  <2>1. CASE c = d
    BY <1>5, <2>1 DEF OnConnect, TypeInv, Served, OnItsWay
  <2>2. CASE c # d
    BY <1>2, <1>5, <2>2 DEF OnConnect, TypeInv
  <2> QED BY <2>1, <2>2
<1>6. ASSUME NEW t \in Services, WriteHelloMsg(d, t) PROVE Served(c, s)'
  <2>1. /\ due' = [due EXCEPT ![d] = @ \ {t}] /\ hello' = [hello EXCEPT ![d] = @ \cup {<<t, ver[t]>>}]
        /\ UNCHANGED <<fan, conn, alive, out, greeted, got, dropped>>
    BY <1>6 DEF WriteHelloMsg
  <2>2. CASE c # d
    BY <1>2, <2>1, <2>2 DEF TypeInv
  <2>3. CASE c = d
    <3>1. Served(c, s) /\ s \in Services
      BY <2>1 DEF GreetedIsServed, TypeInv
    <3>2. due'[c] = due[c] \ {t} /\ hello'[c] = hello[c] \cup {<<t, ver[t]>>}
      BY <2>1, <2>3 DEF TypeInv
    <3>3. s = t => InHello(c, s)'
      <4>1. <<t, ver[t]>> \in hello'[c]
        BY <3>2
      <4>2. s = t => sent'[s] <= ver[t]
        BY <1>1, <3>1 DEF NotAhead
      <4>3. ver[t] \in Int /\ (s = t => sent'[s] \in Int)
        BY <1>1, <3>1 DEF TypeInv
      <4>4. s = t => <<t, ver[t]>>[1] = s /\ <<t, ver[t]>>[2] >= sent'[s]
        BY <4>2, <4>3
      <4> QED BY <4>1, <4>4 DEF InHello
    <3>4. InHello(c, s) => InHello(c, s)'
      BY <1>1, <3>2 DEF InHello
    <3> QED BY <1>1, <2>1, <3>1, <3>2, <3>3, <3>4 DEF Served, OnItsWay, InService, InFan, InOut
  <2> QED BY <2>2, <2>3
<1>7. CASE WriteHello(d)
  <2>1. PICK m \in hello[d] : hello' = [hello EXCEPT ![d] = @ \ {m}] /\ Receive(d, m)
    BY <1>7 DEF WriteHello
  <2>2. UNCHANGED <<fan, conn, alive, due, out, greeted, dropped>>
    BY <1>7 DEF WriteHello
  <2>3. m \in Msg
    BY DEF TypeInv
  <2>4. CASE c # d
    <3>1. hello'[c] = hello[c] /\ got'[c] = got[c]
      BY <2>1, <2>3, <2>4, Receives DEF TypeInv
    <3> QED BY <1>2, <2>2, <3>1
  <2>5. CASE c = d
    <3>1. Served(c, s) /\ s \in Services /\ hello'[c] = hello[c] \ {m}
      BY <2>1, <2>2, <2>5 DEF GreetedIsServed, TypeInv
    <3>2. got'[c][s] >= got[c][s] /\ (m[1] = s => got'[c][s] >= m[2])
      BY <2>1, <2>3, <2>5, <3>1, Receives
    <3>3. /\ got[c][s] \in Int /\ got'[c][s] \in Int /\ sent[s] \in Int /\ m[2] \in Int
      <4>1. TypeInv'
        BY TypeStep DEF Next
      <4>2. got[c][s] \in Version \cup {None} /\ got'[c][s] \in Version \cup {None}
        BY <3>1, <4>1 DEF TypeInv
      <4>3. sent[s] \in Version \cup {None} /\ m[2] \in Version \cup {None}
        BY <2>3, <3>1 DEF TypeInv, Msg
      <4>4. \A v \in Version \cup {None} : v \in Int
        BY VersionIsNat
      <4> QED BY <4>2, <4>3, <4>4
    <3>4. got[c][s] >= sent[s] => got'[c][s] >= sent[s]
      BY <3>2, <3>3
    <3>5. InHello(c, s) => InHello(c, s)' \/ got'[c][s] >= sent[s]
      BY <1>1, <3>1, <3>2, <3>3 DEF InHello
    <3> QED BY <1>1, <2>2, <3>1, <3>4, <3>5 DEF Served, OnItsWay, InService, InFan, InOut
  <2> QED BY <2>4, <2>5
<1>8. CASE WriteOut(d)
  <2> DEFINE m == Head(out[d])
  <2>1. Receive(d, m) /\ out' = [out EXCEPT ![d] = Tail(@)] /\ out[d] # <<>> /\ out[d] \in Seq(Msg)
    BY <1>8 DEF WriteOut, TypeInv, Queue
  <2>2. UNCHANGED <<fan, conn, alive, due, hello, greeted, dropped>>
    BY <1>8 DEF WriteOut
  <2>3. m \in Msg /\ m = out[d][1]
    BY <2>1
  <2> HIDE DEF m
  <2>4. CASE c # d
    <3>1. out'[c] = out[c] /\ got'[c] = got[c]
      BY <2>1, <2>3, <2>4, Receives DEF TypeInv
    <3> QED BY <1>2, <2>2, <3>1
  <2>5. CASE c = d
    <3>1. Served(c, s) /\ s \in Services /\ out'[c] = Tail(out[c])
      BY <2>1, <2>2, <2>5 DEF GreetedIsServed, TypeInv
    <3>2. got'[c][s] >= got[c][s] /\ (m[1] = s => got'[c][s] >= m[2])
      BY <2>1, <2>3, <2>5, <3>1, Receives
    <3>3. /\ got[c][s] \in Int /\ got'[c][s] \in Int /\ sent[s] \in Int /\ m[2] \in Int
      <4>1. TypeInv'
        BY TypeStep DEF Next
      <4>2. got[c][s] \in Version \cup {None} /\ got'[c][s] \in Version \cup {None}
        BY <3>1, <4>1 DEF TypeInv
      <4>3. sent[s] \in Version \cup {None} /\ m[2] \in Version \cup {None}
        BY <2>3, <3>1 DEF TypeInv, Msg
      <4>4. \A v \in Version \cup {None} : v \in Int
        BY VersionIsNat
      <4> QED BY <4>2, <4>3, <4>4
    <3>4. got[c][s] >= sent[s] => got'[c][s] >= sent[s]
      BY <3>2, <3>3
    <3>5. \A i \in DOMAIN out[c] : i = 1 \/ (i - 1 \in DOMAIN out'[c] /\ out'[c][i - 1] = out[c][i])
      <4> DEFINE q == out[c]
      <4>1. q \in Seq(Msg) /\ q # <<>>
        BY <2>1, <2>5
      <4>2. /\ Len(q) \in Nat \ {0} /\ DOMAIN q = 1 .. Len(q) /\ DOMAIN Tail(q) = 1 .. Len(q) - 1
            /\ \A i \in 1 .. Len(q) - 1 : Tail(q)[i] = q[i + 1]
        BY <4>1, TailElements
      <4> HIDE DEF q
      <4>3. \A i \in DOMAIN q : i = 1 \/ (i - 1 \in 1 .. Len(q) - 1 /\ Tail(q)[i - 1] = q[i])
        <5> SUFFICES ASSUME NEW i \in DOMAIN q, i # 1
                     PROVE  i - 1 \in 1 .. Len(q) - 1 /\ Tail(q)[i - 1] = q[i]
          OBVIOUS
        <5>1. i - 1 \in 1 .. Len(q) - 1 /\ (i - 1) + 1 = i
          BY <4>2
        <5>2. Tail(q)[i - 1] = q[(i - 1) + 1]
          BY <4>2, <5>1
        <5> QED BY <5>1, <5>2
      <4> QED BY <3>1, <4>2, <4>3 DEF q
    <3>6. InOut(c, s) => InOut(c, s)' \/ got'[c][s] >= sent[s]
      <4> SUFFICES ASSUME NEW i \in DOMAIN out[c], out[c][i][1] = s, out[c][i][2] >= sent[s]
                   PROVE  InOut(c, s)' \/ got'[c][s] >= sent[s]
        BY DEF InOut
      <4>1. CASE i = 1
        BY <2>3, <2>5, <3>2, <3>3, <4>1
      <4>2. CASE i # 1
        BY <1>1, <3>5, <4>2 DEF InOut
      <4> QED BY <4>1, <4>2
    <3> QED BY <1>1, <2>2, <3>1, <3>4, <3>6 DEF Served, OnItsWay, InService, InFan, InHello
  <2> QED BY <2>4, <2>5
<1>9. CASE WriterRemove(d)
  BY <1>2, <1>9 DEF WriterRemove
<1> QED BY <1>3, <1>4, <1>5, <1>6, <1>7, <1>8, <1>9

-----------------------------------------------------------------------------
(* The theorems.                                                           *)

LEMMA Inductive == Spec => []IInv
<1>1. Init => IInv
  <2>1. Init => TypeInv
    BY VersionIsNat DEF Init, TypeInv, Nothing, Queue
  <2>2. Init => ClosedIsRemoved /\ CloneIsCurrent /\ NotAhead /\ GreetedIsServed
    BY DEF Init, ClosedIsRemoved, CloneIsCurrent, NotAhead, GreetedIsServed, Nothing, None
  <2> QED BY <2>1, <2>2 DEF IInv
<1>2. IInv /\ [Next]_vars => IInv'
  <2> SUFFICES ASSUME IInv, [Next]_vars PROVE GreetedIsServed'
    BY TypeStep, ClosedStep, AheadStep DEF IInv
  <2>1. CASE UNCHANGED vars
    BY <2>1 DEF vars, IInv, GreetedIsServed, Served, OnItsWay, InService, InFan, InHello, InOut
  <2> QED BY <2>1, ServiceServes, ConnectionServes DEF Next, IInv
<1> QED BY <1>1, <1>2, PTL DEF Spec

\* clientChannels.writeAll, lockedRemoveConn: the fan-out, which works on a clone of the map,
\* never sends to the queue of a connection that was closed.
THEOREM ClosedIsNotSentTo == Spec => []NoSendOnClosed
<1>1. IInv => NoSendOnClosed
  BY DEF IInv, TypeInv, ClosedIsRemoved, CloneIsCurrent, NoSendOnClosed
<1> QED BY Inductive, <1>1, PTL

\* onConnect, writeHelloMsg, writeAll: between the greeting of a window and the first broadcast
\* to it no update is lost: with nothing on its way and nothing dropped, it has the last one sent.
THEOREM GreetedIsReached == Spec => []ReachesGreeted
<1>1. IInv => ReachesGreeted
  <2> SUFFICES ASSUME IInv, NEW c \in Clients, NEW s \in greeted[c] \ dropped[c], Delivered(c, s)
               PROVE  got[c][s] >= sent[s]
    BY DEF ReachesGreeted
  <2>1. Served(c, s)
    BY DEF IInv, GreetedIsServed, Delivered
  <2>2. ~OnItsWay(c, s)
    BY DEF Delivered, Idle, OnItsWay, InService, InFan, InHello, InOut
  <2> QED BY <2>1, <2>2 DEF Served
<1> QED BY Inductive, <1>1, PTL

-----------------------------------------------------------------------------
(***************************************************************************)
(* The system proxy.  Of the callers of Exit one exits, and only once: it  *)
(* is in doExit alone, before app.exited is set, and as it runs the exit   *)
(* functions none of them has begun.                                       *)
(***************************************************************************)
Exiting(c) == exit[c] \in {"spawn", "select"}

ExitOnce ==
  /\ exit \in [Callers -> {"idle", "spawn", "select", "returned"}]
  /\ ~hasExited => ~exited /\ exitOff = "none" /\ \A c \in Callers : exit[c] = "idle"
  /\ \A c \in Callers : Exiting(c) => ~exited /\ \A d \in Callers \ {c} : ~Exiting(d)
  /\ \A c \in Callers : exit[c] = "spawn" => exitOff = "none"

ExitFuncClears ==
  /\ exitOff \in {"status", "done"} /\ ~failed /\ ~late => ~os
  /\ exited /\ ~timedOut /\ "sysproxy" \in snapshot => exitOff = "done"

(***************************************************************************)
(* The switch.  As long as no command has come before the last one was     *)
(* through, none has failed and nobody has called Exit, there is none yet, *)
(* or the last one is at one of the places between the tap and the answer. *)
(***************************************************************************)
ProxyTypes ==
  /\ os \in BOOLEAN /\ disconnected \in BOOLEAN /\ commands \in Nat
  /\ offs \in [OffPC -> Nat]
  /\ addr => run = "running"

NoOff == \A p \in OffPC : offs[p] = 0
OneOff(p) == offs[p] = 1 /\ \A q \in OffPC \ {p} : offs[q] = 0
NoneTaken == queue = << >> /\ on = "idle"

Agreed == (status = "on") = os /\ disconnected = ~os

\* As the app starts the system's proxy may be what an earlier process has left.
Unused == commands = 0 /\ NoneTaken /\ replies = << >> /\ NoOff /\ status = "off"
Settled == addr /\ NoneTaken /\ replies = << >> /\ NoOff /\ Agreed

Queued(cmd, from) ==
  /\ queue = <<[cmd |-> cmd, from |-> from]>> /\ on = "idle" /\ replies = << >> /\ NoOff
  /\ from = "tray" => status = cmd

SwitchingOn(from) ==
  /\ queue = << >> /\ current = [cmd |-> "on", from |-> from]
  /\ on \in {"addr", "set", "status"} /\ replies = << >> /\ NoOff
  /\ from = "tray" => status = "on"
  /\ on # "addr" => addr
  /\ on = "status" => os

AnsweredOn == addr /\ NoneTaken /\ replies = <<"on">> /\ NoOff /\ os /\ ~disconnected

\* The isolate has answered, if it was to, before SysProxyOff has done anything.
SwitchingOff ==
  /\ addr /\ NoneTaken
  /\ replies = <<"off">> \/ (replies = << >> /\ status = "off")
  /\ \/ NoOff /\ ~os /\ disconnected
     \/ \E p \in OffPC : OneOff(p) /\ (p = "status" => ~os)

From == {"switch", "tray"}
Place ==
  \/ Unused \/ Settled
  \/ /\ commands > 0
     /\ \/ \E from \in From : Queued("on", from) \/ SwitchingOn(from)
        \/ \E from \in From : Queued("off", from) /\ addr
        \/ AnsweredOn \/ SwitchingOff

InOrder == ~overlap /\ ~failed /\ ~hasExited => Place

ProxyInv == ExitOnce /\ ExitFuncClears /\ ProxyTypes /\ InOrder

LEMMA ExitStep == ExitOnce /\ [ProxyNext]_proxyVars => ExitOnce'
<1> SUFFICES ASSUME ExitOnce, [ProxyNext]_proxyVars PROVE ExitOnce'
  OBVIOUS
<1>1. ASSUME NEW c \in Callers, Exit(c) PROVE ExitOnce'
  BY <1>1 DEF ExitOnce, Exiting, Exit, Callers, funcs
<1>2. ASSUME NEW c \in Callers, RunExitFuncs(c) PROVE ExitOnce'
  BY <1>2 DEF ExitOnce, Exiting, RunExitFuncs, Callers
<1>3. ASSUME NEW c \in Callers, FuncsDone(c) \/ ExitTimeout(c) PROVE ExitOnce'
  BY <1>3 DEF ExitOnce, Exiting, FuncsDone, ExitTimeout, Callers, funcs
<1>4. CASE ExitOff
  BY <1>4 DEF ExitOnce, Exiting, ExitOff, exiting
<1>5. CASE UNCHANGED <<exit, hasExited, exited, exitOff>>
  BY <1>5 DEF ExitOnce, Exiting
<1>6. CASE \/ BeforeStart \/ RunFails \/ ClearSettings \/ Listen \/ AfterStart
           \/ \E from \in {"switch", "tray"} : Tap(from)
           \/ StatusReply \/ TakeOff \/ TakeOn
  <2>1. UNCHANGED <<exit, hasExited, exited, exitOff>>
    BY <1>6 DEF BeforeStart, RunFails, ClearSettings, Listen, AfterStart, Tap, StatusReply,
                TakeOff, TakeOn, exiting, funcs
  <2> QED  BY <2>1, <1>5
<1>7. CASE \/ OnAddr \/ OnFails \/ OnSet \/ OnStatus
           \/ OffAddr \/ OffFails \/ OffClear \/ OffStatus
           \/ ProcessExit \/ ScannerChecked \/ ScannerTick \/ ScannerStop
  <2>1. UNCHANGED <<exit, hasExited, exited, exitOff>>
    BY <1>7 DEF OnAddr, OnFails, OnSet, OnStatus, OffAddr, OffFails, OffClear, OffStatus,
                ProcessExit, ScannerChecked, ScannerTick, ScannerStop, exiting, funcs
  <2> QED  BY <2>1, <1>5
<1>8. CASE UNCHANGED proxyVars
  BY <1>8, <1>5 DEF proxyVars
<1> QED
  BY <1>1, <1>2, <1>3, <1>4, <1>6, <1>7, <1>8 DEF ProxyNext

LEMMA ClearsStep == ExitOnce /\ ExitFuncClears /\ [ProxyNext]_proxyVars => ExitFuncClears'
<1> SUFFICES ASSUME ExitOnce, ExitFuncClears, [ProxyNext]_proxyVars PROVE ExitFuncClears'
  OBVIOUS
<1>1. ASSUME NEW c \in Callers, RunExitFuncs(c) PROVE ExitFuncClears'
  BY <1>1 DEF ExitOnce, Exiting, ExitFuncClears, RunExitFuncs, proxy, history
<1>2. ASSUME NEW c \in Callers, FuncsDone(c) \/ ExitTimeout(c) PROVE ExitFuncClears'
  BY <1>2 DEF ExitOnce, Exiting, ExitFuncClears, FuncsDone, FuncsFinished, ExitTimeout, proxy,
              history, funcs
<1>3. CASE ExitOff
  BY <1>3 DEF ExitFuncClears, ExitOff, exiting, proxy
<1>4. CASE OnSet
  BY <1>4 DEF ExitFuncClears, OnSet, exiting, funcs
<1>5. CASE ClearSettings
  BY <1>5 DEF ExitFuncClears, ClearSettings, funcs
<1>6. CASE OffClear
  BY <1>6 DEF ExitFuncClears, OffClear, exiting, funcs, history
<1>7. CASE OnFails \/ OffFails
  BY <1>7 DEF ExitFuncClears, OnFails, OffFails, proxy, exiting, funcs
<1>8. CASE UNCHANGED <<exitOff, failed, late, os, exited, timedOut, snapshot>>
  BY <1>8 DEF ExitFuncClears
<1>9. CASE \/ BeforeStart \/ RunFails \/ Listen \/ AfterStart
           \/ \E from \in {"switch", "tray"} : Tap(from)
           \/ StatusReply \/ TakeOff \/ TakeOn \/ \E c \in Callers : Exit(c)
  <2>1. UNCHANGED <<exitOff, failed, late, os, exited, timedOut, snapshot>>
    BY <1>9 DEF BeforeStart, RunFails, Listen, AfterStart, Tap, StatusReply,
                TakeOff, TakeOn, Exit, exiting, funcs, history, proxy
  <2> QED  BY <2>1, <1>8
<1>10. CASE \/ OnAddr \/ OnStatus \/ OffAddr \/ OffStatus
            \/ ProcessExit \/ ScannerChecked \/ ScannerTick \/ ScannerStop
  <2>1. UNCHANGED <<exitOff, failed, late, os, exited, timedOut, snapshot>>
    BY <1>10 DEF OnAddr, OnStatus, OffAddr, OffStatus,
                ProcessExit, ScannerChecked, ScannerTick, ScannerStop, exiting, funcs, history, proxy
  <2> QED  BY <2>1, <1>8
<1>11. CASE UNCHANGED proxyVars
  BY <1>11, <1>8 DEF proxyVars
<1> QED
  BY <1>1, <1>2, <1>3, <1>4, <1>5, <1>6, <1>7, <1>9, <1>10, <1>11 DEF ProxyNext

LEMMA BooleansStep ==
  os \in BOOLEAN /\ disconnected \in BOOLEAN /\ [ProxyNext]_proxyVars
    => os' \in BOOLEAN /\ disconnected' \in BOOLEAN
<1> SUFFICES ASSUME os \in BOOLEAN, disconnected \in BOOLEAN, [ProxyNext]_proxyVars
             PROVE  os' \in {os, TRUE, FALSE} /\ disconnected' \in {disconnected, TRUE, FALSE}
  OBVIOUS
<1>1. CASE \/ BeforeStart \/ RunFails \/ ClearSettings \/ Listen \/ AfterStart
           \/ \E from \in {"switch", "tray"} : Tap(from)
           \/ StatusReply \/ TakeOff \/ TakeOn
  BY <1>1 DEF BeforeStart, RunFails, ClearSettings, Listen, AfterStart, Tap, StatusReply, TakeOff,
              TakeOn, proxy
<1>2. CASE \/ OnAddr \/ OnFails \/ OnSet \/ OnStatus
           \/ OffAddr \/ OffFails \/ OffClear \/ OffStatus
  BY <1>2 DEF OnAddr, OnFails, OnSet, OnStatus, OffAddr, OffFails, OffClear, OffStatus, proxy
<1>3. CASE \/ \E c \in Callers : Exit(c) \/ RunExitFuncs(c) \/ FuncsDone(c) \/ ExitTimeout(c)
           \/ ProcessExit \/ ExitOff \/ ScannerChecked \/ ScannerTick \/ ScannerStop
  BY <1>3 DEF Exit, RunExitFuncs, FuncsDone, ExitTimeout, ProcessExit, ExitOff,
              ScannerChecked, ScannerTick, ScannerStop, proxy
<1>4. CASE UNCHANGED proxyVars
  BY <1>4 DEF proxyVars
<1> QED
  BY <1>1, <1>2, <1>3, <1>4 DEF ProxyNext

LEMMA ProxyTypesStep == ProxyTypes /\ [ProxyNext]_proxyVars => ProxyTypes'
<1> SUFFICES ASSUME ProxyTypes, [ProxyNext]_proxyVars PROVE ProxyTypes'
  OBVIOUS
<1> DEFINE Rest == commands \in Nat /\ offs \in [OffPC -> Nat] /\ (addr => run = "running")
<1>1. Rest
  BY DEF ProxyTypes
<1>2. Rest'
  <2>2. CASE \/ BeforeStart \/ RunFails \/ ClearSettings \/ Listen \/ AfterStart
             \/ \E from \in {"switch", "tray"} : Tap(from)
    BY <1>1, <2>2 DEF BeforeStart, RunFails, ClearSettings, Listen, AfterStart, Tap, start, ui
  <2>3. CASE StatusReply \/ TakeOff \/ TakeOn
    BY <1>1, <2>3 DEF StatusReply, TakeOff, TakeOn, start, ui, OffPC
  <2>4. CASE OnAddr \/ OnFails \/ OnSet \/ OnStatus
    BY <1>1, <2>4 DEF OnAddr, OnFails, OnSet, OnStatus, start, ui
  <2>5. CASE OffAddr \/ OffFails \/ OffClear \/ OffStatus
    BY <1>1, <2>5 DEF OffAddr, OffFails, OffClear, OffStatus, start, ui, OffPC
  <2>6. CASE \/ \E c \in Callers : Exit(c) \/ RunExitFuncs(c) \/ FuncsDone(c) \/ ExitTimeout(c)
             \/ ProcessExit \/ ExitOff \/ ScannerChecked \/ ScannerTick \/ ScannerStop
    BY <1>1, <2>6 DEF Exit, RunExitFuncs, FuncsDone, ExitTimeout, ProcessExit, ExitOff,
                ScannerChecked, ScannerTick, ScannerStop, start, ui
  <2>7. CASE UNCHANGED proxyVars
    BY <1>1, <2>7 DEF proxyVars
  <2> QED
    BY <2>2, <2>3, <2>4, <2>5, <2>6, <2>7 DEF ProxyNext
<1> QED
  BY <1>2, BooleansStep DEF ProxyTypes

LEMMA RemoveOnly == ASSUME NEW x PROVE RemoveAt(<<x>>, 1) = << >>
  BY DEF RemoveAt

LEMMA AppendOnly == ASSUME NEW x PROVE Append(<< >>, x) = <<x>>
  OBVIOUS

PlaceVars == <<addr, status, queue, current, on, offs, replies, os, disconnected, commands>>

LEMMA PlaceStays == Place /\ UNCHANGED PlaceVars => Place'
<1> SUFFICES ASSUME Place, UNCHANGED PlaceVars PROVE Place'
  OBVIOUS
<1> USE DEF PlaceVars, NoOff, NoneTaken
<1>1. CASE Unused \/ Settled
  BY <1>1 DEF Place, Unused, Settled, Agreed
<1>2. ASSUME commands > 0, NEW from \in From,
             Queued("on", from) \/ SwitchingOn(from) \/ (Queued("off", from) /\ addr)
      PROVE  Place'
  <2>1. CASE Queued("on", from) \/ SwitchingOn(from)
    <3>1. commands' > 0 /\ (Queued("on", from)' \/ SwitchingOn(from)')
      BY <1>2, <2>1 DEF Queued, SwitchingOn
    <3> QED  BY <3>1 DEF Place
  <2>2. CASE Queued("off", from) /\ addr
    <3>1. commands' > 0 /\ Queued("off", from)' /\ addr'
      BY <1>2, <2>2 DEF Queued
    <3> QED  BY <3>1 DEF Place
  <2> QED  BY <1>2, <2>1, <2>2
<1>3. CASE commands > 0 /\ (AnsweredOn \/ SwitchingOff)
  <2>1. AnsweredOn => AnsweredOn'
    BY DEF AnsweredOn
  <2>2. ASSUME NEW p \in OffPC PROVE OneOff(p) => OneOff(p)'
    BY DEF OneOff
  <2>3. SwitchingOff => SwitchingOff'
    BY <2>2 DEF SwitchingOff
  <2>4. commands' > 0 /\ (AnsweredOn' \/ SwitchingOff')
    BY <1>3, <2>1, <2>3
  <2> QED  BY <2>4 DEF Place
<1> HIDE DEF PlaceVars, NoOff, NoneTaken
<1> QED  BY <1>1, <1>2, <1>3 DEF Place

\* A command that comes when all is quiet.
LEMMA TapStep ==
  ASSUME ProxyTypes, Place, NEW from \in From, Tap(from), ~overlap'
  PROVE  Place'
<1>1. NoneTaken /\ replies = << >> /\ NoOff /\ UNCHANGED <<on, replies, offs, addr>>
  BY DEF Tap, Quiet, NoneTaken, NoOff, running, start
<1>2. PICK cmd \in {"on", "off"} :
         /\ cmd = (IF status = "on" THEN "off" ELSE "on")
         /\ queue' = <<[cmd |-> cmd, from |-> from]>>
         /\ from = "tray" => status' = cmd
  BY <1>1 DEF Tap, NoneTaken
<1>3. commands' > 0
  BY DEF Tap, ProxyTypes
<1>4. Queued(cmd, from)'
  BY <1>1, <1>2 DEF Queued, NoneTaken, NoOff
<1>5. CASE cmd = "on"
  BY <1>3, <1>4, <1>5 DEF Place
<1>6. CASE cmd = "off"
  <2>1. status = "on"
    BY <1>2, <1>6
  <2>2. Settled
    BY <1>1, <2>1 DEF Place, Unused, Queued, SwitchingOn, AnsweredOn, SwitchingOff, NoneTaken,
                      OneOff, NoOff
  <2>3. addr'
    BY <1>1, <2>2 DEF Settled
  <2> QED  BY <1>3, <1>4, <1>6, <2>3 DEF Place
<1> QED  BY <1>2, <1>5, <1>6

\* The isolate takes the command and what it does for "on".
LEMMA OnStep ==
  ASSUME ProxyTypes, Place, ~failed', TakeOn \/ OnAddr \/ OnFails \/ OnSet \/ OnStatus
  PROVE  Place'
<1>1. CASE TakeOn
  <2>1. PICK from \in From : commands > 0 /\ Queued("on", from)
    BY <1>1 DEF TakeOn, Place, Unused, Settled, SwitchingOn, AnsweredOn, SwitchingOff, NoneTaken,
                Queued
  <2>2. SwitchingOn(from)' /\ commands' > 0
    BY <1>1, <2>1 DEF TakeOn, Queued, SwitchingOn, NoOff
  <2> QED  BY <2>2 DEF Place
<1>2. CASE OnAddr \/ OnSet \/ OnStatus
  <2>1. PICK from \in From : commands > 0 /\ SwitchingOn(from)
    BY <1>2 DEF OnAddr, OnSet, OnStatus, Place, Unused, Settled, AnsweredOn, SwitchingOff,
                NoneTaken, Queued
  <2>2. CASE OnAddr
    <3>1. SwitchingOn(from)' /\ commands' > 0
      BY <2>1, <2>2 DEF OnAddr, SwitchingOn, NoOff, start, ui
    <3> QED  BY <3>1 DEF Place
  <2>3. CASE OnSet
    <3>1. SwitchingOn(from)' /\ commands' > 0
      BY <2>1, <2>3 DEF OnSet, SwitchingOn, NoOff, start, ui
    <3> QED  BY <3>1 DEF Place
  <2>4. CASE OnStatus
    <3>1. addr' /\ NoneTaken' /\ NoOff' /\ os' = os /\ os /\ disconnected' = FALSE /\ commands' > 0
      BY <2>1, <2>4 DEF OnStatus, SwitchingOn, NoneTaken, NoOff, start, ui
    <3>2. CASE from = "switch"
      <4>1. replies' = <<"on">>
        BY <2>1, <2>4, <3>2 DEF OnStatus, SwitchingOn, Reply
      <4> QED  BY <3>1, <4>1 DEF AnsweredOn, Place
    <3>3. CASE from = "tray"
      <4>1. replies' = << >> /\ status' = "on"
        BY <2>1, <2>4, <3>3 DEF OnStatus, SwitchingOn, Reply, ui
      <4>2. os' = TRUE
        BY <3>1 DEF ProxyTypes
      <4> QED  BY <3>1, <4>1, <4>2 DEF Settled, Agreed, Place
    <3> QED  BY <3>2, <3>3 DEF From
  <2> QED  BY <1>2, <2>2, <2>3, <2>4
<1>3. CASE OnFails
  BY <1>3 DEF OnFails
<1> QED  BY <1>1, <1>2, <1>3

\* The isolate takes the command, and SysProxyOff.
LEMMA OffStep ==
  ASSUME ProxyTypes, Place, ~failed', TakeOff \/ OffAddr \/ OffFails \/ OffClear \/ OffStatus
  PROVE  Place'
<1>1. CASE TakeOff
  <2>1. PICK from \in From : commands > 0 /\ Queued("off", from) /\ addr
    BY <1>1 DEF TakeOff, Place, Unused, Settled, SwitchingOn, AnsweredOn, SwitchingOff, NoneTaken,
                Queued
  <2>2. addr' /\ NoneTaken' /\ commands' > 0 /\ status' = status
    BY <1>1, <2>1 DEF TakeOff, Queued, NoneTaken, start, running
  <2>3. OneOff("addr")'
    BY <1>1, <2>1 DEF TakeOff, Queued, NoOff, OneOff, OffPC, ProxyTypes
  <2>4. replies' = <<"off">> \/ (replies' = << >> /\ status = "off")
    <3>1. CASE from = "switch"
      <4>1. Head(queue).from = "switch" /\ replies = << >>
        BY <2>1, <3>1 DEF Queued
      <4>2. replies' = Append(replies, "off")
        BY <1>1, <4>1 DEF TakeOff, Reply
      <4> QED  BY <4>1, <4>2, AppendOnly
    <3>2. CASE from = "tray"
      BY <1>1, <2>1, <3>2 DEF TakeOff, Queued, Reply
    <3> QED  BY <3>1, <3>2 DEF From
  <2>5. SwitchingOff'
    BY <2>2, <2>3, <2>4 DEF SwitchingOff, OffPC
  <2> QED  BY <2>2, <2>5 DEF Place
<1>2. CASE OffAddr \/ OffClear \/ OffStatus
  <2>1. ~NoOff
    BY <1>2 DEF OffAddr, OffClear, OffStatus, NoOff, OffPC
  <2>2. commands > 0 /\ SwitchingOff
    BY <2>1 DEF Place, Unused, Settled, Queued, SwitchingOn, AnsweredOn
  <2>3. PICK p \in OffPC : OneOff(p) /\ (p = "status" => ~os)
    BY <2>1, <2>2 DEF SwitchingOff
  <2>4. UNCHANGED <<addr, queue, on, replies, status, commands>>
    BY <1>2 DEF OffAddr, OffClear, OffStatus, start, ui, running
  <2>5. (\/ NoOff' /\ ~os' /\ disconnected'
         \/ \E q \in OffPC : OneOff(q)' /\ (q = "status" => ~os')) => SwitchingOff'
    BY <2>2, <2>4 DEF SwitchingOff, NoneTaken
  <2>6. CASE OffAddr
    <3>1. OneOff("clear")'
      BY <2>3, <2>6 DEF OffAddr, OneOff, OffPC, ProxyTypes
    <3> QED  BY <2>2, <2>4, <2>5, <3>1 DEF OffPC, Place
  <2>7. CASE OffClear
    <3>1. OneOff("status")' /\ os' = FALSE
      BY <2>3, <2>7 DEF OffClear, OneOff, OffPC, ProxyTypes
    <3> QED  BY <2>2, <2>4, <2>5, <3>1 DEF OffPC, Place
  <2>8. CASE OffStatus
    <3>1. NoOff' /\ os' = os /\ disconnected' = TRUE /\ ~os
      BY <2>3, <2>8 DEF OffStatus, OneOff, NoOff, OffPC, ProxyTypes
    <3> QED  BY <2>2, <2>4, <2>5, <3>1 DEF Place
  <2> QED  BY <1>2, <2>6, <2>7, <2>8
<1>3. CASE OffFails
  BY <1>3 DEF OffFails
<1> QED  BY <1>1, <1>2, <1>3

\* The switch shows what it is answered.
LEMMA ReplyStep == ASSUME ProxyTypes, Place, StatusReply PROVE Place'
<1>1. PICK i \in DOMAIN replies :
         /\ status' = IF replies[i] = "on" THEN "on" ELSE "off"
         /\ replies' = RemoveAt(replies, i)
  BY DEF StatusReply
<1>2. UNCHANGED <<addr, queue, on, offs, os, disconnected, commands>>
  BY DEF StatusReply, start, running, proxy
<1>3. replies # << >>
  BY <1>1
<1>4. commands > 0 /\ (AnsweredOn \/ (SwitchingOff /\ replies = <<"off">>))
  <2>1. commands > 0 /\ (AnsweredOn \/ SwitchingOff)
    BY <1>3 DEF Place, Unused, Settled, Queued, SwitchingOn
  <2>2. SwitchingOff => replies = <<"off">> \/ replies = << >>
    BY DEF SwitchingOff
  <2> QED  BY <1>3, <2>1, <2>2
<1>5. PICK x \in {"on", "off"} : replies = <<x>>
  BY <1>4 DEF AnsweredOn
<1>6. i = 1 /\ replies[i] = x
  BY <1>5
<1>7. replies' = << >> /\ status' = x
  BY <1>1, <1>5, <1>6, RemoveOnly
<1>8. CASE AnsweredOn
  <2>1. x = "on"
    BY <1>5, <1>8 DEF AnsweredOn
  <2>2. addr' /\ NoneTaken' /\ NoOff' /\ os' /\ ~disconnected'
    BY <1>2, <1>8 DEF AnsweredOn, NoneTaken, NoOff
  <2>3. Agreed'
    BY <1>2, <1>7, <2>1, <2>2 DEF Agreed, ProxyTypes
  <2> QED  BY <1>7, <2>2, <2>3 DEF Settled, Place
<1>9. CASE SwitchingOff /\ replies = <<"off">>
  <2>1. x = "off"
    BY <1>5, <1>9
  <2>2. ASSUME NEW p \in OffPC PROVE OneOff(p) => OneOff(p)'
    BY <1>2 DEF OneOff
  <2>3. SwitchingOff'
    BY <1>2, <1>7, <1>9, <2>1, <2>2 DEF SwitchingOff, NoneTaken, NoOff
  <2> QED  BY <1>2, <1>4, <2>3 DEF Place
<1> QED  BY <1>4, <1>8, <1>9

\* A start that only clears happens before there is an address.
LEMMA ClearStep == ASSUME ProxyTypes, Place, ClearSettings PROVE Place'
<1>1. ~addr /\ UNCHANGED <<addr, status, queue, current, on, offs, replies, commands>>
  BY DEF ClearSettings, ProxyTypes, start, ui, running
<1>2. CASE Unused
  BY <1>1, <1>2 DEF Unused, NoneTaken, NoOff, Place
<1>3. ASSUME commands > 0, NEW from \in From, Queued("on", from) \/ SwitchingOn(from) PROVE Place'
  <2>1. Queued("on", from)' \/ SwitchingOn(from)'
    BY <1>1, <1>3 DEF Queued, SwitchingOn, NoOff
  <2> QED  BY <1>1, <1>3, <2>1 DEF Place
<1> QED
  BY <1>1, <1>2, <1>3 DEF Place, Settled, AnsweredOn, SwitchingOff

\* flashlight's address is known, and stays so.
LEMMA ListenStep == ASSUME Place, Listen PROVE Place'
<1>1. addr' /\ UNCHANGED <<status, queue, current, on, offs, replies, os, disconnected, commands>>
  BY DEF Listen, ui, running, proxy
<1>2. CASE Unused \/ Settled
  BY <1>1, <1>2 DEF Unused, Settled, Agreed, NoneTaken, NoOff, Place
<1>3. ASSUME commands > 0, NEW from \in From, Queued("on", from) \/ SwitchingOn(from) PROVE Place'
  <2>1. Queued("on", from)' \/ SwitchingOn(from)'
    BY <1>1, <1>3 DEF Queued, SwitchingOn, NoOff
  <2> QED  BY <1>1, <1>3, <2>1 DEF Place
<1> QED
  BY <1>1, <1>2, <1>3 DEF Place, Listen, AnsweredOn, SwitchingOff

LEMMA OrderStep == ExitOnce /\ ProxyTypes /\ InOrder /\ [ProxyNext]_proxyVars => InOrder'
<1> SUFFICES ASSUME ExitOnce, ProxyTypes, InOrder, [ProxyNext]_proxyVars,
                    ~overlap', ~failed', ~hasExited'
             PROVE  Place'
  BY DEF InOrder
<1>1. ~overlap /\ ~failed /\ ~hasExited
  <2>1. CASE \/ BeforeStart \/ RunFails \/ ClearSettings \/ Listen \/ AfterStart
             \/ StatusReply \/ TakeOff \/ TakeOn
    BY <2>1 DEF BeforeStart, RunFails, ClearSettings, Listen, AfterStart, StatusReply,
                TakeOff, TakeOn, exiting, history, ui
  <2>5. CASE \E from \in {"switch", "tray"} : Tap(from)
    <3>1. overlap' = (overlap \/ ~Quiet) /\ failed' = failed /\ hasExited' = hasExited
      BY <2>5 DEF Tap, exiting, history
    <3> QED  BY <3>1
  <2>2. CASE \/ OnAddr \/ OnFails \/ OnSet \/ OnStatus
             \/ OffAddr \/ OffFails \/ OffClear \/ OffStatus
    BY <2>2 DEF OnAddr, OnFails, OnSet, OnStatus, OffAddr, OffFails, OffClear, OffStatus,
                exiting, history, ui
  <2>3. CASE \/ \E c \in Callers : Exit(c) \/ RunExitFuncs(c) \/ FuncsDone(c) \/ ExitTimeout(c)
             \/ ProcessExit \/ ExitOff \/ ScannerChecked \/ ScannerTick \/ ScannerStop
    BY <2>3 DEF Exit, RunExitFuncs, FuncsDone, ExitTimeout, ProcessExit, ExitOff,
                ScannerChecked, ScannerTick, ScannerStop, exiting, history, ui
  <2>4. CASE UNCHANGED proxyVars
    BY <2>4 DEF proxyVars
  <2> QED  BY <2>1, <2>2, <2>3, <2>4, <2>5 DEF ProxyNext
<1>2. Place
  BY <1>1 DEF InOrder
<1>3. ~ExitOff
  BY <1>1 DEF ExitOnce, ExitOff
<1>4. CASE UNCHANGED PlaceVars
  BY <1>2, <1>4, PlaceStays
<1>5. CASE \E from \in {"switch", "tray"} : Tap(from)
  BY <1>2, <1>5, TapStep DEF From
<1>6. CASE StatusReply
  BY <1>2, <1>6, ReplyStep
<1>7. CASE TakeOn \/ OnAddr \/ OnFails \/ OnSet \/ OnStatus
  BY <1>2, <1>7, OnStep
<1>8. CASE TakeOff \/ OffAddr \/ OffFails \/ OffClear \/ OffStatus
  BY <1>2, <1>8, OffStep
<1>9. CASE ClearSettings
  BY <1>2, <1>9, ClearStep
<1>10. CASE Listen
  BY <1>2, <1>10, ListenStep
<1>11. CASE BeforeStart \/ RunFails \/ AfterStart
  <2>1. UNCHANGED PlaceVars
    BY <1>11 DEF BeforeStart, RunFails, AfterStart, PlaceVars, ui, running, proxy
  <2> QED  BY <2>1, <1>4
<1>12. CASE \/ \E c \in Callers : Exit(c) \/ RunExitFuncs(c) \/ FuncsDone(c) \/ ExitTimeout(c)
            \/ ProcessExit \/ ScannerChecked \/ ScannerTick \/ ScannerStop
  <2>1. UNCHANGED PlaceVars
    BY <1>12 DEF Exit, RunExitFuncs, FuncsDone, ExitTimeout, ProcessExit, ScannerChecked,
                 ScannerTick, ScannerStop, PlaceVars, start, ui, running, proxy
  <2> QED  BY <2>1, <1>4
<1>13. CASE UNCHANGED proxyVars
  BY <1>13, <1>4 DEF proxyVars, PlaceVars
<1> QED
  BY <1>3, <1>5, <1>6, <1>7, <1>8, <1>9, <1>10, <1>11, <1>12, <1>13 DEF ProxyNext

LEMMA ProxyStart == ProxyInit => ProxyInv
<1> SUFFICES ASSUME ProxyInit PROVE ProxyInv
  OBVIOUS
<1>1. ExitOnce
  BY DEF ProxyInit, ExitOnce, Exiting
<1>2. ExitFuncClears
  BY DEF ProxyInit, ExitFuncClears
<1>3. commands \in Nat /\ offs \in [OffPC -> Nat] /\ (addr => run = "running")
  BY DEF ProxyInit
<1>4. os \in BOOLEAN /\ disconnected \in BOOLEAN
  BY DEF ProxyInit
<1>5. Place
  BY DEF ProxyInit, Place, Unused, NoneTaken, NoOff
<1> QED
  BY <1>1, <1>2, <1>3, <1>4, <1>5 DEF ProxyInv, ProxyTypes, InOrder

LEMMA ProxyAlways == ProxySpec => []ProxyInv
<1>1. ProxyInv /\ [ProxyNext]_proxyVars => ProxyInv'
  BY ExitStep, ClearsStep, ProxyTypesStep, OrderStep DEF ProxyInv
<1> QED
  BY ProxyStart, <1>1, PTL DEF ProxySpec

\* An exit in time, of which no function fails, has turned the system's proxy off when
\* app.exited is set (app.go:457-510), unless a SysproxyOn sets it once more afterwards.
THEOREM ExitLeavesNoProxy == ProxySpec => []ExitTurnsProxyOff
<1>1. ProxyInv => ExitTurnsProxyOff
  BY DEF ProxyInv, ExitFuncClears, ExitTurnsProxyOff
<1> QED
  BY <1>1, ProxyAlways, PTL

\* Commands that wait for one another and do not fail leave the switch, the system's
\* setting and flashlight's own in agreement (app.go, SysproxyOn and SysProxyOff), for any
\* number of commands.
THEOREM SwitchIsTrue == ProxySpec => []SwitchTellsTheTruth
<1>1. ProxyInv => SwitchTellsTheTruth
  <2> SUFFICES ASSUME ProxyInv, Quiet, ~overlap, ~failed, ~hasExited, commands > 0
               PROVE  (status = "on") = os /\ disconnected = ~os
    BY DEF SwitchTellsTheTruth
  <2>1. Settled \/ SwitchingOff
    BY DEF ProxyInv, InOrder, Place, Unused, Queued, SwitchingOn, AnsweredOn, Quiet
  <2>2. CASE Settled
    BY <2>2 DEF Settled, Agreed
  <2>3. CASE SwitchingOff
    <3>1. status = "off" /\ ~os /\ disconnected
      BY <2>3 DEF SwitchingOff, OneOff, Quiet
    <3>2. os = FALSE /\ disconnected = TRUE
      BY <3>1 DEF ProxyInv, ProxyTypes
    <3> QED  BY <3>1, <3>2
  <2> QED  BY <2>1, <2>2, <2>3
<1> QED
  BY <1>1, ProxyAlways, PTL
=============================================================================
