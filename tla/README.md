# A verification of lantern-client

This directory holds TLA+ models of lantern-client, the runs of the model
checker TLC over them, and proofs checked by TLAPS. It is read beside the
code: every definition that models code is listed with its lines under `map`
in PROJECT.json.

The repository builds several programs from one tree: the desktop app (a Go
library under `desktop/` loaded by a Flutter UI), the Android app
(`internalsdk/` bound through gomobile), and the iOS app with its network
extension (`internalsdk/ios` and `ios/`). The circumvention proxy itself
(flashlight, gVisor's or lwIP's packet handling, the operating system's VPN)
is a library; what this repository adds is the glue that runs goroutines,
callbacks, processes and files against each other. That glue is the subject
here: it is where orders of events matter and where unit tests are fewest.

Contents

1. The system and its parts
2. Plan
3. The iOS data plane: WriteWorker, ProxiedTCP, ConnLife, TcpCopy, TunnelUDP
4. The desktop app: Settings, UIChannel, SystemProxy
5. The configuration on iOS: IosConfig
6. Accounts: Account (phone), DesktopAccount
7. Android: AndroidProcess, AndroidEngine, AndroidVpn
8. What is proved
9. Where the code differs from what it says
10. What is not modelled

How to run (from this directory):

    tlc -workers 2 -config MC_TcpCopy.cfg TcpCopy
    tlc -workers 2 -config MC_WriteWorker.cfg MC_WriteWorker
    tlapm WriteWorker_proof.tla
    tlapm --stretch 3 Account_proof.tla

Account_proof, Desktop_proof and Android_proof are long: each takes several minutes.

The module of a run, its cfg and its properties are listed under `runs` in
PROJECT.json; the mutated form of the code that each property was seen to
notice is under `mutants`.

## 1. The system and its parts

### Parts that are modelled

**TCP write worker** (`internalsdk/ios/thread_limiting_conn.go`).
State: one channel of tasks and one goroutine for all connections; per
connection a result channel of capacity 1 and a `sync.Once`. Operations:
`Write` queues a task and waits for the result channel, `Close` closes the
result channel and then the connection. Hard: `Write` of a connection being
closed returns while its task is still queued; the result channel carries no
identity; the worker is shared, so one blocked hand-over would stop the whole
tunnel. Correct when: no write takes another's result, the worker never
blocks on a hand-over, bytes stay in order, writes after a close fail.

**TCP handler** (`internalsdk/ios/tcp.go`). State: the map `upstreams`, two
counters, an unbuffered channel of dial requests, and per connection a context
with a timeout, two goroutines of netx, two waiting goroutines and a timer.
Operations: `Handle`, `handleDial`, `copy` with `keepFresh` and its deferred
releases. It hands connections to the write worker (the downstream is wrapped)
and is called by the tunnel's TCP stack. Hard: answers travel over unbuffered
channels that are lost if nobody receives; two directions stop and reset one
timer that two other goroutines read. Correct when: every upstream is closed
exactly by its owner, nothing of a finished connection remains, an idle half
is closed.

**UDP handler** (`internalsdk/ios/udp.go`, `ios/Tunnel/UDPConn.swift`).
State: the map of flows, a counter, an NWConnection per flow, two channels of
activity. Operations: `Connect`, `ReceiveTo`, the callbacks `OnDialSucceeded`,
`OnReceive`, `OnWritten`, `OnError`, `OnClose`, and `idleTiming`. Hard: the
callbacks run on a concurrent dispatch queue, in any order with the timeout of
the dial and with the idle timer. Correct when: one receive request at a time,
a dial given up stays given up, every dialed flow is closed.

**Settings** (`desktop/app/settings.go`). State: the map under a lock, the
file settings.yaml, the listeners, what the UI has been told. Operations:
setters on any goroutine, `save`, `onChange`, `read` for messages of the UI,
`LoadSettings`. Hard: only the map is locked, the file is truncated before it
is written, and the process can die in between. Correct when: the identity
(user ID and token) is never mixed, the file and the listeners follow memory.

**UI channel** (`desktop/ws`). State: registered services, one set of
connections, per connection a queue, a greeting queue and a writer. Operations:
`Register`, `Unregister`, `SendMessage`, the fan-out, connecting, failing and
removing windows. Settings, pro, stats, bandwidth, config and VPN status are
services on it. Hard: greetings against registrations, two queues selected at
random, removal of connections while the fan-out works on a clone of the map,
windows that stop reading. Correct when: every window is told every change, in
order, no send hits a closed channel, one slow window harms nobody.

**System proxy and exit** (`desktop/app/sysproxy.go`, `app.go`, `desktop/lib.go`
and their callers under `lib/`). State: the operating system's proxy setting,
the setting `SNDisconnected`, the switch and the tray of the UI, the registered
exit functions. Operations: `SysproxyOn`, `SysProxyOff`, `AddExitFunc`, `Exit`
with its ten seconds. Hard: turning off is answered before it is done, turning
on runs on an isolate of its own, `Exit` may come from the UI and from
flashlight at any time. Correct when: the app does not leave the system with a
dead proxy, the switch tells the truth, the exit ends.

**Configuration on iOS** (`internalsdk/ios/config.go`, `ios.go`, `VpnHelper.swift`,
`PacketTunnelProvider.swift`). State: proxies.yaml with its etag, the excluded
IPs and the user configuration in a directory shared by two processes, and
what each process has read from it. Operations: `configure` with its fetch,
saves and message; the extension's start, `reconfigure` and stop. Hard: no file
is locked, a write truncates first, the etag is a second file, messages are
sent only to an extension that is connected, each process can die anywhere.
Correct when: a "not modified" is true, and the extension dials the proxies
and excludes the addresses that are current.

**Accounts on the phone** (`internalsdk/session_model.go`, `internalsdk/auth`,
`internalsdk/pro`). State: the session in the app's database (user ID, token,
email, salt, level, logged in or not), the auth server's accounts, the pro
server's users, and the identity that the auth client captured when the process
started. Operations: sign up, sign in, sign out, deletion, recovery, change of
email, linking and removing devices, purchases, refreshing the user's details,
creating the user at the start with retries. Hard: every call is a goroutine, its
answer is written in several transactions, a salt is cached without the address it
belongs to. Correct when: user and token belong together, a login is of one user,
the cached salt proves the password, who signed out is gone, there is always a user.

**Accounts, cached users and announcements on the desktop** (`desktop/auth.go`,
`desktop/lib.go`, `desktop/app/pro.go`, `loconfscanner.go`, `desktop/loconf`).
State: the settings, the cache of users, which announcements were shown.
Operations: those of the phone that exist here, the fetching of the user's data,
the scan. Hard: the cache is filled under an ID read before the request, signing in
leaves the session's user as it was. Correct when: what is cached under a user is
that user's, nobody is shown as pro who is not, an announcement is shown once.

**The engine on Android** (`internalsdk/android.go`, `replica.go`, parts of
`session_model.go`). State: one process with `Start`, the goroutine it runs once,
the check of the features, the Replica server, the ads to be shown. Hard: timeouts
that end the process, a stale address in the database, checks of the ads that read
four paths and write one. Correct when: `Start` answers or the process ends, the
Replica address is alive, pro users see no ads.

**The VPN on Android** (`internalsdk/vpn_model.go`, `tun.go`, `MainActivity.kt`,
`LanternVpnService.kt`, `GoTun2SocksProvider.kt`, `NotificationReceiver.kt`). State:
the status in the database, the service's instance with its threads and provider,
the device all of them share. Operations: the switch, the check on resume,
permissions, the commands and broadcasts, start, stop, revocation and death. Hard:
four parties that know of each other by messages only. Correct when: off means no
device, connected means a device, a new split tunnelling list is used when
connecting anew.

### How they interact

- Packets reach the TCP and UDP handlers through the tunnel's stack (external);
  ProxiedTCP's downstream is a `threadLimitingTCPConn`, so its writes are
  WriteWorker's tasks, and the calls of `Close` by copy's goroutines are
  WriteWorker's closers. TcpCopy is the inside of ProxiedTCP's state "copying".
- IosConfig's extension creates the dialers that ProxiedTCP's dialing goroutines
  use; the data plane does not care which.
- Settings' change of a value is a message of a service of UIChannel, and
  `sendConnectionStatus` of SystemProxy is such a setter (`SNDisconnected`).
- The UI drives SystemProxy through FFI calls of `desktop/lib.go`.
- DesktopAccount's writes are setters of Settings, one after the other; that one of
  them is torn by a crash is Settings' subject and is left out of DesktopAccount.
- Account's `pro` is what AndroidEngine's check of the ads reads, there as an event.
- AndroidVpn's threads run in the process of AndroidEngine. They are composed through
  the promise AndroidProcess: AndroidEngine implements it (checked and, for its
  safety part, proved), and AndroidVpn has it as its part `process`.

### Parts that are not modelled

They are listed with the reason in section 10 and in PROJECT.json.

## 2. Plan

Order of work, most important behaviour first, and where it stands.

1. The iOS data plane, through which all traffic goes: WriteWorker, ProxiedTCP,
   TcpCopy, TunnelUDP, and ConnLife, the abstract specification of what
   the TCP handler promises, which ProxiedTCP implements. Done, checked and proved.
2. The desktop app: Settings with the way to the UI's windows and
   `GetInt64Eventually`, UIChannel, SystemProxy with the start of the app. Checked and
   proved.
3. IosConfig. Checked and proved.
4. Account and DesktopAccount. Checked and proved.
5. AndroidEngine with AndroidProcess, the abstract specification of the process, and
   AndroidVpn, which is composed with it. Checked and proved.

Left: an abstract `Pipe` (both halves open, one ended, closed) that TcpCopy implements
and that ConnLife's "open" stands for.

Runs: one per component and question, each small enough to end in a few minutes.
Bounds: two or three connections, flows, windows or goroutines (enough for two to
compete and one to stand by), queues of one or two places (enough to be full), two or
three values, three to five events of users and system.

Conventions in all modules: a `pc`-like variable per goroutine or callback
names the point in the code it is about to execute; one action goes from one
point where other goroutines can interleave to the next; variables marked
"history" or "bound" are not in the code. Each module holds, after Init, a few
mutated forms of its actions (`Action_Slip`): plausible slips, used only to see
that each property notices one (the list is in PROJECT.json).


## 3. The iOS data plane

### WriteWorker

State and code: `tasks`, `running`, `stage` are the worker's channel, the task
it has taken and whether it is inside the wrapped `Write` or inside
`writeResult.Write`; `wpc` and `writeNo` are the writer of a connection;
`result`, `resultClosed`, `connClosed`, `once` are the fields of
`threadLimitingTCPConn`; `closer` is one call of `Close` per connection and
closing goroutine. Actions: `WriteCall`, `Enqueue`, `AwaitResult` are `Write`;
`Take`, `Perform`, `Deliver` the worker's loop; `CloseFirst`, `CloseFinish`,
`CloseAgain` are `Close` seen by the goroutine that wins the `sync.Once` and by
the others, which wait for it. What a write returns is abstracted to whose
result it is. The UDP wrapper's `WriteFrom` uses the same worker with a result
channel of its own per call, so there is nothing to confuse there.

Run `write_worker` (two connections, two writes each, two closers each, a queue of two
tasks): results stay with their write, writes reach the connection in order and once,
every `Write` returns. (That a hand-over never blocks, that a write begun after a close
fails and that no `Close` returns before the connection is closed is proved, section 8,
and was checked here before.) Two connections are needed for one to disturb the other,
two writes for a left-over result to be taken by a later write, two closers for the race
in the `Once`. The queue has to be able to be full; the proof covers every larger
instance.

Fairness: the worker runs; the writer's receive and a closer inside the `Once`
run; `Enqueue` has strong fairness because Go serves senders blocked on a channel
in order. The wrapped `Write` is assumed to return (lwIP's does, or the
connection is closed). Nobody has to call `Write` or `Close`.

### ProxiedTCP and TcpCopy

One connection's life is split in two modules, since the state of the timer
multiplies with everything else. ProxiedTCP has many connections and dialers and
takes copy's decision to end as one nondeterministic step (`CopyEnd`, with
`CopyCloseEarly` before it); TcpCopy has one connection, from the moment copy
has started its goroutines, and all of copy's decisions.

ProxiedTCP: `hpc` is `Handle`, `dpc` and `req` a goroutine of `handleDials`, `ctx`
the context with the dial timeout, `cpc` the goroutine that runs copy and then
its deferred calls, one action each, in Go's order (last deferred first).
`dialOut` either succeeds while the context is live or fails. `Dispatch` and the
two `Receive` actions are the rendezvous of the unbuffered channels.

Run `proxied_tcp` (three connections, two dialers, so one request waits; dial failures
and timeouts at any point): a dialer with an answer always finds its `Handle` in the
select, each open upstream has exactly one owner, a connection that is over has left no
entry, upstream or live context and the two counters are zero at the end
(`NothingLeftBehind`), every `Handle` returns, and `ImplementsConnLife`: the handler
implements ConnLife (below). Fairness: goroutines run, a dial returns (at the latest
with its context), copying ends some day, and blocked senders are served in order
(strong fairness of `Dispatch`). That copying ends is a premise here: section 9 has the
one way in which it does not, after the connections themselves have been closed, so that
of the release only the entry, the counter and the context are lost.

ConnLife is the promise of the handler without its goroutines: a connection is
refused or queued, dialed when it is one of `MaxDials`, and then either fails or has
an upstream, which is closed before the connection is over; nothing happens twice.
The bound is why the dialing goroutines exist (tcp.go:87: "dialing is very memory
intensive"). The refinement mapping `lifeOf` reads a connection's life off the
program counters of its `Handle` and its copy and the state of its upstream; the
dialers, contexts, counters and the map are hidden. A step of a dialer is a stutter
of ConnLife: the upstream belongs to the connection's life only once `Handle` has
received it.

TcpCopy: `timer` is `closeTimer` ("fired" means that a value lies in its
channel); `dir` is netx's goroutine (external) of one direction together with
its calls of `keepFresh`; `waiter` is the goroutine that waits for that direction
first and then for the other or for the timer; `wg` and `main` are copy. The
semantics of `Stop` and `Reset` are those of the Go version in go.mod (1.25;
since 1.23 a stopped timer's channel is empty).

Run `tcp_copy` (three chunks per direction, ends and timeouts anywhere): a direction
that is reading while the other has ended is always watched by the timer, and an idle
half is closed in the end. (That nothing is closed before one direction has ended, and
nothing released before both have, is proved.) The exception, a direction inside
`keepFresh`, is in section 9. Three chunks allow both directions to be inside
`keepFresh` at once, before and after the timer has fired; more chunks repeat these
states.

### TunnelUDP

Callbacks may overlap, so the calls of `OnReceive` are counted per place they
have reached (`onReceive`), not named. `nw` and `cancel` are the NWConnection
(external: it may become ready, fail, and reports "cancelled" after a cancel).
`upstreams` keeps the key a flow is registered under apart from the key it is
deleted under (udp.go:66 deletes the wrapper that line 171 made, line 187 registers
the raw connection): in the model as in the code no entry is ever deleted. This
is deterministic, shows in every trace and needs no checker; `FlowCloses`
therefore speaks of the downstream connection.

Run `tunnel_udp` (two flows, one of which carries two datagrams each way while the
other only comes and goes; channels of one place instead of ten): at most one
receive request at a time, a failed `Connect` stays dead although
`OnDialSucceeded` comes late, every dialed flow is closed. With a channel of one
place two datagrams fill it and block the callback, which ten would do after
eleven. Fairness: timers fire, started callbacks run, a cancelled NWConnection
reports so; data need not arrive and a dial need not succeed.

## 4. The desktop app

### Settings

`setVals` is one action for its critical section (`SetVals`), then one each for
the truncation, the copy under the read lock, the write, and per changed name the
notifiers, the copy for the UI and the sending. `read` sets the names of a message of
the UI one after the other and then sends the whole map; `StartService` registers the
service, which greets the window, and only then sets the channel that setters send
to; a window may come at any point. `GetInt64Eventually` registers its notifier,
looks at the map and waits. The map has three names: the ID and token that
`SetUserIDAndToken` sets together, and one more. The file is empty, a complete map, or
a map followed by the tail of a longer one (`Garbage`), which the parser may reject
(defaults) or read as the shorter map. `Restart` is a crash at any point followed by
`LoadSettings`.

Run `settings` (two setters, one of which serves messages of up to two settings, two
identities, three calls, a caller that waits for the user ID, one crash):
`IdentityNotTorn` for memory, the copies under way, the UI and whatever a crash
leaves in the file; `SynchronizedUnlessOverlapped`: the file, the listeners and the
window have the values of memory when no setter runs and none ever overlapped;
`WaitMissesNoUser`: who waits for the user ID has received it, or a setter is on its
way to tell it. Only safety is checked here, so no fairness is assumed. Two setters
suffice for a lost update; a third would be one more writer of the same file. The
proofs are for any number.

### UIChannel

`reg` is a service on its way through `Register`, its caller and `Unregister`; a
service with `Out` publishes through `svcOut`, a `Direct` one through
`SendMessage`. `fan` is the message the channel's `writeAll` is sending with the
connections of its clone still to do. A connection's `writer` takes from `out`
or from `hello` at random, as its select does. Messages are version numbers of
their service. A message that a goroutine has taken and not yet passed on counts
as still being the head of its queue, which makes each queue one place longer than
the code's but keeps the order.

Run `ui_channel` (a service with a greeting, a direct one without; two windows of
which one may stop taking messages for ever; queues of two, a removal queue of
one; one change per service): no send to a closed queue, a greeted window is
brought up to date or has dropped something because its queue was full, a slow
window holds nobody up. The window that is never told is in section 9. A third window
adds nothing of a new kind, since windows only meet in the fan-out and in the removal
queue, whose single place two can fill; the proofs are for any number of windows.

`readLoop`, the way from the UI to the services, is left out: the UI of this commit
sends nothing over its websocket.

Fairness: the one goroutine of the fan-out goes on, whichever connection or service
it is at, and so does the one that removes failed connections; a writer goes on as
long as its peer is healthy. A peer that is not may block its writer for ever.

### SystemProxy

`queue`, `current`, `on` are the isolate of the UI: it executes `SysproxyOn` itself,
while `sysProxyOff` only starts a goroutine (`offs` counts those at each place of
`SysProxyOff`) and answers at once. `status` is the switch, which follows `replies`, or
at once when the tray was used. `run`, `clear`, `addr` and `exitFuncs` are the start:
`Run` may fail (which `setup` ignores), or only clear a proxy that an earlier process
left behind, and `afterStart` registers the exit functions. `exit` is a call of `Exit`
by the UI or by flashlight; `exitOff`, `scanner`, `scannerStop` are the exit functions
with their own waiting. `gone` is the process being over: the UI ends it when its call
returns.

Run `system_proxy` (starts with and without the flag to clear, three taps, failures of
every call, exits at any point): `ExitTurnsProxyOff` says that the orderly exit ends
with the proxy off if the exit function was registered and worked, `SwitchTellsTheTruth`
that after commands that neither overlapped nor failed the switch, the system and
flashlight agree, `ExitEnds` that ten seconds are enough. The provisos are histories
(`overlap`, `failed`, `late`): with overlapping or failed commands the code does leave
the switch wrong, which the hazards in PROJECT.json describe; no text of the repository
promises otherwise, so this is stated as the limit of the property. Fairness: only the
goroutine of `Exit` and its timer. Three taps are on, off and on again, the shortest
sequence in which a late off could undo an on.

Left out: the start of the isolate, the exit functions of profiling and
OpenTelemetry (they block nothing), the listener for `SNSystemProxy` (nothing sets
that name at this commit), and the awaits inside the tray's own teardown.

## 5. The configuration on iOS

IosConfig has two processes: the app (`app` is the point reached in `configure`)
and the network extension (`net`), over the shared files `file` (proxies.yaml),
`etag`, `user` and `ips`. Content is a version number: nothing, the embedded
configuration, or a version of the server, some of which list no proxies. A save is
two steps, truncate and fill, because the other process can read between them.
`geo` is the goroutine that learns the country and rewrites the user
configuration; several of them at once are merged into one. global.yaml, which no
one else reads, appears as `globalChanged`; the hard-coded proxies are empty in this
code; `WriteIps` is one step.

`astray` becomes true when something happens that the code does not recover
from: a failed write whose etag is saved nevertheless, the death of the app between
a save and the message, the extension writing an empty file over one it read in the
moment of truncation, a message missed by an extension that is just starting, a
version without proxies. The properties hold up to that point, and these situations
are listed as hazards at their lines.

Run `ios_config` (three server versions, one of them blank, one failed write or death
anywhere, any number of starts and stops): `UnchangedIsCurrent` says that a 304 is
right: if the etag is the server's, so is the file; `TunnelIsUpToDate` that between
updates a connected extension dials and excludes the addresses of the file. A blank
version in the file is in section 9. Three versions allow an update that is overtaken by
another; one fault at a time is enough for each kind.

The run checks safety only, so no fairness is assumed.

Known dead end, reachable in the model: the extension does not start without
proxies, and the app's timer fetches only while the VPN is connected; after an
empty or blank file only a restart of the app helps.

## 6. Accounts

### How both modules are built

A call is a goroutine with a place (`at`): it asks for a salt or sends its request,
the server does its part, and the answer leaves a list of transactions (`todo`) that
are written one after the other; another call, the end of the process or a lost
answer can come at every place. SRP is reduced to what it decides: a proof with a
salt is right if the account's verifier was made with that salt. A user of the pro
server and its token are the same number, 0 for none.

Neither program keeps its session right whatever happens, and no text of it says so.
`mishaps` is a history of what has come between a call and its effect. Each property
names the mishaps under which it may fail, or those under which it still holds; all
the others, and all their orders, are checked. So a property says two things: which
sequences break the session, and that nothing else does.

| mishap | meaning | code |
|---|---|---|
| crash | the process ended while a call ran: it died, or the retries of another call gave up | between two transactions |
| lost | a request failed, or its answer, after a part of its call was done | session_model.go:2190 |
| overlap | two calls ran at a time | session_model.go:1576 |
| header | a sign up bound the account to the user of the last start | session_model.go:165 |
| limit | a sign in was refused because of too many devices | session_model.go:1961 |
| code | a recovery code linked the device, no email is stored | session_model.go:2410 |
| contact | the email typed in for a purchase or a report replaced the one shown | session_model.go:1594 |
| email | the address was changed, the salt kept | session_model.go:2139 |
| removed | the device was removed on another one | userLinkRemove |
| refetch | (desktop) details of the session's user replaced those of the account signed in to | app/pro.go:122 |
| deleted | (desktop) the account was deleted since the last start | auth.go:319 |

### Account

`db` is the session, `server` both servers, `captured` the user ID that the auth
client's configuration took when `NewSessionModel` ran. Actions have the names of the
methods. `Invoke` is `doInvokeMethod` and offers a call only where its screen does.

Run `account` (two addresses of which one has an account already, three users, two
salts, two goroutines, three calls and mishaps, two starts; 2 859 975 states):

- `TokenIsTheUsers`: user and token belong together, always, without exception.
- `WholeLogin`: who is logged in is the user of the address shown.
- `SaltProves`: the cached salt proves the password, so deletion and change of
  address work.
- `SignedOutIsAnonymous`: after signing out or deleting, the session's user has no
  account, or this device is linked to it.
- `QuietHasUser`: a session at rest has a user, unless a request was lost.
- `ProIsTheServers`: the session says pro when the server does.

Two goroutines are enough for a call to be overtaken; three calls are a sign up, a sign
out and a sign in, or a sign in with a recovery before and a deletion after it. Only
safety is stated: users need not call, and servers need not answer.

### DesktopAccount

The desktop differs from the phone in what signing in means: the details of the account
are cached under the session's own user, whose ID and token remain. `cache` is `userCache`,
lost with the process; `settings` survive. `Scan` is the scanner for announcements
that asks whether the user is pro.

Run `desktop_account` (the same bounds, two announcements; 585 265 states): `SaltProves`
as above; `CacheIsOwn`: what is cached under a user is that user's; `NeverProForFree`:
neither the settings nor the cache show a user as pro that the server does not know as
pro; `AnnouncedOnce`: an announcement is shown once, unless the process died between
showing and recording it. Two announcements are needed for the record of one to lose the
other.

## 7. Android

### AndroidProcess and AndroidEngine

AndroidProcess is the promise: a process starts, `Start` answers or the process ends;
it does not stay up without an answer. AndroidEngine is the code behind it: `Start`
waits for the addresses of the proxies and the DNS grabber with a timeout, `run` is run
once, resets the Replica address, starts the check of the features, the Replica
server and the client. `checkAdsEnabled` reads its four paths in four steps and then
writes; the check of the features and the VPN switch both call it.

Run `android_engine` (two starts, three events of the user, the servers or the system):
`ReplicaIsLive`: once this process has reset it, the address in the database is empty or
that of its own server; `ProSeesNoAds`: once the ads were checked for a pro user
none are shown, unless two checks overlapped, in which case the older may write last;
`ImplementsProcess`: the refinement, with its liveness. Two starts are needed for an
address to be stale, three events for a purchase, a switch and a crash.

Fairness: the goroutine of `run` goes on, and the timeout of `Start` passes. A crash
need not come, the features need not be checked.

### AndroidVpn

`switch` is the goroutine or thread in `SwitchVPN` of either the switch or the check on
resume; `toService` and `broadcasts` are what is on its way to the service;
`service` is the instance with what the system remembers; `thread` are the threads of
`LanternVpnService.run`, each with its device; `currentIPP` the device that
`StopTun2Socks` would stop. The threads check that `Start` has answered, which is
AndroidProcess's variable `process`: every step of AndroidVpn is a step of
AndroidProcess or leaves it as it is by construction, so the two modules share only
what AndroidEngine is shown to implement.

Run `android_vpn` (two threads, five events: taps, resumes, answers to dialogs, changes
of the list, failures, revocation, death; 1 798 854 states): `OffMeansOff`,
`ConnectedMeansDevice` and `SplitApplied`, each with the mishaps that break it: a stop
that comes before the device is stored (`early`), a connection switched on while the
last one is ending (`quick`), the check on resume that decides by an old answer or while
a dialog is answered (`crossed`), a service instance that outlived the last connection
(`kept`), a device, consent or process that went (`failed`, `revoked`, `died`), and a
start before `Start` had answered (`unready`). Two threads are needed for the old one to
stop the new one's device; five events are on, off, on with a permission and a
revocation in between. Safety only.

## 8. What is proved

All theorems hold for every value of the constants that satisfies the named
assumptions of their module: any number of connections, dialers, closers, flows,
writes, chunks, setters, windows, goroutines, accounts, users and starts, not just
those of the runs. Each is proved from an inductive
invariant, which a step-by-step proof (one step per action) shows to be preserved.

| module | theorem | statement |
|---|---|---|
| WriteWorker_proof | `TypeCorrect`, `Invariance` | `[]TypeOK`, `[]IInv` |
| | `ResultsAreOwn` | `[]OwnResult` |
| | `DeliveryNeverBlocks` | `[]WorkerNeverBlocked` |
| | `ClosedWritesFail` | `[]WriteAfterCloseFails` |
| | `CloseIsComplete` | `[]CloseReturnsClosed` |
| | `WritesInOrder` | `[]InOrderOnce` |
| ProxiedTCP_proof | `TypeCorrect`, `Invariance`, `LifeInvariance` | `[]TypeOK`, `[]IInv`, `[]LInv` |
| | `AnswersAreReceived` | `[]AnswerHasReceiver` |
| | `UpstreamsAreOwned` | `[]UpstreamHasOneOwner` |
| | `NothingIsLeft` | `[]NothingLeftBehind` |
| | `Implementation` | `ImplementsConnLife`, the refinement of ConnLife |
| TcpCopy_proof | `TypeCorrect`, `Invariance` | `[]TypeOK`, `[]IInv` |
| | `ReadersAreWatched` | `[]ReaderIsWatched` |
| | `ClosedInTime` | `[]ClosedAfterOneEnded` |
| | `ReleasedInTime` | `[]ReleasedWhenBothEnded` |
| IosTunnel_proof | `TypeCorrect`, `Invariance` | `[]TypeOK`, `[]IInv` |
| | `ReceivesOneByOne` | `[]OneReceiveAtATime` |
| | `FailedStaysDead` | `[]FailedConnectIsDead` |
| | `UnchangedIsTrue` | `[]UnchangedIsCurrent` (IosConfig) |
| | `TunnelFollows` | `[]TunnelIsUpToDate` (IosConfig) |
| Desktop_proof | `IdentityStaysWhole` | `[]IdentityNotTorn` |
| | `NoUserIsMissed` | `[]WaitMissesNoUser` |
| | `SettingsAgree` | `[]SynchronizedUnlessOverlapped` |
| | `AccountIsSound` | `[]AccountInv` (DesktopAccount, as the next four) |
| | `ShownAtMostOnce` | `[]AnnouncedOnce` |
| | `CachedSaltIsTheServers` | `[]SaltProves` |
| | `CachedUnderItsOwn` | `[]CacheIsOwn` |
| | `ShownProIsPro` | `[]NeverProForFree` |
| DesktopUI_proof | `ClosedIsNotSentTo` | `[]NoSendOnClosed` |
| | `GreetedIsReached` | `[]ReachesGreeted` |
| | `ExitLeavesNoProxy` | `[]ExitTurnsProxyOff` (SystemProxy) |
| | `SwitchIsTrue` | `[]SwitchTellsTheTruth` (SystemProxy) |
| Account_proof | `TypeCorrect` | `[]TypeOK` |
| | `IdentityStays` | `[]TokenIsTheUsers` |
| | `AlwaysAUser` | `[]QuietHasUser` |
| | `LoginIsWhole` | `[]WholeLogin` |
| | `CachedSaltProves` | `[]SaltProves` |
| | `SignedOutStaysOut` | `[]SignedOutIsAnonymous` |
| | `ProIsRight` | `[]ProIsTheServers` |
| Android_proof | `ReplicaStaysLive` | `[]ReplicaIsLive` |
| | `ProStaysWithoutAds` | `[]ProSeesNoAds` |
| | `EngineIsProcess` | the safety part of `ImplementsProcess` |
| | `OffIsTrue` | `[]OffMeansOff` (AndroidVpn, as the next two) |
| | `ConnectedIsTrue` | `[]ConnectedMeansDevice` |
| | `SplitIsApplied` | `[]SplitApplied` |

Four of the modules hold the proofs of two components of the same program: TunnelUDP and
IosConfig, Settings and DesktopAccount, UIChannel and SystemProxy, AndroidEngine and
AndroidVpn. One of the two specifications has names of its own, so that one module can
extend both: `ConfigSpec`, `DesktopSpec`, `ProxySpec`, `EngineSpec`.

These are all the safety properties that the runs check.
`WorkerNeverBlocked`, `WriteAfterCloseFails`, `CloseReturnsClosed`,
`ClosedAfterOneEnded`, `ReleasedWhenBothEnded` and the TypeOKs need no run of their own
any more: the theorems say of every instance what a run would say of one.

**WriteWorker.** Assumed: the queue has at least one place (`DepthAssumption`), the
bound on the writes is a natural number (`MaxWritesAssumption`) and the mark for
"no task" is not a task (`NoTaskAssumption`). None of the properties is inductive:
`OwnResult` allows a state in which a task of an old write is queued while a new
one waits. `IInv` adds how waiting and tasks are paired. While the result channel
of a connection is open, the writer waits if there is a task of it or a result in
its channel, there is only one of these three (`QueuedIsAwaited`, `QueuedOnce`,
`RunningIsAwaited`, `ResultIsAwaited`), and it has the number of the write in
progress. Once the channel is closed, tasks may be left over, as many as the
connection has written since, but none of them can put a result into the channel;
a result that was there before can only be taken by the write that was waiting,
which began before the close (`ResultIsAwaited`'s last conjunct). `CloseOrder` says
that whoever returns from `Close` has found the channel closed, and `FuturePending`
that a write not begun has returned nothing. `WritesInOrder` has an invariant of
its own, `OrderInv`: every task belongs to a write already begun (`AllBegun`), the
numbers of a connection's tasks increase along the queue (`QueueInOrder`), the task
in hand precedes those (`RunningFirst`), and what has been performed precedes both
(`PerformedFirst`). So even the left-over tasks of a closed connection, which can be
several, are performed in order.

**ProxiedTCP.** Assumed: the mark for "no request" is not a connection, and
connections and dialers are finite sets (needed only to count them). The properties
speak of resources; the invariant says where in the connection's life each of them
is held. A dialer with a request is the only one that has it (`OneDialer`) and has
its `Handle` in the select (`AnswerHasReceiver`); copy exists only after `Handle`
returned (`AnswerOrder`); so an open upstream is with the dialer, the `Handle` or
the copy and never with two (`UpstreamIsHeld`), and the entry, context and downstream
likewise (`ResourcesAreHeld`). `Counted` equates each counter with the cardinality
of the set of connections between its increment and its decrement, which is empty
when all are over. For the refinement, `LInv` adds the converses: a `Handle` in its
select has a dialer (`Answered`), and the upstream is open or closed as the place in
the life requires (`UpstreamFollows`). The bound `MaxDials` holds because mapping each
waiting `Handle` to its dialer is an injection into the dialers other than the idle
one that takes the next request (`DialerIsFree`).

**TcpCopy.** Assumed: the bound on the chunks is a natural number. `ReaderIsWatched`
says that while one direction has ended and the other reads, somebody will close it.
It is kept because the timer can be off only in `keepFresh` or after a waiting
goroutine took its value and is on the way to closing (`WhoTurnedOff`), and a waiting
goroutine goes on only when its direction has ended (`WaiterSawEnd`). `GroupCounts`
and `ClosedByWhom` give the other two.

**TunnelUDP.** Assumed: the bounds are natural numbers and the channel has at least
one place. `ConnectOrder` ties the states of a flow's `Connect`, its NWConnection and
its idle goroutine together; with it, the two properties are inductive.

**Settings.** Assumed: the users and values are finite sets of positive numbers, and who
serves the UI is a setter. `MapsWhole` says of every map there is, in memory, in a
setter's copy, in the file, on its way to the window, that its ID and token are equal;
a file with the tail of a longer one counts by the map in front of it. For
`WaitMissesNoUser`, `UserIsComing` adds who will tell the waiting caller: a setter that has
yet to notify the user ID. For `SynchronizedUnlessOverlapped`, `Followed` says what a
setter on its way has already done: the file is empty before the write and equal to
memory after it, the copies under way are memory (`CopiesAreCurrent`), a listener that
is behind has its name still in `todo`. All of it rests on `OneAtATime`, which is what
"no overlap" means.

**UIChannel.** Assumed: queues have at least one place and the bound on the versions is
a natural number. `NoSendOnClosed` holds because a queue is closed only with the removal of
its connection (`ClosedIsRemoved`), and the connections of the clone that are still to be
sent to are all unremoved (`CloneIsCurrent`), since the goroutine that fans out is the one
that removes. `ReachesGreeted` is about a moment in which nothing is on its way; the
invariant `GreetedIsServed` says it of every moment: a healthy greeted window that has
dropped nothing has the newest message sent, or there is one as new on one of the five
ways to it, due to be greeted, in the service's queue (`InService`, whose last element
is the newest), in the fan-out with the window still to do, in its greetings or in its
queue. Each action moves a message from one way to the next and loses none;
`NotAhead` (nothing sent is newer than the service's version) makes a greeting as good as
the updates it overtakes.

**SystemProxy.** Assumed: the bound on the commands is a natural number. For the exit,
`ExitOnce` says that of the callers of `Exit` one exits and only once, and that its
functions have not begun before it runs them; `ExitFuncClears` that the one of the proxy,
if it is past its own, has turned it off, and is done when the orderly exit is. For the
switch, `InOrder` says where the last command is as long as none came before the one
before it was through, none failed and nobody called `Exit`: nowhere, in the isolate's
queue, in `SysproxyOn`, in the goroutine of `SysProxyOff`, or answered but not yet shown.
Each place has its own relation between the switch, the system and flashlight; for
"off" the answer and the goroutine go on independently, which is why both orders are in
one place (`SwitchingOff`).

**IosConfig.** Assumed: the server has at least one version after the embedded one, the
first of which lists proxies (with no such version there would be nothing to fetch), and the
bound on the faults is a natural number. `EtagInv` says that while a version is saved the
etag stored is older than it, and that the etag of the last version stands for its file.
`TunnelInv` says what is `Pending`: the app remembers that it has to tell the extension
(`needs`), or is about to; until then the addresses may differ, and once nothing is pending,
routes and dialers are those of the file unless the extension is on its way to read it.

**Account.** Assumed: the bounds are natural numbers, there are users and salts, and "no
email" is no address. There are four invariants, each on top of the one before.
`IInv` gives the type of every list of transactions that any goroutine may have left
(`Todo`): a transaction either does not touch the identity, clears the user, or sets ID and
token to the same number. That every operation leaves only such lists is one lemma per
kind of operation; `TokenIsTheUsers` follows, whatever overlaps.
`KInv` adds that nobody, neither session nor server nor goroutine, names a user that the pro
server has not made, so that a user made now is new to all of them.
`HasUser` says that while the session has no user, some goroutine brings one: it is the one
that will create it, or has it among its transactions (`Brings`).
`SoloInv` is about sequences of calls: as long as none overlapped, at most one runs. It is
`Good` when the session that its remaining transactions will make of the present one
(`Ends`: on each path, what the last transaction with that path puts there) is right. "Right"
(`Right`) is the conjunction of the four properties, each with the mishaps it excepts,
reduced where something is still to come after these transactions: a new user after a
deletion, the details of a user just redeemed. `EndsWrite` says that a
transaction written and those left make the session that all were to make, so that writing
needs no case of its own for any operation.

**DesktopAccount.** The assumptions of Account. `AccountInv` holds whatever overlaps, fails or
dies: accounts are of users that exist, one scan runs at a time, and details that say pro,
in the cache or in the hand of a call, are those of a pro user (who is pro stays so).
`ScanInv`: what has been shown is recorded or the one scan is about to record it, and the
list it will record contains the one there is, so that no record is lost to the second
announcement. `SoloInv` is built as Account's; what is still to come is the details after a
device was linked (`Unsure`), which say pro before the server was asked, and the user after
signing out (`Anew`). It adds for the cache that what is kept under a user's ID is that user's.

**AndroidEngine.** Assumed: the bounds are natural numbers. `ReplicaAfterReset` says that no
server runs and no check has begun before the address is reset, and that a process that is
down has no leftovers. `ProSeesNoAds` needs to know of the check under way: one that began for a
pro user will write "none" (`AsProShowsNone`), it is the only one as long as
nothing overlapped (`OneCheck`), and after it has written, every later one is of its kind
(`CheckedStays`).

**AndroidVpn.** Assumed: the mark for "no thread" is not a thread, and the bound on the
events is a natural number. `InstanceOK` ties threads, interfaces and the process to the
instance of the service. Each property has an invariant that holds as long as the
mishaps it excepts have not happened. `SplitOK`: the provider of the instance, and each
thread past it, has a setting no older than when the thread was started. `ConnectedOK`:
whoever starts the service has the user's consent, and so has each connect and each
thread, for which `Start` has answered; and "connected" has a connect on its way or a
thread that comes to serve, with no stop behind it, or a switch that is about to bring
one or to say otherwise. `OffOK`: the other way round, a connect or a live thread behind
the status "disconnected" has a stop on its way that will reach it, because the service
is started and the thread's device is the current one. Both rest on `SoloOK`: without a
quick switch at most one thread runs, and none while a connect is on its way, which is
the first command. The proof found two kinds of histories that the mishaps had left out,
in which a dialog is answered while the check on resume switches; they count as
`crossed`.

What stays with TLC: liveness (`WriteReturns`, `HandleReturns`, `IdleIsClosed`,
`FlowCloses`, `SlowClientIsHarmless`, `ExitEnds`, the fair part of `ImplementsProcess`),
because the prover does not reason about ENABLED and fairness. What the bounds of the runs
leave out is left out there only: the counters of users, salts, calls, starts and events
are parameters of the theorems.

## 9. Where the code differs from what it says

Four of these have a cfg of their own whose only property TLC violates; they are kept
for the reader and are run by hand:

- `tlc -config MC_TcpCopy_leak.cfg TcpCopy` (`EndedIsClosed`): tcp.go:182 logs "opposite
  direction idle for more than closeTimeout, close everything". If the other direction
  is inside `keepFresh` when the waiting goroutine takes the timer's value, `keepFresh`
  (tcp.go:147) waits for a second value that never comes; copy never returns and the
  entry, counter and context stay.
- `tlc -config MC_Settings_lost.cfg Settings` (`SavedAtRest`): settings.go:338 "save saves
  settings to disk". Two overlapping saves (settings.go:346) leave the older map, or a map
  with a tail, on disk.
- `tlc -config MC_UIChannel_gap.cfg UIChannel` (`ReachesEveryClient`): settings.go:222 speaks
  of synchronizing with "every UI client". A window that connects between the greeting of
  the connected windows (service.go:149) and the registration of the service gets neither.
- `tlc -config MC_IosConfig_blank.cfg IosConfig` (`BlankIsIgnored`): config.go:273 logs that
  empty proxies are ignored; by then (config.go:301) they are saved with their etag.

Found while modelling, visible in the code without a checker, and modelled as the code has
them:

- desktop/auth.go:237 says that deletion "creates new user": the created user is dropped
  (line 319), so the session has no user until the next start makes one.
- Signing in on the desktop caches the account's user and leaves the session's; a later
  refetch of the session's user stores that user's email, mostly empty, over the account's.
- lib.go:133 says "update the cache", but only the setting of the expiration is changed.
  Nothing evicts `userCache`: a purchase is not seen by those who look at the cache until
  it is filled again.
- app/pro.go:90 returns the nil of the failed lookup after it has fetched and stored the user.
- settings.go:711 says of `GetInt64Eventually` that it returns a value other than the
  default: it returns 0 when the user is cleared while it waits. Only tests call it.
- app.go:387 says of `OnSettingChange` that "only the last one takes effect": `OnChange`
  appends, all of them do.
- app.go:187: with `Flags.Timeout` the app exits after that time whether or not a proxy
  succeeded, with the message "No succeeding proxy got".
- android.go:628 says that features are checked "not waiting too long for" the location:
  after five seconds the goroutine waits for `globalConfigChanged` (line 637), to which
  nothing is ever sent.
- With neither kind of ads enabled `checkAdsEnabled` writes nothing: what was shown before
  goes on. A purchase does not check the ads again.
- The VPN status on Android stays "connecting" after denied permissions, and "connected"
  after a failed device, a revocation, and a death after which the system brings the service
  back without a command.
- The phone's sign up after a sign out binds the new account to the user of the process's
  start; a change of address keeps the salt of the old one, so that the cached salt proves
  nothing until the next sign in.

## 10. What is not modelled

Parts of modelled components:

- UIChannel: `readLoop` and the queues towards the services (a service whose `In` nobody
  reads fills its thousand places, service.go:211, and then holds up `readLoop`); the data
  race on the map of services in `SendMessage` (service.go:124).
- TunnelUDP: entries of `upstreams` are never deleted, since they are registered and deleted
  under different keys (udp.go:66); a receive that fails once leaves a flow that only sends,
  until its idle time is over (udp.go:60).
- SystemProxy: the exit functions of profiling and OpenTelemetry, the start of the isolate,
  the listener for `SNSystemProxy`.
- IosConfig: hard-coded proxies (empty in this code), global.yaml except as a change; the
  dead end in which the extension does not start without proxies and the app's timer
  fetches none while it does not run (VpnHelper.swift:298).
- Settings and DesktopAccount: that `userConfig` (app/pro.go:22) reads ID and token one after
  the other and can pair two identities.
- Account and the session model: setters of single paths that nothing here reads (language,
  currency, plans, survey link), the cache of plans and payment methods (plans.go), and
  `PollUserData`, which only a test calls.
- AndroidEngine: bandwidth updates and the location only copy values into the session.

Not modelled at all:

- `lib/core/service/websocket.dart`: the timer that reconnects is not stopped when a
  connection succeeds (line 105), so the UI ends up with several; for the Go side each is one
  more window of UIChannel.
- Data cap, statistics, auto-update, web client, analytics, survey, DNS over HTTPS: requests
  and formatting without state that outlives them (their channels are services of
  UIChannel; the listeners of the data cap are never called at this commit).
- `internalsdk/ios/memory.go`: reacts to numbers of the operating system.
- Swift and Kotlin bridges, Flutter screens, generated code, mocks, installers and CI: no
  protocol of their own, apart from the parts named in sections 4, 5 and 7.
- Data races proper: the models assume that single reads and writes are atomic.
