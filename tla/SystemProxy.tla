----------------------------- MODULE SystemProxy -----------------------------
(***************************************************************************)
(* The desktop app's start, switch, system proxy and exit                  *)
(* (desktop/app/app.go, sysproxy.go, desktop/lib.go and their callers in   *)
(* lib/).  The switch and the tray of the UI queue commands for an isolate *)
(* of their own: connecting runs SysproxyOn there, disconnecting only      *)
(* starts a goroutine that runs SysProxyOff.  Exit, called by the UI or by *)
(* flashlight on an error, runs the exit functions, one of which turns the *)
(* system proxy off; when the call of the UI returns, the process ends.    *)
(* Run may fail, which setup ignores, or only clear the system proxy that  *)
(* an earlier process has left behind.                                     *)
(*                                                                         *)
(* The operating system's setting, flashlight and the main event loop of   *)
(* the UI are external.                                                    *)
(***************************************************************************)
EXTENDS Integers, Sequences, SequencesExt, FiniteSets

CONSTANT MaxCommands   \* bound: taps on the switch and in the tray

ASSUME BoundAssumption == MaxCommands \in Nat

Callers == {"ui", "flashlight"}          \* of Exit
Funcs == {"sysproxy", "scanner"}         \* exit functions
OffPC == {"addr", "clear", "status"}     \* SysProxyOff

VARIABLES
  run,         \* App.Run: "starting", "failed" or "running"
  clear,       \* the app was started with Flags.ClearProxySettings
  addr,        \* the HTTP proxy's address is known (client.Addr)
  exitFuncs,   \* registered exit functions
  status,      \* what the UI shows: connected or not
  queue,       \* commands sent to the isolate: on or off, from "switch" or "tray"
  current,     \* the command whose SysproxyOn is running
  on,          \* SysproxyOn: "idle", "addr", "set", "status"
  offs,        \* calls of SysProxyOff per place they have reached
  replies,     \* answers to the switch: the status it asked for, or an error
  os,          \* the system's proxy is Lantern
  disconnected,\* Settings' SNDisconnected: flashlight proxies nothing
  scanner,     \* LoconfScanner's goroutine: "none", "checking", "select", "stopped"
  hasExited,
  exit,        \* per caller: "idle", "spawn", "select", "returned"
  snapshot,    \* exit functions runExitFuncs has started
  exitOff,     \* the exit function's SysProxyOff: "none", OffPC, "done"
  scannerStop, \* the exit function of the scanner: "none", "send", "done"
  exited,      \* app.exited is set
  gone,        \* the process has ended
  overlap, failed, late, timedOut,   \* history: see the properties
  commands     \* bound counter

proxyVars == <<run, clear, addr, exitFuncs, status, queue, current, on, offs, replies, os,
               disconnected, scanner, hasExited, exit, snapshot, exitOff, scannerStop, exited, gone,
               overlap, failed, late, timedOut, commands>>
start == <<run, clear, addr, exitFuncs>>
ui == <<status, queue, commands, overlap>>
running == <<current, on>>
proxy == <<os, disconnected>>
history == <<failed, late>>
exiting == <<hasExited, exit, snapshot, exited, timedOut, gone>>
funcs == <<exitOff, scanner, scannerStop>>

NoCommand == [cmd |-> "none", from |-> "none"]
Quiet ==
  /\ queue = <<>> /\ on = "idle" /\ replies = <<>>
  /\ \A p \in OffPC : offs[p] = 0

ProxyInit ==
  /\ run = "starting"
  /\ clear \in BOOLEAN
  /\ addr = FALSE
  /\ exitFuncs = {}
  /\ status = "off"
  /\ queue = <<>>
  /\ current = NoCommand
  /\ on = "idle"
  /\ offs = [p \in OffPC |-> 0]
  /\ replies = <<>>
  /\ os \in BOOLEAN               \* an earlier process may have died without Exit
  /\ disconnected = FALSE
  /\ scanner = "none"
  /\ hasExited = FALSE
  /\ exit = [c \in Callers |-> "idle"]
  /\ snapshot = {}
  /\ exitOff = "none"
  /\ scannerStop = "none"
  /\ exited = FALSE
  /\ gone = FALSE
  /\ overlap = FALSE
  /\ failed = FALSE
  /\ late = FALSE
  /\ timedOut = FALSE
  /\ commands = 0

-----------------------------------------------------------------------------
(* Mutated forms of the actions below: plausible slips in this code that   *)
(* the properties must notice.  No specification uses them.                *)

\* doExit has no timer.
ExitTimeout_Never(c) ==
  /\ FALSE
  /\ UNCHANGED <<proxyVars>>

\* runExitFuncs does not count the functions it starts.
FuncsDone_Uncounted(c) ==
  /\ ~gone /\ exit[c] = "select" /\ snapshot # {}
  /\ exit' = [exit EXCEPT ![c] = "returned"]
  /\ exited' = TRUE
  /\ UNCHANGED <<start, ui, running, offs, replies, proxy, funcs, hasExited, snapshot,
                 timedOut, gone, history>>

\* SysProxyOff returns after clearing.
OffStatus_Silent ==
  /\ ~gone /\ offs["status"] > 0
  /\ offs' = [offs EXCEPT !["status"] = @ - 1]
  /\ UNCHANGED <<start, ui, running, replies, proxy, exiting, funcs, history>>

-----------------------------------------------------------------------------
(* Starting *)

\* Run comes to beforeStart, which starts the loconf scanner, adds its exit function and
\* leaves the rest to flashlight.
BeforeStart ==
  /\ ~gone /\ run = "starting" /\ ~clear
  /\ run' = "running"
  /\ exitFuncs' = exitFuncs \cup {"scanner"}
  /\ scanner' = "checking"
  /\ UNCHANGED <<clear, addr, ui, running, offs, replies, proxy, exiting, exitOff, scannerStop,
                 history>>

\* flashlight.New, the tool that sets the system's proxy (which may ask the user) or a
\* service of the UI fails: Run returns an error that setup drops, and the app stays.
RunFails ==
  /\ ~gone /\ run = "starting"
  /\ run' = "failed"
  /\ UNCHANGED <<clear, addr, exitFuncs, ui, running, offs, replies, proxy, exiting, funcs,
                 history>>

\* A start that only clears what is left of an earlier one, ignoring errors, and ends.
ClearSettings ==
  /\ ~gone /\ run = "starting" /\ clear
  /\ \/ os' = FALSE /\ UNCHANGED failed
     \/ failed' = TRUE /\ UNCHANGED os
  /\ gone' = TRUE
  /\ UNCHANGED <<start, ui, running, offs, replies, disconnected, funcs, hasExited, exit, snapshot,
                 exited, timedOut, late>>

\* flashlight listens (external): from here on client.Addr answers at once.
Listen ==
  /\ ~gone /\ run = "running" /\ ~addr
  /\ addr' = TRUE
  /\ UNCHANGED <<run, clear, exitFuncs, ui, running, offs, replies, proxy, exiting, funcs, history>>

\* afterStart adds its exit function once sendConfigOptions has been to the servers.
AfterStart ==
  /\ ~gone /\ addr
  /\ exitFuncs' = exitFuncs \cup {"sysproxy"}
  /\ exitFuncs' # exitFuncs
  /\ UNCHANGED <<run, clear, addr, ui, running, offs, replies, proxy, exiting, funcs, history>>

-----------------------------------------------------------------------------
(* The UI and its isolate *)

\* A tap while the UI's thread is not in exitApp: the tray shows the new status at
\* once, the switch when it is answered.
Tap(from) ==
  /\ ~gone /\ exit["ui"] = "idle" /\ commands < MaxCommands
  /\ LET cmd == IF status = "on" THEN "off" ELSE "on" IN
       /\ queue' = Append(queue, [cmd |-> cmd, from |-> from])
       /\ status' = IF from = "tray" THEN cmd ELSE status
  /\ commands' = commands + 1
  /\ overlap' = (overlap \/ ~Quiet)
  /\ UNCHANGED <<start, running, offs, replies, proxy, exiting, funcs, history>>

Reply(c, result) ==
  replies' = IF c.from = "switch" THEN Append(replies, result) ELSE replies

\* vpnProcessForDesktop continues: it shows what was asked for, or "off" after an error.
\* The isolate reports an error before it answers, so other answers overtake that one.
StatusReply ==
  /\ ~gone /\ exit["ui"] = "idle"
  /\ \E i \in DOMAIN replies :
       /\ \A j \in 1..(i - 1) : replies[j] = "error"
       /\ status' = IF replies[i] = "on" THEN "on" ELSE "off"
       /\ replies' = RemoveAt(replies, i)
  /\ UNCHANGED <<start, queue, commands, overlap, running, offs, proxy, exiting, funcs, history>>

\* The isolate takes "off": sysProxyOff starts a goroutine and returns.
TakeOff ==
  /\ ~gone /\ on = "idle" /\ queue # <<>> /\ Head(queue).cmd = "off"
  /\ queue' = Tail(queue)
  /\ offs' = [offs EXCEPT !["addr"] = @ + 1]
  /\ Reply(Head(queue), "off")
  /\ UNCHANGED <<start, status, commands, overlap, running, proxy, exiting, funcs, history>>

\* It takes "on" and is busy until SysproxyOn returns.
TakeOn ==
  /\ ~gone /\ on = "idle" /\ queue # <<>> /\ Head(queue).cmd = "on"
  /\ queue' = Tail(queue)
  /\ current' = Head(queue)
  /\ on' = "addr"
  /\ UNCHANGED <<start, status, commands, overlap, offs, replies, proxy, exiting, funcs, history>>

-----------------------------------------------------------------------------
(* SysproxyOn *)

OnAddr ==
  /\ ~gone /\ on = "addr" /\ addr
  /\ on' = "set"
  /\ UNCHANGED <<start, ui, current, offs, replies, proxy, exiting, funcs, history>>

\* No address in five minutes, or sysproxy.On fails.
OnFails ==
  /\ ~gone
  /\ \/ on = "set"
     \/ on = "addr" /\ ~addr
  /\ on' = "idle"
  /\ current' = NoCommand
  /\ Reply(current, "error")
  /\ failed' = TRUE
  /\ UNCHANGED <<start, ui, offs, proxy, exiting, funcs, late>>

OnSet ==
  /\ ~gone /\ on = "set"
  /\ on' = "status"
  /\ os' = TRUE
  /\ late' = (late \/ exitOff \in {"status", "done"})
  /\ UNCHANGED <<start, ui, current, offs, replies, disconnected, exiting, funcs, failed>>

\* sendConnectionStatus(true)
OnStatus ==
  /\ ~gone /\ on = "status"
  /\ on' = "idle"
  /\ current' = NoCommand
  /\ disconnected' = FALSE
  /\ Reply(current, "on")
  /\ UNCHANGED <<start, ui, offs, os, exiting, funcs, history>>

-----------------------------------------------------------------------------
(* SysProxyOff, in the goroutines of sysProxyOff *)

OffAddr ==
  /\ ~gone /\ offs["addr"] > 0 /\ addr
  /\ offs' = [offs EXCEPT !["addr"] = @ - 1, !["clear"] = @ + 1]
  /\ UNCHANGED <<start, ui, running, replies, proxy, exiting, funcs, history>>

OffFails ==
  /\ ~gone
  /\ \/ offs["addr"] > 0 /\ ~addr /\ offs' = [offs EXCEPT !["addr"] = @ - 1]
     \/ offs["clear"] > 0 /\ offs' = [offs EXCEPT !["clear"] = @ - 1]
  /\ failed' = TRUE
  /\ UNCHANGED <<start, ui, running, replies, proxy, exiting, funcs, late>>

OffClear ==
  /\ ~gone /\ offs["clear"] > 0
  /\ offs' = [offs EXCEPT !["clear"] = @ - 1, !["status"] = @ + 1]
  /\ os' = FALSE
  /\ UNCHANGED <<start, ui, running, replies, disconnected, exiting, funcs, history>>

\* sendConnectionStatus(false)
OffStatus ==
  /\ ~gone /\ offs["status"] > 0
  /\ offs' = [offs EXCEPT !["status"] = @ - 1]
  /\ disconnected' = TRUE
  /\ UNCHANGED <<start, ui, running, replies, os, exiting, funcs, history>>

-----------------------------------------------------------------------------
(* Exit *)

\* The first caller exits, every other one returns.
Exit(c) ==
  /\ ~gone /\ exit[c] = "idle"
  /\ exit' = [exit EXCEPT ![c] = IF hasExited THEN "returned" ELSE "spawn"]
  /\ hasExited' = TRUE
  /\ UNCHANGED <<start, ui, running, offs, replies, proxy, funcs, snapshot, exited, timedOut,
                 gone, history>>

\* runExitFuncs starts the functions that are registered now.
RunExitFuncs(c) ==
  /\ ~gone /\ exit[c] = "spawn"
  /\ exit' = [exit EXCEPT ![c] = "select"]
  /\ snapshot' = exitFuncs
  /\ exitOff' = IF "sysproxy" \in exitFuncs THEN "addr" ELSE exitOff
  /\ scannerStop' = IF "scanner" \in exitFuncs THEN "send" ELSE scannerStop
  /\ UNCHANGED <<start, ui, running, offs, replies, proxy, scanner, hasExited, exited,
                 timedOut, gone, history>>

FuncsFinished ==
  ("sysproxy" \in snapshot => exitOff = "done") /\ ("scanner" \in snapshot => scannerStop = "done")

\* wg.Wait returns: all of them have.
FuncsDone(c) ==
  /\ ~gone /\ exit[c] = "select" /\ FuncsFinished
  /\ exit' = [exit EXCEPT ![c] = "returned"]
  /\ exited' = TRUE
  /\ UNCHANGED <<start, ui, running, offs, replies, proxy, funcs, hasExited, snapshot,
                 timedOut, gone, history>>

\* Ten seconds are over.
ExitTimeout(c) ==
  /\ ~gone /\ exit[c] = "select" /\ ~FuncsFinished
  /\ exit' = [exit EXCEPT ![c] = "returned"]
  /\ exited' = TRUE
  /\ timedOut' = TRUE
  /\ UNCHANGED <<start, ui, running, offs, replies, proxy, funcs, hasExited, snapshot, gone,
                 history>>

\* exitApp has returned; the UI calls exit(0).
ProcessExit ==
  /\ ~gone /\ exit["ui"] = "returned"
  /\ gone' = TRUE
  /\ UNCHANGED <<start, ui, running, offs, replies, proxy, funcs, hasExited, exit, snapshot,
                 exited, timedOut, history>>

\* The exit function "turning off system proxy".
ExitOff ==
  /\ ~gone
  /\ \/ /\ exitOff = "addr" /\ addr
        /\ exitOff' = "clear" /\ UNCHANGED <<proxy, failed>>
     \/ /\ exitOff = "clear"
        /\ exitOff' = "status" /\ os' = FALSE /\ UNCHANGED <<disconnected, failed>>
     \/ /\ exitOff = "clear"
        /\ exitOff' = "done" /\ failed' = TRUE /\ UNCHANGED proxy
     \/ /\ exitOff = "status"
        /\ exitOff' = "done" /\ disconnected' = TRUE /\ UNCHANGED <<os, failed>>
  /\ UNCHANGED <<start, ui, running, offs, replies, exiting, scanner, scannerStop, late>>

\* The scanner's goroutine: checker() takes its time, then the ticker or chStop.
ScannerChecked ==
  /\ ~gone /\ scanner = "checking"
  /\ scanner' = "select"
  /\ UNCHANGED <<start, ui, running, offs, replies, proxy, exiting, exitOff, scannerStop, history>>

ScannerTick ==
  /\ ~gone /\ scanner = "select"
  /\ scanner' = "checking"
  /\ UNCHANGED <<start, ui, running, offs, replies, proxy, exiting, exitOff, scannerStop, history>>

\* The exit function "stopping loconf scanner": chStop <- true
ScannerStop ==
  /\ ~gone /\ scannerStop = "send" /\ scanner = "select"
  /\ scannerStop' = "done"
  /\ scanner' = "stopped"
  /\ UNCHANGED <<start, ui, running, offs, replies, proxy, exiting, exitOff, history>>

-----------------------------------------------------------------------------
ProxyNext ==
  \/ BeforeStart \/ RunFails \/ ClearSettings \/ Listen \/ AfterStart
  \/ \E from \in {"switch", "tray"} : Tap(from)
  \/ StatusReply \/ TakeOff \/ TakeOn
  \/ OnAddr \/ OnFails \/ OnSet \/ OnStatus
  \/ OffAddr \/ OffFails \/ OffClear \/ OffStatus
  \/ \E c \in Callers : Exit(c) \/ RunExitFuncs(c) \/ FuncsDone(c) \/ ExitTimeout(c)
  \/ ProcessExit \/ ExitOff
  \/ ScannerChecked \/ ScannerTick \/ ScannerStop

ProxySpec == ProxyInit /\ [][ProxyNext]_proxyVars

\* The goroutine of Exit runs on, and ten seconds pass.
ProxyFairSpec ==
  ProxySpec /\ \A c \in Callers :
    WF_proxyVars(RunExitFuncs(c)) /\ WF_proxyVars(FuncsDone(c) \/ ExitTimeout(c))
-----------------------------------------------------------------------------
(* Properties *)

\* An exit in time leaves a system without Lantern as its proxy: once afterStart has
\* registered the exit function for that, app.exited is not set before the function has
\* cleared the proxy, whatever commands are running, unless clearing fails or a SysproxyOn
\* sets it once more afterwards.
ExitTurnsProxyOff ==
  exited /\ ~timedOut /\ "sysproxy" \in snapshot /\ ~failed /\ ~late => ~os

\* At rest, after commands that did not overlap and did not fail, the switch shows the
\* system's setting, and flashlight proxies exactly what the system sends to it.
SwitchTellsTheTruth ==
  Quiet /\ ~overlap /\ ~failed /\ ~hasExited /\ commands > 0 =>
    /\ (status = "on") = os
    /\ disconnected = ~os

\* An app that is told to exit does so within the ten seconds, whatever its exit functions
\* wait for: an address that is never known, a scanner that is still fetching.
ExitEnds == hasExited ~> (exited \/ gone)
=============================================================================
