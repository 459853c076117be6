------------------------------ MODULE Launcher ------------------------------
(***************************************************************************)
(* python scripts/run.py: the launcher starts the API, waits until it      *)
(* answers, starts the interface, watches both and stops both on the way   *)
(* out.  The servers are processes of their own: they may die at any       *)
(* moment and take their time to obey.  Ctrl+C reaches the launcher and    *)
(* the servers (one terminal), between any two steps; killing the launcher *)
(* reaches the launcher alone.  Other programs may take a port.            *)
(***************************************************************************)
EXTENDS Naturals

CONSTANTS
    Guards,         \* what ProcessGuard may find: "job" (Windows),
                    \* "pdeathsig" (Linux), "none" (elsewhere, or no job)
    Settings,       \* what a variable may be: see Usable
    MaxProbes,      \* bound of the model: questions before the deadline
    MaxInterrupts   \* bound of the model: Ctrl+C

ASSUME LauncherAssumption ==
    /\ Guards # {} /\ Guards \subseteq {"job", "pdeathsig", "none"}
    /\ Settings \subseteq {"unset", "empty", "bad", "good"}
    /\ MaxProbes \in Nat /\ MaxInterrupts \in Nat

Servers == {"api", "ui"}

VARIABLES
    environ, dotenv,    \* a required setting in the environment and in .env
    guard,
    taken,          \* servers whose port another program listens on
    pc,             \* where main() is
    target,         \* the server main() is starting or stopping
    code,           \* why main() ends: its return value, or an exception
    server,         \* "none", "starting", "serving", "dead"
    asked,          \* servers that have got SIGTERM or SIGINT
    killed,         \* servers that have got SIGKILL
    handle,         \* servers the variables api and ui of main() hold
    guarded,        \* servers that die with the launcher
    probes,         \* GET /health sent
    interrupts

settings == <<environ, dotenv, guard>>
children == <<server, asked, killed>>
vars == <<environ, dotenv, guard, taken, pc, target, code, server, asked,
          killed, handle, guarded, probes, interrupts>>

TypeOK ==
    /\ {environ, dotenv} \subseteq Settings /\ guard \in Guards
    /\ {taken, asked, killed, handle, guarded} \subseteq SUBSET Servers
    /\ pc \in {"check", "spawn", "guard", "await", "probe", "watch",
               "leaving", "stop", "wait", "killwait", "gone"}
    /\ target \in Servers
    /\ code \in {"none", "0", "1", "2", "oserror", "interrupt", "timeout", "killed"}
    /\ server \in [Servers -> {"none", "starting", "serving", "dead"}]
    /\ probes \in 0..MaxProbes /\ interrupts \in 0..MaxInterrupts
    /\ (pc \in {"leaving", "stop", "wait", "killwait", "gone"}) = (code # "none")

Init ==
    /\ environ \in Settings /\ dotenv \in Settings /\ guard \in Guards
    /\ taken \in SUBSET Servers
    /\ pc = "check" /\ target = "api" /\ code = "none"
    /\ server = [c \in Servers |-> "none"]
    /\ asked = {} /\ killed = {} /\ handle = {} /\ guarded = {}
    /\ probes = 0 /\ interrupts = 0

Alive == {c \in Servers: server[c] \in {"starting", "serving"}}

(* check_environment takes an empty variable for a missing one; load_dotenv *)
(* of the API does not, and leaves it empty.                                *)
Checked == IF environ \in {"unset", "empty"} THEN dotenv ELSE environ
Loaded == IF environ = "unset" THEN dotenv ELSE environ

PortsAreFree == taken = {}

(* What keeps a server that has been created from ever serving.            *)
CannotServe(c) == c \in taken \/ (c = "api" /\ Loaded # "good")

-----------------------------------------------------------------------------
(* The launcher is no more.  The kernel turns on the guarded servers:      *)
(* closing the job kills them, PR_SET_PDEATHSIG sends them SIGTERM.        *)
End(why) ==
    /\ pc' = "gone" /\ code' = why
    /\ killed' = (IF guard = "job" THEN killed \cup (guarded \cap Alive) ELSE killed)
    /\ asked' = (IF guard = "pdeathsig" THEN asked \cup (guarded \cap Alive) ELSE asked)
    /\ UNCHANGED <<settings, taken, target, server, handle, guarded, probes, interrupts>>

Goto(place, why) ==
    /\ pc' = place /\ code' = why
    /\ UNCHANGED <<settings, taken, handle, guarded, probes, interrupts>>

-----------------------------------------------------------------------------
(* Plausible bugs.  No action uses these definitions.                      *)

(* popen outside the try statement.                                        *)
SpawnFailsOutside ==
    /\ pc = "spawn" /\ End("oserror")

(* Only the interface is watched.                                          *)
WatchUi ==
    /\ pc = "watch" /\ server["ui"] = "dead"
    /\ Goto("leaving", "1") /\ UNCHANGED <<target, children>>

(* process.wait() without a timeout.                                       *)
WaitForever == FALSE /\ UNCHANGED vars

(* TimeoutExpired is taken for the end of the process.                     *)
WaitGivesUp ==
    /\ pc = "wait"
    /\ IF target = "ui" THEN Goto("stop", code) /\ target' = "api" /\ UNCHANGED children
       ELSE End(code)

(* wait_until_healthy without its deadline.                                *)
ProbeForever ==
    /\ pc = "await" /\ "api" \in Alive
    /\ pc' = "probe" /\ probes' = probes + 1
    /\ UNCHANGED <<settings, taken, target, code, children, handle, guarded, interrupts>>

-----------------------------------------------------------------------------
(* Before the try statement.                                               *)
Refuse ==
    /\ pc = "check" /\ (Checked # "good" \/ ~PortsAreFree)
    /\ End("2")

Accept ==
    /\ pc = "check" /\ Checked = "good" /\ PortsAreFree
    /\ Goto("spawn", code) /\ target' = "api" /\ UNCHANGED children

(* subprocess.Popen, and then the guard and the assignment to api or ui:   *)
(* the process exists before main() knows it.                              *)
Spawn ==
    /\ pc = "spawn"
    /\ server' = [server EXCEPT ![target] = "starting"]
    /\ Goto("guard", code) /\ UNCHANGED <<target, asked, killed>>

SpawnFails ==
    /\ pc = "spawn"
    /\ Goto("leaving", "oserror") /\ UNCHANGED <<target, children>>

(* The job may refuse a process (a warning is printed).                    *)
Guard ==
    /\ pc = "guard"
    /\ handle' = handle \cup {target}
    /\ guarded' \in {guarded, guarded \cup {target}}
    /\ guard = "none" => guarded' = guarded
    /\ guard = "pdeathsig" => target \in guarded'
    /\ pc' = (IF target = "api" THEN "await" ELSE "watch")
    /\ UNCHANGED <<settings, taken, target, code, children, probes, interrupts>>

(* wait_until_healthy: the deadline and alive() are tested, then /health   *)
(* is asked of whoever listens on the port.                                *)
Probe ==
    /\ pc = "await" /\ "api" \in Alive /\ probes < MaxProbes
    /\ pc' = "probe" /\ probes' = probes + 1
    /\ UNCHANGED <<settings, taken, target, code, children, handle, guarded, interrupts>>

ProbeFails ==
    /\ pc = "probe"
    /\ Goto("await", code) /\ UNCHANGED <<target, children>>

ProbeSucceeds ==
    /\ pc = "probe" /\ (server["api"] = "serving" \/ "api" \in taken)
    /\ Goto("spawn", code) /\ target' = "ui" /\ UNCHANGED children

NotHealthy ==
    /\ pc = "await"
    /\ Goto("leaving", "1") /\ UNCHANGED <<target, children>>

SomeServerDied == \E c \in Servers: server[c] = "dead"

Watch ==
    /\ pc = "watch" /\ SomeServerDied
    /\ Goto("leaving", "1") /\ UNCHANGED <<target, children>>

-----------------------------------------------------------------------------
(* finally: _stop(ui), then _stop(api).                                    *)
Stopped ==
    IF target = "ui" THEN Goto("stop", code) /\ target' = "api" /\ UNCHANGED children
    ELSE End(code)

LeaveTry ==
    /\ pc = "leaving"
    /\ Goto("stop", code) /\ target' = "ui" /\ UNCHANGED children

NothingToStop ==
    /\ pc = "stop" /\ (target \notin handle \/ target \notin Alive)
    /\ Stopped

Terminate ==
    /\ pc = "stop" /\ target \in handle \cap Alive
    /\ asked' = asked \cup {target}
    /\ Goto("wait", code) /\ UNCHANGED <<target, server, killed>>

WaitReturns ==
    /\ pc \in {"wait", "killwait"} /\ target \notin Alive
    /\ Stopped

WaitExpires ==
    /\ pc = "wait" /\ target \in Alive
    /\ killed' = killed \cup {target}
    /\ Goto("killwait", code) /\ UNCHANGED <<target, server, asked>>

(* The second TimeoutExpired leaves the finally clause.                    *)
KillExpires ==
    /\ pc = "killwait" /\ target \in Alive
    /\ End("timeout")

-----------------------------------------------------------------------------
(* KeyboardInterrupt: caught within try, and even then the finally clause  *)
(* runs.  Before try, and in the finally clause, it leaves main().         *)
InterruptCaught ==
    /\ interrupts < MaxInterrupts
    /\ pc \in {"spawn", "guard", "await", "probe", "watch", "leaving"}
    /\ pc' = "leaving"
    /\ code' = (IF pc = "leaving" THEN "interrupt" ELSE "0")
    /\ interrupts' = interrupts + 1 /\ asked' = asked \cup Alive
    /\ UNCHANGED <<settings, taken, target, server, killed, handle, guarded, probes>>

InterruptEscapes ==
    /\ interrupts < MaxInterrupts
    /\ pc \in {"check", "stop", "wait", "killwait"}
    /\ pc' = "gone" /\ code' = "interrupt"
    /\ interrupts' = interrupts + 1 /\ asked' = asked \cup Alive
    /\ killed' = (IF guard = "job" THEN killed \cup (guarded \cap Alive) ELSE killed)
    /\ UNCHANGED <<settings, taken, target, server, handle, guarded, probes>>

(* taskkill, or the terminal is closed.                                    *)
KillLauncher == pc # "gone" /\ End("killed")

Serve(c) ==
    /\ server[c] = "starting" /\ ~CannotServe(c) /\ c \notin killed
    /\ server' = [server EXCEPT ![c] = "serving"]
    /\ UNCHANGED <<settings, taken, pc, target, code, asked, killed, handle,
                   guarded, probes, interrupts>>

Die(c) ==
    /\ c \in Alive
    /\ server' = [server EXCEPT ![c] = "dead"]
    /\ UNCHANGED <<settings, taken, pc, target, code, asked, killed, handle,
                   guarded, probes, interrupts>>

TakePort(c) ==
    /\ c \notin taken /\ server[c] # "serving"
    /\ taken' = taken \cup {c}
    /\ UNCHANGED <<settings, pc, target, code, children, handle, guarded,
                   probes, interrupts>>

Ended == pc = "gone" /\ UNCHANGED vars

Main ==
    \/ Refuse \/ Accept \/ Spawn \/ SpawnFails \/ Guard
    \/ Probe \/ ProbeFails \/ ProbeSucceeds \/ NotHealthy \/ Watch
    \/ LeaveTry \/ NothingToStop \/ Terminate
    \/ WaitReturns \/ WaitExpires \/ KillExpires

Next ==
    \/ Main \/ InterruptCaught \/ InterruptEscapes \/ KillLauncher
    \/ \E c \in Servers: Serve(c) \/ Die(c) \/ TakePort(c)
    \/ Ended

(* The launcher runs; a server that cannot bind its port or read its       *)
(* settings exits, one that has got SIGKILL dies.  That one which was      *)
(* asked to end ever does is not assumed: it may be in a Gemini call.      *)
Fairness ==
    /\ WF_vars(Main)
    /\ \A c \in Servers:
         WF_vars(Die(c) /\ (c \in killed \/ (server[c] = "starting" /\ CannotServe(c))))

Spec == Init /\ [][Next]_vars /\ Fairness

-----------------------------------------------------------------------------
(* The launcher that ends by itself has at least asked every server to end *)
(* (Ctrl+C asks those its clean-up no longer reaches).  What may be left   *)
(* without a word: servers without a guard, after the launcher was killed  *)
(* or after an interface that even SIGKILL did not end in five seconds.    *)
NoServerIsForgotten ==
    pc = "gone" => \A c \in Alive:
        c \in asked \cup killed \/ (c \notin guarded /\ code \in {"killed", "timeout"})

(* When main() returns, no server of its runs, but for one that was being  *)
(* created when Ctrl+C came: main() has no handle on it, and it got the    *)
(* Ctrl+C itself.                                                          *)
CleanExitLeavesNothing ==
    (pc = "gone" /\ code \in {"0", "1", "2", "oserror"}) =>
        \A c \in Alive: c \notin handle /\ c \in asked /\ interrupts > 0

(* The inductive invariant behind the two: until it leaves the try         *)
(* statement, main() holds every server but the one being created; after   *)
(* that, a server it does not hold is one that Ctrl+C cut off, and got it. *)
Loose == Alive \ handle

NothingBeforeTheCheck == pc = "check" => Alive = {}
ServersAreHeld ==
    pc \in {"spawn", "await", "probe", "watch"} => Loose = {}
OneServerAtATime == pc = "guard" => Loose \subseteq {target}
LooseServersGotCtrlC ==
    pc \in {"leaving", "stop", "wait", "killwait"} =>
        Loose \subseteq asked /\ (Loose # {} => interrupts > 0)
InterfaceGoesFirst ==
    (pc \in {"stop", "wait", "killwait"} /\ target = "api") => "ui" \notin handle \cap Alive
GuardedByAGuard == guard = "none" => guarded = {}

Held ==
    /\ NothingBeforeTheCheck /\ ServersAreHeld /\ OneServerAtATime
    /\ LooseServersGotCtrlC /\ InterfaceGoesFirst /\ GuardedByAGuard

IndInv == TypeOK /\ Held /\ NoServerIsForgotten /\ CleanExitLeavesNothing

(* The clean-up ends even if a server does not obey SIGTERM.               *)
StopAlwaysEnds == pc = "leaving" ~> pc = "gone"

(* Why: main() never goes back.  Each of its steps leaves it fewer, on its *)
(* way up (the deadline bounds the probes) as on its way down (SIGTERM, a  *)
(* wait, SIGKILL, a wait, for one server after the other), and no Ctrl+C,  *)
(* server or other program adds one.                                       *)
StepsLeft ==
    LET probesLeft == 2 * (MaxProbes - probes)
        apiToStart == IF target = "api" THEN 2 * MaxProbes + 4 ELSE 0
        apiToStop == IF target = "ui" THEN 3 ELSE 0
    IN [check |-> 2 * MaxProbes + 15,
        spawn |-> 10 + apiToStart, guard |-> 9 + apiToStart,
        await |-> 12 + probesLeft, probe |-> 13 + probesLeft,
        watch |-> 8, leaving |-> 7,
        stop |-> 3 + apiToStop, wait |-> 2 + apiToStop, killwait |-> 1 + apiToStop,
        gone |-> 0][pc]

MainNeverGoesBack ==
    [][StepsLeft' <= StepsLeft /\ (Main => StepsLeft' < StepsLeft)]_vars

(* One server down, or unable to start although "ready" was printed (its   *)
(* port was taken after the check, perhaps by a program whose answer was   *)
(* mistaken for the API's): the other one is stopped.                      *)
OneDownBothDown ==
    (pc = "watch" /\ (SomeServerDied \/ \E c \in Servers: server[c] = "starting" /\ CannotServe(c)))
        ~> (pc = "gone" /\ (Alive = {} \/ code \in {"interrupt", "timeout", "killed"}))

(* ProcessGuard: "Make the child servers die with the launcher, even if    *)
(* the launcher is killed", but for those it warned about.                 *)
KillReachesEveryServer ==
    (pc = "gone" /\ code = "killed" /\ guard # "none") =>
        \A c \in Alive: c \in asked \cup killed \/ (c \in handle /\ c \notin guarded)
=============================================================================
