-------------------------- MODULE Launcher_proofs --------------------------
(***************************************************************************)
(* No server is forgotten, whatever the platform and the settings and      *)
(* however often Ctrl+C is pressed.  IndInv of Launcher says why: main()   *)
(* holds every server but the one it is creating, so its clean-up reaches  *)
(* all but a server cut off by Ctrl+C, which has had the signal itself.    *)
(* And main() never goes back, whatever happens to it: it has a number of  *)
(* steps left that only falls.                                             *)
(***************************************************************************)
EXTENDS Launcher, TLAPS

(* A step of the launcher, a server or another program leaves every        *)
(* variable in its range, and main() has a reason to end once it leaves.   *)
LEMMA TypeStep ==
    ASSUME TypeOK, [Next]_vars
    PROVE  TypeOK'
<1>1. CASE Refuse
  BY <1>1 DEF Refuse, End, TypeOK, settings
<1>2. CASE Accept
  BY <1>2 DEF Accept, Goto, TypeOK, Servers, settings, children
<1>3. CASE Spawn
  BY <1>3 DEF Spawn, Goto, TypeOK, settings
<1>4. CASE SpawnFails
  BY <1>4 DEF SpawnFails, Goto, TypeOK, settings, children
<1>5. CASE Guard
  BY <1>5 DEF Guard, TypeOK, settings, children
<1>6. CASE Probe
  BY <1>6, LauncherAssumption DEF Probe, TypeOK, settings, children
<1>7. CASE ProbeFails
  BY <1>7 DEF ProbeFails, Goto, TypeOK, settings, children
<1>8. CASE ProbeSucceeds
  BY <1>8 DEF ProbeSucceeds, Goto, TypeOK, Servers, settings, children
<1>9. CASE NotHealthy
  BY <1>9 DEF NotHealthy, Goto, TypeOK, settings, children
<1>10. CASE Watch
  BY <1>10 DEF Watch, Goto, TypeOK, settings, children
<1>11. CASE LeaveTry
  BY <1>11 DEF LeaveTry, Goto, TypeOK, Servers, settings, children
<1>12. CASE NothingToStop
  BY <1>12 DEF NothingToStop, Stopped, End, Goto, TypeOK, Servers, settings,
     children
<1>13. CASE Terminate
  BY <1>13 DEF Terminate, Goto, TypeOK, settings
<1>14. CASE WaitReturns
  BY <1>14 DEF WaitReturns, Stopped, End, Goto, TypeOK, Servers, settings,
     children
<1>15. CASE WaitExpires
  BY <1>15 DEF WaitExpires, Goto, TypeOK, settings
<1>16. CASE KillExpires
  BY <1>16 DEF KillExpires, End, TypeOK, settings
<1>17. CASE InterruptCaught
  BY <1>17, LauncherAssumption DEF InterruptCaught, Alive, TypeOK, settings
<1>18. CASE InterruptEscapes
  BY <1>18, LauncherAssumption DEF InterruptEscapes, Alive, TypeOK, settings
<1>19. CASE KillLauncher
  BY <1>19 DEF KillLauncher, End, TypeOK, settings
<1>20. ASSUME NEW c \in Servers, Serve(c) \/ Die(c) \/ TakePort(c)
       PROVE  TypeOK'
  <2>1. CASE Serve(c)
    BY <2>1 DEF Serve, TypeOK, settings
  <2>2. CASE Die(c)
    BY <2>2 DEF Die, TypeOK, settings
  <2>3. CASE TakePort(c)
    BY <2>3 DEF TakePort, TypeOK, settings, children
  <2>4. QED BY <1>20, <2>1, <2>2, <2>3
<1>21. CASE UNCHANGED vars
  BY <1>21 DEF vars, TypeOK
<1>22. QED
  BY <1>1, <1>2, <1>3, <1>4, <1>5, <1>6, <1>7, <1>8, <1>9, <1>10, <1>11,
     <1>12, <1>13, <1>14, <1>15, <1>16, <1>17, <1>18, <1>19, <1>20, <1>21 DEF
     Next, Main, Ended

(* Until it leaves the try statement main() holds every server but the one *)
(* it creates.  Ctrl+C turns all that run into servers asked to end.       *)
LEMMA HeldStep ==
    ASSUME TypeOK, TypeOK', Held, [Next]_vars
    PROVE  Held'
<1>1. CASE Refuse
  BY <1>1 DEF Refuse, End, Held, NothingBeforeTheCheck, ServersAreHeld,
     OneServerAtATime, LooseServersGotCtrlC, InterfaceGoesFirst,
     GuardedByAGuard, settings
<1>2. CASE Accept
  BY <1>2 DEF Accept, Goto, Held, NothingBeforeTheCheck, ServersAreHeld,
     OneServerAtATime, LooseServersGotCtrlC, InterfaceGoesFirst,
     GuardedByAGuard, Loose, Alive, settings, children
<1>3. CASE Spawn
  BY <1>3 DEF Spawn, Goto, Held, NothingBeforeTheCheck, ServersAreHeld,
     OneServerAtATime, LooseServersGotCtrlC, InterfaceGoesFirst,
     GuardedByAGuard, Loose, Alive, settings
<1>4. CASE SpawnFails
  BY <1>4 DEF SpawnFails, Goto, Held, NothingBeforeTheCheck, ServersAreHeld,
     OneServerAtATime, LooseServersGotCtrlC, InterfaceGoesFirst,
     GuardedByAGuard, Loose, Alive, settings, children
<1>5. CASE Guard
  BY <1>5 DEF Guard, Held, NothingBeforeTheCheck, ServersAreHeld,
     OneServerAtATime, LooseServersGotCtrlC, InterfaceGoesFirst,
     GuardedByAGuard, Loose, Alive, settings, children
<1>6. CASE Probe
  BY <1>6 DEF Probe, Held, NothingBeforeTheCheck, ServersAreHeld,
     OneServerAtATime, LooseServersGotCtrlC, InterfaceGoesFirst,
     GuardedByAGuard, Loose, Alive, settings, children
<1>7. CASE ProbeFails
  BY <1>7 DEF ProbeFails, Goto, Held, NothingBeforeTheCheck, ServersAreHeld,
     OneServerAtATime, LooseServersGotCtrlC, InterfaceGoesFirst,
     GuardedByAGuard, Loose, Alive, settings, children
<1>8. CASE ProbeSucceeds
  BY <1>8 DEF ProbeSucceeds, Goto, Held, NothingBeforeTheCheck,
     ServersAreHeld, OneServerAtATime, LooseServersGotCtrlC,
     InterfaceGoesFirst, GuardedByAGuard, Loose, Alive, settings, children
<1>9. CASE NotHealthy
  BY <1>9 DEF NotHealthy, Goto, Held, NothingBeforeTheCheck, ServersAreHeld,
     OneServerAtATime, LooseServersGotCtrlC, InterfaceGoesFirst,
     GuardedByAGuard, Loose, Alive, settings, children
<1>10. CASE Watch
  BY <1>10 DEF Watch, Goto, Held, NothingBeforeTheCheck, ServersAreHeld,
     OneServerAtATime, LooseServersGotCtrlC, InterfaceGoesFirst,
     GuardedByAGuard, Loose, Alive, settings, children
<1>11. CASE LeaveTry
  BY <1>11 DEF LeaveTry, Goto, Held, NothingBeforeTheCheck, ServersAreHeld,
     OneServerAtATime, LooseServersGotCtrlC, InterfaceGoesFirst,
     GuardedByAGuard, Loose, Alive, settings, children
<1>12. CASE NothingToStop
  BY <1>12 DEF NothingToStop, Stopped, End, Goto, Held,
     NothingBeforeTheCheck, ServersAreHeld, OneServerAtATime,
     LooseServersGotCtrlC, InterfaceGoesFirst, GuardedByAGuard, Loose, Alive,
     settings, children
<1>13. CASE Terminate
  BY <1>13 DEF Terminate, Goto, Held, NothingBeforeTheCheck, ServersAreHeld,
     OneServerAtATime, LooseServersGotCtrlC, InterfaceGoesFirst,
     GuardedByAGuard, Loose, Alive, settings
<1>14. CASE WaitReturns
  BY <1>14 DEF WaitReturns, Stopped, End, Goto, Held, NothingBeforeTheCheck,
     ServersAreHeld, OneServerAtATime, LooseServersGotCtrlC,
     InterfaceGoesFirst, GuardedByAGuard, Loose, Alive, settings, children
<1>15. CASE WaitExpires
  BY <1>15 DEF WaitExpires, Goto, Held, NothingBeforeTheCheck,
     ServersAreHeld, OneServerAtATime, LooseServersGotCtrlC,
     InterfaceGoesFirst, GuardedByAGuard, Loose, Alive, settings
<1>16. CASE KillExpires
  BY <1>16 DEF KillExpires, End, Held, NothingBeforeTheCheck,
     ServersAreHeld, OneServerAtATime, LooseServersGotCtrlC,
     InterfaceGoesFirst, GuardedByAGuard, settings
<1>17. CASE InterruptCaught
  BY <1>17 DEF TypeOK, InterruptCaught, Held, NothingBeforeTheCheck,
     ServersAreHeld, OneServerAtATime, LooseServersGotCtrlC,
     InterfaceGoesFirst, GuardedByAGuard, Loose, Alive, settings
<1>18. CASE InterruptEscapes
  BY <1>18 DEF InterruptEscapes, Held, NothingBeforeTheCheck,
     ServersAreHeld, OneServerAtATime, LooseServersGotCtrlC,
     InterfaceGoesFirst, GuardedByAGuard, settings
<1>19. CASE KillLauncher
  BY <1>19 DEF KillLauncher, End, Held, NothingBeforeTheCheck,
     ServersAreHeld, OneServerAtATime, LooseServersGotCtrlC,
     InterfaceGoesFirst, GuardedByAGuard, settings
<1>20. ASSUME NEW c \in Servers, Serve(c) \/ Die(c) \/ TakePort(c)
       PROVE  Held'
  <2>1. CASE Serve(c)
    BY <2>1 DEF Serve, Held, NothingBeforeTheCheck, ServersAreHeld,
       OneServerAtATime, LooseServersGotCtrlC, InterfaceGoesFirst,
       GuardedByAGuard, Loose, Alive, settings
  <2>2. CASE Die(c)
    BY <2>2 DEF Die, Held, NothingBeforeTheCheck, ServersAreHeld,
       OneServerAtATime, LooseServersGotCtrlC, InterfaceGoesFirst,
       GuardedByAGuard, Loose, Alive, settings
  <2>3. CASE TakePort(c)
    BY <2>3 DEF TakePort, Held, NothingBeforeTheCheck, ServersAreHeld,
       OneServerAtATime, LooseServersGotCtrlC, InterfaceGoesFirst,
       GuardedByAGuard, Loose, Alive, settings, children
  <2>4. QED BY <1>20, <2>1, <2>2, <2>3
<1>21. CASE UNCHANGED vars
  BY <1>21 DEF vars, Held, NothingBeforeTheCheck, ServersAreHeld,
     OneServerAtATime, LooseServersGotCtrlC, InterfaceGoesFirst,
     GuardedByAGuard, Loose, Alive
<1>22. QED
  BY <1>1, <1>2, <1>3, <1>4, <1>5, <1>6, <1>7, <1>8, <1>9, <1>10, <1>11,
     <1>12, <1>13, <1>14, <1>15, <1>16, <1>17, <1>18, <1>19, <1>20, <1>21 DEF
     Next, Main, Ended

(* The launcher ends: what Held says of its last moment.                   *)
LEMMA EndStep ==
    ASSUME TypeOK, TypeOK', Held, NoServerIsForgotten, CleanExitLeavesNothing,
           [Next]_vars
    PROVE  NoServerIsForgotten' /\ CleanExitLeavesNothing'
<1>1. CASE pc' # "gone"
  BY <1>1 DEF NoServerIsForgotten, CleanExitLeavesNothing
<1>2. CASE pc = "gone"
  <2>1. CASE \E c \in Servers: Serve(c) \/ Die(c) \/ TakePort(c)
    BY <1>2, <2>1 DEF Serve, Die, TakePort, NoServerIsForgotten,
       CleanExitLeavesNothing, Alive, children, TypeOK
  <2>2. CASE UNCHANGED vars
    BY <2>2 DEF vars, NoServerIsForgotten, CleanExitLeavesNothing, Alive
  <2>3. QED
    BY <1>2, <2>1, <2>2 DEF Next, Main, Ended, Refuse, Accept, Spawn,
       SpawnFails, Guard, Probe, ProbeFails, ProbeSucceeds, NotHealthy, Watch,
       LeaveTry, NothingToStop, Terminate, WaitReturns, WaitExpires,
       KillExpires, InterruptCaught, InterruptEscapes, KillLauncher
<1>3. CASE pc # "gone" /\ pc' = "gone"
  <2>1. CASE Refuse
    BY <1>3, <2>1 DEF Refuse, End, NoServerIsForgotten,
       CleanExitLeavesNothing, Alive, Held, NothingBeforeTheCheck
  <2>2. CASE NothingToStop
    BY <1>3, <2>2 DEF NothingToStop, Stopped, End, Goto,
       NoServerIsForgotten, CleanExitLeavesNothing, Alive, TypeOK, Servers,
       Held, LooseServersGotCtrlC, InterfaceGoesFirst, Loose
  <2>3. CASE WaitReturns
    BY <1>3, <2>3 DEF WaitReturns, Stopped, End, Goto,
       NoServerIsForgotten, CleanExitLeavesNothing, Alive, TypeOK, Servers,
       Held, LooseServersGotCtrlC, InterfaceGoesFirst, Loose
  <2>4. CASE KillExpires
    BY <1>3, <2>4, LauncherAssumption DEF KillExpires, End,
       NoServerIsForgotten, CleanExitLeavesNothing, Alive, TypeOK, Held,
       GuardedByAGuard, children
  <2>5. CASE InterruptEscapes
    BY <1>3, <2>5 DEF InterruptEscapes, NoServerIsForgotten,
       CleanExitLeavesNothing, Alive
  <2>6. CASE KillLauncher
    BY <1>3, <2>6, LauncherAssumption DEF KillLauncher, End,
       NoServerIsForgotten, CleanExitLeavesNothing, Alive, TypeOK, Held,
       GuardedByAGuard, children
  <2>7. QED
    BY <1>3, <2>1, <2>2, <2>3, <2>4, <2>5, <2>6 DEF Next, Main, Ended,
       Accept, Spawn, SpawnFails, Guard, Probe, ProbeFails, ProbeSucceeds,
       NotHealthy, Watch, LeaveTry, Terminate, WaitExpires, InterruptCaught,
       Goto, Serve, Die, TakePort, vars
<1>4. QED BY <1>1, <1>2, <1>3

(* The initial states: nothing has been created yet.                       *)
LEMMA InitHolds == Init => IndInv
  BY LauncherAssumption DEF Init, IndInv, Held, NothingBeforeTheCheck,
     ServersAreHeld, OneServerAtATime, LooseServersGotCtrlC,
     InterfaceGoesFirst, GuardedByAGuard, Alive, NoServerIsForgotten,
     CleanExitLeavesNothing, TypeOK, Servers

(* The inductive invariant of main() and its two servers.                  *)
THEOREM IndInvHolds == Spec => []IndInv
<1>1. IndInv /\ [Next]_vars => IndInv'
  BY TypeStep, HeldStep, EndStep DEF IndInv
<1>2. QED BY <1>1, InitHolds, PTL DEF Spec

(* Type correctness of main(), its servers and their signals.              *)
THEOREM LauncherTypeCorrect == Spec => []TypeOK
<1>1. IndInv => TypeOK
  BY DEF IndInv
<1>2. QED BY <1>1, IndInvHolds, PTL

(* A launcher that ends by itself has asked every server left to end.      *)
THEOREM NothingForgotten == Spec => []NoServerIsForgotten
<1>1. IndInv => NoServerIsForgotten
  BY DEF IndInv
<1>2. QED BY <1>1, IndInvHolds, PTL

(* When main() returns, no server it has a handle on is left running.      *)
THEOREM CleanExit == Spec => []CleanExitLeavesNothing
<1>1. IndInv => CleanExitLeavesNothing
  BY DEF IndInv
<1>2. QED BY <1>1, IndInvHolds, PTL

-----------------------------------------------------------------------------
(* The clean-up ends.                                                      *)

(* The steps left at each place.                                           *)
Measured ==
    /\ StepsLeft \in Nat /\ probes \in 0..MaxProbes
    /\ pc = "check" => StepsLeft = 2 * MaxProbes + 15
    /\ pc \in {"spawn", "guard"} /\ target = "api" =>
           StepsLeft = 2 * MaxProbes + (IF pc = "spawn" THEN 14 ELSE 13)
    /\ pc \in {"spawn", "guard"} /\ target = "ui" =>
           StepsLeft = IF pc = "spawn" THEN 10 ELSE 9
    /\ pc \in {"await", "probe"} =>
           StepsLeft = 2 * (MaxProbes - probes) + (IF pc = "await" THEN 12 ELSE 13)
    /\ pc = "watch" => StepsLeft = 8
    /\ pc = "leaving" => StepsLeft = 7
    /\ pc \in {"stop", "wait", "killwait"} =>
           StepsLeft = (IF target = "ui" THEN 3 ELSE 0)
               + (IF pc = "stop" THEN 3 ELSE IF pc = "wait" THEN 2 ELSE 1)
    /\ pc = "gone" => StepsLeft = 0

LEMMA StepsAreMeasured ==
    ASSUME TypeOK
    PROVE  Measured
<1>1. probes \in Nat /\ MaxProbes \in Nat /\ probes <= MaxProbes /\ target \in Servers
      /\ pc \in {"check", "spawn", "guard", "await", "probe", "watch",
                 "leaving", "stop", "wait", "killwait", "gone"}
  BY LauncherAssumption DEF TypeOK
<1>2. QED
  BY <1>1 DEF StepsLeft, Servers, Measured

(* What main() does leaves it fewer steps.                                 *)
LEMMA MainShortens ==
    ASSUME TypeOK, Measured, Measured', Main
    PROVE  StepsLeft' < StepsLeft
<1> USE LauncherAssumption DEF Measured
<1>1. CASE Refuse
  BY <1>1 DEF Refuse, End
<1>2. CASE Accept
  BY <1>2 DEF Accept, Goto
<1>3. CASE Spawn
  BY <1>3 DEF Spawn, Goto, TypeOK, Servers
<1>4. CASE SpawnFails
  BY <1>4 DEF SpawnFails, Goto, TypeOK, Servers
<1>5. CASE Guard
  BY <1>5 DEF Guard, TypeOK, Servers
<1>6. CASE Probe
  BY <1>6 DEF Probe
<1>7. CASE ProbeFails
  BY <1>7 DEF ProbeFails, Goto
<1>8. CASE ProbeSucceeds
  BY <1>8 DEF ProbeSucceeds, Goto
<1>9. CASE NotHealthy
  BY <1>9 DEF NotHealthy, Goto
<1>10. CASE Watch \/ LeaveTry
  BY <1>10 DEF Watch, LeaveTry, Goto
<1>11. CASE NothingToStop
  BY <1>11 DEF NothingToStop, Stopped, Goto, End, TypeOK, Servers
<1>12. CASE Terminate
  BY <1>12 DEF Terminate, Goto
<1>13. CASE WaitReturns
  BY <1>13 DEF WaitReturns, Stopped, Goto, End, TypeOK, Servers
<1>14. CASE WaitExpires
  BY <1>14 DEF WaitExpires, Goto
<1>15. CASE KillExpires
  BY <1>15 DEF KillExpires, End, TypeOK, Servers
<1>16. QED
  BY <1>1, <1>2, <1>3, <1>4, <1>5, <1>6, <1>7, <1>8, <1>9, <1>10, <1>11, <1>12,
     <1>13, <1>14, <1>15 DEF Main

(* What happens to it leaves it no more.                                   *)
LEMMA NothingSetsBack ==
    ASSUME TypeOK, Measured, Measured', [Next]_vars
    PROVE  StepsLeft' <= StepsLeft
<1>1. StepsLeft \in Nat /\ StepsLeft' \in Nat
  BY DEF Measured
<1>2. CASE Main
  BY <1>1, <1>2, MainShortens
<1>3. CASE UNCHANGED <<pc, target, probes>>
  BY <1>1, <1>3 DEF StepsLeft
<1>4. CASE pc' = "gone"
  BY <1>1, <1>4 DEF Measured
<1>5. CASE InterruptCaught
  <2>1. pc' = "leaving" /\ pc \in {"spawn", "guard", "await", "probe", "watch", "leaving"}
    BY <1>5 DEF InterruptCaught
  <2>2. StepsLeft >= 7
    BY <2>1, LauncherAssumption DEF Measured, TypeOK, Servers
  <2>3. QED
    BY <1>1, <2>1, <2>2 DEF Measured
<1>6. CASE InterruptEscapes \/ KillLauncher
  BY <1>4, <1>6 DEF InterruptEscapes, KillLauncher, End
<1>7. CASE UNCHANGED vars \/ \E c \in Servers: Serve(c) \/ Die(c) \/ TakePort(c)
  BY <1>3, <1>7 DEF vars, Serve, Die, TakePort
<1>8. QED
  BY <1>2, <1>5, <1>6, <1>7 DEF Next, Ended

(* main() has a bounded number of steps left and never more than before:   *)
(* what is left to StopAlwaysEnds is that it takes them.                   *)
THEOREM MainAdvances == Spec => [](StepsLeft \in Nat) /\ MainNeverGoesBack
<1>1. IndInv => TypeOK /\ Measured /\ StepsLeft \in Nat
  BY StepsAreMeasured DEF IndInv, Measured
<1>2. TypeOK /\ Measured /\ Measured' /\ [Next]_vars
      => [StepsLeft' <= StepsLeft /\ (Main => StepsLeft' < StepsLeft)]_vars
  BY MainShortens, NothingSetsBack
<1>3. QED
  BY <1>1, <1>2, IndInvHolds, PTL DEF Spec, MainNeverGoesBack
=============================================================================
