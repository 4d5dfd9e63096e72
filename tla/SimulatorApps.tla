---------------------------- MODULE SimulatorApps ----------------------------
(***************************************************************************)
(* Applications on simulators: install, uninstall, launch-app, kill-app    *)
(* and is-installed of Devices/Simulator.m, with simulate-location, on top *)
(* of the life cycle they call into.  The commands of all processes        *)
(* concern one bundle ID.                                                  *)
(*                                                                         *)
(* stage says what a client was doing when it called boot, shutdown or     *)
(* killSimulatorApp, and so where it goes on when the procedure returns.   *)
(***************************************************************************)
EXTENDS SimulatorLifecycle

CONSTANT Versions   \* versions of the app, and what is in its bundle

None == "none"

ASSUME AppsAssumption == None \notin Versions

VARIABLES bundle,      \* the version installed on each simulator, or None
          ghost,       \* CoreSimulator still lists an app that was removed
          version,     \* the version each client is asked to install
          force,       \* --force
          tries,       \* installation attempts begun
          stage,       \* the caller of the running procedure
          interfered,  \* history: another client changed the app on the
                       \* target since this one began, or last changed or saw it
          unheard      \* history: the listing uninstall-app asked for last failed

device == <<bundle, ghost>>
locals == <<version, force, tries, stage>>
history == <<interfered, unheard>>
appVars == <<device, locals, history>>
allVars == <<vars, appVars>>

Tries == 5   \* NSUInteger tries = 5

AppsInit ==
  /\ Init
  /\ bundle \in [Sims -> Versions \cup {None}]
  /\ ghost = [s \in Sims |-> FALSE]
  /\ version = [c \in Clients |-> None]
  /\ force = [c \in Clients |-> FALSE]
  /\ tries = [c \in Clients |-> 0]
  /\ stage = [c \in Clients |-> "none"]
  /\ interfered = [c \in Clients |-> FALSE]
  /\ unheard = [c \in Clients |-> FALSE]

-----------------------------------------------------------------------------
\* Client c goes on at there, calls a procedure on its target, or ends.
Continue(c, there) == Goes(c, there) /\ UNCHANGED locals

Call(c, procedure, from) ==
  /\ Goto(c, procedure)
  /\ stage' = [stage EXCEPT ![c] = from]
  /\ sim' = [sim EXCEPT ![c] = target[c]]
  /\ UNCHANGED <<cmd, target, victims, todo, result, version, force, tries>>

Exit(c, code) ==
  /\ Answer(c, code)
  /\ tries' = [tries EXCEPT ![c] = 0]
  /\ stage' = [stage EXCEPT ![c] = "none"]
  /\ UNCHANGED <<version, force>>

\* Nothing but the client's own place and locals changes.
Locally == UNCHANGED <<devVars, disturbed, device, history>>

\* Client c changes the app on its target.
Change(c, v, listed) ==
  /\ bundle' = [bundle EXCEPT ![target[c]] = v]
  /\ ghost' = [ghost EXCEPT ![target[c]] = listed]
  /\ interfered' = [d \in Clients |->
                      /\ d # c /\ pc[d] \notin {"idle", "done"}
                      /\ interfered[d] \/ target[d] = target[c]]
  /\ UNCHANGED unheard

\* Client c has just seen the app on its target to be as it should.
Sees(c) == /\ interfered' = [interfered EXCEPT ![c] = FALSE]
           /\ UNCHANGED <<devVars, disturbed, device, unheard>>

\* isInstalled:withError: of the target.  The listing names apps that are
\* gone; it may fail at any time, which reads as NO.
Listed(c) == bundle[target[c]] # None \/ ghost[target[c]]

Hears(c, yes) == /\ yes = Listed(c)
                 /\ unheard' = [unheard EXCEPT ![c] = FALSE]
                 /\ interfered' = [interfered EXCEPT ![c] = yes /\ @]

HearsNothing(c) == /\ unheard' = [unheard EXCEPT ![c] = cmd[c] = "uninstall"]
                   /\ UNCHANGED interfered

Asks(c, yes) == /\ Hears(c, yes) \/ (~yes /\ HearsNothing(c))
                /\ UNCHANGED <<devVars, disturbed, device>>

-----------------------------------------------------------------------------
(***************************************************************************)
(* uninstallApp:, a command and a step of installApp:, which does not look *)
(* at what it returns.                                                     *)
(***************************************************************************)
Uninstalled(c, code) ==
  \/ /\ cmd[c] = "uninstall"
     /\ IF code = "EverythingOkay" THEN Continue(c, "okay") ELSE Exit(c, code)
  \/ cmd[c] = "install" /\ Continue(c, "resign")

\* Whatever killSimulatorApp returned, the simulator is booted again.
UninstallKilled(c) ==
  /\ stage[c] = "uninstallKill" /\ pc[c] \in {"killYES", "killNO"}
  /\ Call(c, "boot", "uninstallBoot")
  /\ Locally

UninstallBooted(c) ==
  /\ stage[c] = "uninstallBoot"
  /\ \/ At(c, "bootNO") /\ Uninstalled(c, "GenericFailure")
     \/ At(c, "bootYES") /\ Continue(c, "listed")
  /\ Locally

UninstallListed(c) ==
  /\ At(c, "listed")
  /\ \/ Asks(c, TRUE) /\ Continue(c, "issueUninstall")
     \/ Asks(c, FALSE) /\ Uninstalled(c, "GenericFailure")

\* With Simulator.app running the bundle goes but may stay listed.
IssueUninstall(c) ==
  /\ At(c, "issueUninstall")
  /\ \/ /\ state[target[c]] = "Booted"
        /\ \E listed \in BOOLEAN :
             /\ listed => \E a \in Apps : app[a] = "running"
             /\ Change(c, None, listed)
        /\ UNCHANGED <<devVars, disturbed>>
        /\ Continue(c, "stillListed")
     \/ Uninstalled(c, "InternalError") /\ Locally

UninstallAgain(c) == \* variant: an app still listed is uninstalled once more
  /\ At(c, "stillListed")
  /\ \/ Asks(c, FALSE) /\ Uninstalled(c, "EverythingOkay")
     \/ Asks(c, TRUE) /\ Continue(c, "issueUninstall")

UninstallChecked(c) ==
  /\ At(c, "stillListed")
  /\ \/ Asks(c, FALSE) /\ Uninstalled(c, "EverythingOkay")
     \/ Asks(c, TRUE) /\ Call(c, "shutdown", "rebootDown")

\* [self shutdown]; [self boot]; neither result is looked at.
Reboot(c) ==
  /\ \/ /\ stage[c] = "rebootDown" /\ pc[c] \in {"shutdownYES", "shutdownNO"}
        /\ Call(c, "boot", "rebootUp")
     \/ /\ stage[c] = "rebootUp" /\ pc[c] \in {"bootYES", "bootNO"}
        /\ Continue(c, "listedAgain")
  /\ Locally

UninstallUnchecked(c) == \* variant: after the reboot nothing is asked again
  /\ At(c, "listedAgain") /\ Uninstalled(c, "EverythingOkay") /\ Locally

UninstallRebooted(c) ==
  /\ At(c, "listedAgain")
  /\ \/ Asks(c, TRUE) /\ Uninstalled(c, "InternalError")
     \/ Asks(c, FALSE) /\ Uninstalled(c, "EverythingOkay")

Uninstall(c) == \/ UninstallKilled(c) \/ UninstallBooted(c) \/ UninstallListed(c)
                \/ IssueUninstall(c) \/ UninstallChecked(c) \/ Reboot(c)
                \/ UninstallRebooted(c)

-----------------------------------------------------------------------------
(***************************************************************************)
(* installApp:...:forceReinstall:.                                         *)
(***************************************************************************)
InstallBooted(c) ==
  /\ cmd[c] = "install" /\ stage[c] = "firstBoot"
  /\ \/ At(c, "bootNO") /\ Exit(c, "GenericFailure")
     \/ At(c, "bootYES") /\ Continue(c, "lookup")
  /\ Locally

\* installedApp: is nil when the look-up fails; shouldUpdateApp: compares the
\* versions.
Lookup(c) ==
  /\ At(c, "lookup")
  /\ \/ /\ state[target[c]] = "Booted" /\ bundle[target[c]] = version[c]
        /\ ~force[c]
        /\ Sees(c)
        /\ Continue(c, "okay")
     \/ Call(c, "kill", "uninstallKill") /\ Locally

\* Codesigner signs the bundle to install ad hoc, or raises.
Resign(c) ==
  /\ At(c, "resign")
  /\ Locally
  /\ \/ /\ Goes(c, "try")
        /\ tries' = [tries EXCEPT ![c] = 1]
        /\ UNCHANGED <<version, force, stage>>
     \/ Exit(c, "Raised")

Installs(c) ==
  /\ state[target[c]] = "Booted"
  /\ Change(c, version[c], FALSE)
  /\ UNCHANGED <<devVars, disturbed>>
  /\ Continue(c, "okay")

RetryFromResign(c) == \* variant: every retry signs, and counts, anew
  /\ At(c, "try") /\ Locally /\ Continue(c, "resign")

RetryOnceMore(c) == \* variant: the loop runs to try <= tries
  /\ At(c, "try") /\ Locally
  /\ \/ /\ tries[c] < Tries /\ tries' = [tries EXCEPT ![c] = @ + 1]
        /\ Goes(c, "try") /\ UNCHANGED <<version, force, stage>>
     \/ tries[c] >= Tries /\ Exit(c, "GenericFailure")

\* "This app could not be installed at this time" is tried again while
\* ++try < tries.
NotAtThisTime(c) ==
  /\ At(c, "try")
  /\ Locally
  /\ \/ /\ tries[c] + 1 < Tries
        /\ tries' = [tries EXCEPT ![c] = @ + 1]
        /\ Goes(c, "try")
        /\ UNCHANGED <<version, force, stage>>
     \/ tries[c] + 1 >= Tries /\ Exit(c, "GenericFailure")

\* Any other error is final.
TryInstall(c) ==
  /\ At(c, "try")
  /\ \/ Installs(c)
     \/ Exit(c, "GenericFailure") /\ Locally

Install(c) == \/ InstallBooted(c) \/ Lookup(c) \/ Resign(c)
              \/ NotAtThisTime(c) \/ TryInstall(c)

-----------------------------------------------------------------------------
(***************************************************************************)
(* launchApp: asks before it boots; isInstalled: boots before it asks.     *)
(***************************************************************************)
LaunchListed(c) ==
  /\ At(c, "launchListed")
  /\ \/ Asks(c, TRUE) /\ Call(c, "boot", "firstBoot")
     \/ Asks(c, FALSE) /\ Exit(c, "GenericFailure")

LaunchBooted(c) ==
  /\ cmd[c] = "launchApp" /\ stage[c] = "firstBoot"
  /\ \/ At(c, "bootNO") /\ Exit(c, "GenericFailure")
     \/ At(c, "bootYES") /\ Continue(c, "startApp")
  /\ Locally

StartApp(c) ==
  /\ At(c, "startApp")
  /\ \/ /\ state[target[c]] = "Booted" /\ bundle[target[c]] # None
        /\ Sees(c)
        /\ Continue(c, "okay")
     \/ Exit(c, "InternalError") /\ Locally

IsInstalledBooted(c) ==
  /\ cmd[c] = "isInstalled" /\ stage[c] = "firstBoot"
  /\ \/ At(c, "bootNO") /\ Exit(c, "InternalError")
     \/ At(c, "bootYES") /\ Continue(c, "isInstalled")
  /\ Locally

IsInstalled(c) ==
  /\ At(c, "isInstalled")
  /\ \/ Asks(c, TRUE) /\ Exit(c, "EverythingOkay")
     \/ Asks(c, FALSE) /\ Exit(c, "False")

\* simulateLocationWithLat:lng: boots; killApp: does not.  Whether the app
\* runs is left open.
LocationBooted(c) ==
  /\ cmd[c] = "simulateLocation" /\ stage[c] = "firstBoot"
  /\ \/ At(c, "bootNO") /\ Exit(c, "GenericFailure")
     \/ At(c, "bootYES") /\ Continue(c, "setLocation")
  /\ Locally

AskSimulator(c) ==
  /\ pc[c] \in {"setLocation", "killApp"}
  /\ \/ state[target[c]] = "Booted" /\ Exit(c, "EverythingOkay")
     \/ At(c, "setLocation") /\ Exit(c, "GenericFailure")
     \/ At(c, "killApp") /\ Exit(c, "False")
  /\ Locally

LaunchApp(c) == LaunchListed(c) \/ LaunchBooted(c) \/ StartApp(c)
QueryApp(c) == \/ IsInstalledBooted(c) \/ IsInstalled(c)
               \/ LocationBooted(c) \/ AskSimulator(c)

-----------------------------------------------------------------------------
\* What install, uninstall and launch-app promise has been so: only now is it
\* answered, with other processes at work in between.
Okay(c) ==
  /\ At(c, "okay")
  /\ Exit(c, "EverythingOkay")
  /\ Locally

\* A step of the procedures of the life cycle.  SimShutDown is what follows
\* shutdown inside killSimulatorApp only.
Procedure(c) ==
  /\ \/ Boot(c) \/ Shutdown(c) \/ Kill(c)
     \/ stage[c] # "rebootDown" /\ SimShutDown(c)
  /\ UNCHANGED appVars

\* launch-simulator, kill-simulator and erase-simulator end, the last having
\* removed every app of the simulator.
LifecycleEnds(c) ==
  \/ /\ \/ LaunchEnds(c) \/ KillEnds(c) \/ EraseAfterKill(c) \/ EraseWait(c)
        \/ Erased(c)
     /\ UNCHANGED appVars
  \/ /\ IssueErase(c)
     /\ UNCHANGED locals
     /\ IF pc'[c] = "erased"
        THEN Change(c, None, FALSE)
        ELSE UNCHANGED <<device, history>>

AppStep(c) == \/ Procedure(c) \/ LifecycleEnds(c) \/ Uninstall(c) \/ Install(c)
              \/ LaunchApp(c) \/ QueryApp(c) \/ Okay(c)

AppCommands == {"install", "uninstall", "launchApp", "killApp", "isInstalled",
                "simulateLocation"}

StartAppCommand(c, command, s) ==
  /\ At(c, "idle")
  /\ cmd' = [cmd EXCEPT ![c] = command]
  /\ target' = [target EXCEPT ![c] = s]
  /\ sim' = [sim EXCEPT ![c] = s]
  /\ Goto(c, CASE command = "uninstall" -> "kill"
               [] command = "launchApp" -> "launchListed"
               [] command = "killApp"   -> "killApp"
               [] OTHER                 -> "boot")
  /\ stage' = [stage EXCEPT ![c] = CASE command = "uninstall" -> "uninstallKill"
                                     [] command = "killApp"   -> "none"
                                     [] OTHER                 -> "firstBoot"]
  /\ interfered' = [interfered EXCEPT ![c] = FALSE]
  /\ unheard' = [unheard EXCEPT ![c] = FALSE]
  /\ IF command = "install"
     THEN \E v \in Versions, f \in BOOLEAN : /\ version' = [version EXCEPT ![c] = v]
                                            /\ force' = [force EXCEPT ![c] = f]
     ELSE UNCHANGED <<version, force>>
  /\ UNCHANGED <<devVars, victims, todo, result, disturbed, device, tries>>

AppsBegin(c) ==
  \/ Begin(c) /\ UNCHANGED appVars
  \/ \E s \in Sims, command \in AppCommands : StartAppCommand(c, command, s)

\* The listing is made anew when a simulator comes up.
AppsEnvironment ==
  /\ Environment
  /\ ghost' = [s \in Sims |-> /\ ghost[s]
                              /\ ~(state[s] = "Booting" /\ state'[s] = "Booted")]
  /\ UNCHANGED <<bundle, locals, history>>

AppsNext == \/ \E c \in Clients : AppsBegin(c) \/ AppStep(c)
            \/ AppsEnvironment

AppPoints == {"lookup", "resign", "try", "listed", "issueUninstall", "stillListed",
              "listedAgain", "launchListed", "startApp", "isInstalled",
              "setLocation", "killApp", "okay"}

\* CoreSimulator is asked about the app, or to do something with it, again
\* without a timeout; signing waits for children that may trap SIGTERM.
AppAwaits == Awaits \cup (AppPoints \ {"okay"})

AppsFairness == \A c \in Clients : WF_allVars(pc[c] \notin AppAwaits /\ AppStep(c))

AppsSpec == AppsInit /\ [][AppsNext]_allVars /\ AppsFairness
-----------------------------------------------------------------------------
\* The values the variables of the application commands range over.
AppsTypeOK ==
  /\ pc \in [Clients -> Points \cup AppPoints]
  /\ result \in [Clients -> Codes \cup {"none", "False", "Raised"}]
  /\ bundle \in [Sims -> Versions \cup {None}] /\ ghost \in [Sims -> BOOLEAN]
  /\ version \in [Clients -> Versions \cup {None}] /\ force \in [Clients -> BOOLEAN]
  /\ tries \in [Clients -> 0..(Tries - 1)]
  /\ stage \in [Clients -> {"none", "firstBoot", "uninstallKill", "uninstallBoot",
                            "rebootDown", "rebootUp"}]
  /\ interfered \in [Clients -> BOOLEAN] /\ unheard \in [Clients -> BOOLEAN]

\* What EverythingOkay promises of the app.
AppPromise(c) ==
  LET s == target[c] IN
  /\ cmd[c] = "install" => bundle[s] = version[c]
  /\ cmd[c] = "uninstall" => bundle[s] = None /\ (ghost[s] => unheard[c])
  /\ cmd[c] = "launchApp" => bundle[s] # None

\* A command on an app answers EverythingOkay only when the app is as it was
\* asked to be, unless another process has changed it since this one changed it
\* or saw it last: after install the requested version is there, whether it was
\* found, updated or retried; after uninstall it is gone, through the reboot
\* whose results nobody looks at, and the simulator does not list it any more
\* unless the last listing failed, which uninstallApp: takes for a NO.
AppAnswersHold ==
  [][\A c \in Clients : result[c] # result'[c] /\ result'[c] = "EverythingOkay"
                          => interfered[c] \/ AppPromise(c)]_allVars

\* A command, on a simulator or an app, ends with an exit code, or stands still
\* for ever in one request that the code sets no timeout for: waits with a
\* timeout, loops, retries, the nested uninstall and the reboot come to an end,
\* even if CoreSimulator never finishes a transition, and no command goes round.
EveryCommandAnswers ==
  \A c \in Clients :
    \/ (pc[c] # "idle") ~> (pc[c] = "done")
    \/ <>[](pc[c] \in AppAwaits) /\ <>[][FALSE]_<<pc[c], tries[c]>>

\* The refinement: a command is served when what it promises has been so; an
\* uninstallation while the simulator is asked, and rebooted, for the listing.
Op == [c \in Clients |->
         IF cmd[c] \in {"none", "install", "uninstall", "erase", "launchApp"}
         THEN cmd[c] ELSE "other"]
Served == {c \in Clients :
             \/ pc[c] \in {"okay", "erased"}
             \/ /\ cmd[c] = "uninstall"
                /\ \/ pc[c] \in {"stillListed", "listedAgain"}
                   \/ stage[c] \in {"rebootDown", "rebootUp"}}

Device == INSTANCE DeviceApps WITH Devices <- Sims, op <- Op, on <- target,
                                   of <- version, served <- Served,
                                   answer <- result

\* Simulator keeps the promises of Device: EverythingOkay only for what was so
\* between the call and the answer, and no command touches the app of a
\* simulator that is not its target, or after it has been served.
ImplementsDevice == Device!Spec
=============================================================================
