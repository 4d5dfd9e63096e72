-------------------------- MODULE PhysicalDeviceApps --------------------------
(***************************************************************************)
(* Applications on attached devices: install, uninstall, launch-app,       *)
(* kill-app and is-installed of Devices/PhysicalDevice.m, and the signing  *)
(* that an installation does.  The commands of all processes concern one   *)
(* bundle ID.                                                              *)
(*                                                                         *)
(* Every request to the device is a step, and its reply another where the  *)
(* device may change in between or the reply be lost; FBFuture await: then *)
(* fails although the device has done what was asked.                      *)
(***************************************************************************)
EXTENDS Naturals

CONSTANTS Devices, Clients,
          Versions,          \* versions of the app; each is one .app directory
          Profiles,          \* provisioning profiles of the host
          None,              \* no version, no profile
          Unsigned, Broken   \* signatures that no profile has made

ASSUME PhysicalAssumption ==
  /\ None \notin Versions \cup Profiles
  /\ {Unsigned, Broken} \cap Profiles = {}

VARIABLES bundle,    \* the version installed on each device, or None
          running,   \* whether it runs
          granted,   \* the profiles installed on each device
          seal,      \* who signed each .app directory of the host
          pc, cmd, target,
          version,   \* the version each client is asked to install
          force,     \* --force
          given,     \* the profile the caller names, or None
          profile,   \* the profile chosen
          result,
          foreign,   \* history: another client has signed the directory since
                     \* this one began to
          excused    \* history: nobody told the client that the app runs

deviceVars == <<bundle, running, granted>>
argVars == <<cmd, target, version, force, given>>
vars == <<deviceVars, seal, pc, argVars, profile, result, foreign, excused>>

Seals == Profiles \cup {Unsigned, Broken}

Init ==
  /\ bundle \in [Devices -> Versions \cup {None}]
  /\ running \in [Devices -> BOOLEAN]
  /\ \A d \in Devices : running[d] => bundle[d] # None
  /\ granted \in [Devices -> SUBSET Profiles]
  /\ seal \in [Versions -> Profiles \cup {Unsigned}]
  /\ pc = [c \in Clients |-> "idle"]
  /\ cmd = [c \in Clients |-> "none"]
  /\ target \in [Clients -> Devices]
  /\ version = [c \in Clients |-> None]
  /\ force = [c \in Clients |-> FALSE]
  /\ given = [c \in Clients |-> None]
  /\ profile = [c \in Clients |-> None]
  /\ result = [c \in Clients |-> "none"]
  /\ foreign = [c \in Clients |-> FALSE]
  /\ excused = [c \in Clients |-> FALSE]

-----------------------------------------------------------------------------
At(c, here) == pc[c] = here

Goes(c, there) == /\ pc' = [pc EXCEPT ![c] = there]
                  /\ UNCHANGED <<argVars, profile, result>>

\* The command ends; its locals end with it.
Exit(c, code) ==
  /\ pc' = [pc EXCEPT ![c] = "done"]
  /\ result' = [result EXCEPT ![c] = code]
  /\ force' = [force EXCEPT ![c] = FALSE]
  /\ given' = [given EXCEPT ![c] = None]
  /\ profile' = [profile EXCEPT ![c] = None]
  /\ UNCHANGED <<cmd, target, version>>

\* Only what the host keeps for client c changes.
OnHost == UNCHANGED <<deviceVars, seal, foreign, excused>>

\* The device does what client c asks; the .app directories stay as they are.
OnDevice == UNCHANGED <<seal, foreign>>

\* The app is started on d: the clients that have asked for its pid, or killed
\* it, have not been told.
Starts(d) ==
  /\ running' = [running EXCEPT ![d] = TRUE]
  /\ excused' = [c \in Clients |-> \/ excused[c]
                                   \/ target[c] = d /\ pc[c] \in {"kill", "remove", "done"}]

-----------------------------------------------------------------------------
(***************************************************************************)
(* uninstallApp:, a command and the step of installApp: that avoids an     *)
(* "application-identifier entitlement mismatch"; installApp: does not look*)
(* at what it returns.  ask is isInstalled:withError:, pid and kill are    *)
(* terminateApplication:wasRunning:.                                       *)
(***************************************************************************)
UninstalledEnds(c, code) == \* variant: installApp: returns what uninstallApp: did
  \/ cmd[c] = "uninstall" /\ Exit(c, code)
  \/ /\ cmd[c] = "install"
     /\ IF code = "EverythingOkay" THEN Exit(c, code) ELSE Goes(c, "choose")

Uninstalled(c, code) ==
  \/ cmd[c] = "uninstall" /\ Exit(c, code)
  \/ cmd[c] = "install" /\ Goes(c, "choose")

\* A look-up that fails is an app that is not installed.
Ask(c) ==
  /\ At(c, "ask")
  /\ OnHost
  /\ \/ /\ bundle[target[c]] # None
        /\ \/ cmd[c] = "isInstalled" /\ Exit(c, "EverythingOkay")
           \/ cmd[c] # "isInstalled" /\ Goes(c, "pid")
     \/ \/ cmd[c] = "isInstalled" /\ Exit(c, "False")
        \/ Uninstalled(c, "InternalError")

TerminatedBOOL(c, yes) == \* variant: kill-app returns the BOOL
  \/ cmd[c] = "killApp" /\ Exit(c, IF yes THEN "YES" ELSE "NO")
  \/ cmd[c] # "killApp" /\ yes /\ Goes(c, "remove")
  \/ ~yes /\ Uninstalled(c, "InternalError")

\* terminateApplication: has returned.
Terminated(c, yes) ==
  \/ cmd[c] = "killApp" /\ Exit(c, IF yes THEN "EverythingOkay" ELSE "InternalError")
  \/ cmd[c] # "killApp" /\ yes /\ Goes(c, "remove")
  \/ ~yes /\ Uninstalled(c, "InternalError")

KillByPid(c) == \* variant: the state of the pid look-up decides what was killed
  /\ At(c, "kill") /\ UNCHANGED <<deviceVars, seal, foreign, excused>>
  /\ Terminated(c, TRUE)

\* [processIDWithBundleID:]: no pid, for whatever reason, is an app that does
\* not run.
LookUpPid(c) ==
  /\ At(c, "pid")
  /\ UNCHANGED <<deviceVars, seal, foreign>>
  /\ \/ running[target[c]] /\ Goes(c, "kill") /\ UNCHANGED excused
     \/ /\ excused' = [excused EXCEPT ![c] = running[target[c]]]
        /\ Terminated(c, TRUE)

\* [killApplicationWithBundleID:]: fails for an app that has exited since, and
\* may fail having killed it.
KillRunning(c) ==
  /\ At(c, "kill")
  /\ OnDevice /\ UNCHANGED <<bundle, granted>>
  /\ \/ /\ running[target[c]]
        /\ running' = [running EXCEPT ![target[c]] = FALSE]
        /\ excused' = [excused EXCEPT ![c] = FALSE]
        /\ Terminated(c, TRUE)
     \/ /\ running' \in {running, [running EXCEPT ![target[c]] = FALSE]}
        /\ UNCHANGED excused
        /\ Terminated(c, FALSE)

\* [uninstallApplicationWithBundleID:] and its reply.
Remove(c) ==
  /\ At(c, "remove")
  /\ OnDevice /\ UNCHANGED <<granted, excused>>
  /\ \/ /\ bundle' = [bundle EXCEPT ![target[c]] = None]
        /\ running' = [running EXCEPT ![target[c]] = FALSE]
        /\ Goes(c, "removed")
     \/ UNCHANGED <<bundle, running>> /\ Uninstalled(c, "InternalError")

Removed(c) ==
  /\ At(c, "removed")
  /\ OnHost
  /\ \E code \in {"EverythingOkay", "InternalError"} : Uninstalled(c, code)

Uninstall(c) == \/ Ask(c) \/ LookUpPid(c) \/ KillRunning(c)
                \/ Remove(c) \/ Removed(c)

-----------------------------------------------------------------------------
(***************************************************************************)
(* installApp:...:forceReinstall:.                                         *)
(***************************************************************************)
\* installedApp: is nil when the look-up fails; shouldUpdateApp: compares the
\* versions.
LookUp(c) ==
  /\ At(c, "lookup")
  /\ OnHost
  /\ \/ bundle[target[c]] = version[c] /\ ~force[c] /\ Exit(c, "EverythingOkay")
     \/ Goes(c, "ask")

\* The profile named, or the best match there is, by identity if one is named.
Choose(c) ==
  /\ At(c, "choose")
  /\ OnHost
  /\ \/ \E p \in Profiles :
          /\ given[c] \in {p, None}
          /\ profile' = [profile EXCEPT ![c] = p]
          /\ pc' = [pc EXCEPT ![c] = "sign"]
          /\ UNCHANGED <<argVars, result>>
     \/ given[c] = None /\ Exit(c, "InternalError")

\* Clients that count on the signature of v.
Signers(v) == {x \in Clients : /\ version[x] = v
                               /\ pc[x] \in {"signing", "grant", "put"}}

\* Client c writes the signature of the .app directory it was given, which is
\* not a copy.
Signs(c, s) ==
  /\ seal' = [seal EXCEPT ![version[c]] = s]
  /\ UNCHANGED <<deviceVars, excused>>

\* [Codesigner resignApplication:...] begins to replace what was there, unless
\* it finds no identity and raises.
Sign(c) ==
  /\ At(c, "sign")
  /\ \/ /\ Signs(c, Broken)
        /\ foreign' = [x \in Clients |->
              IF x = c
              THEN \E y \in Signers(version[c]) \ {c} : pc[y] = "signing"
              ELSE foreign[x] \/ x \in Signers(version[c])]
        /\ Goes(c, "signing")
     \/ Exit(c, "Raised") /\ OnHost

\* ... and is done, or raises half way.
Signed(c) ==
  /\ At(c, "signing")
  /\ \/ /\ \/ Signs(c, profile[c])
           \/ foreign[c] /\ Signs(c, Broken)
        /\ foreign' = [x \in Clients |->
              foreign[x] \/ (x # c /\ x \in Signers(version[c]))]
        /\ Goes(c, "grant")
     \/ Exit(c, "Raised") /\ OnHost

\* installProvisioningProfileAtPath:; it may fail having installed it.
GrantAfter(c) == \* variant: the failure is not looked at
  /\ At(c, "grant") /\ OnDevice
  /\ granted' \in {granted, [granted EXCEPT ![target[c]] = @ \cup {profile[c]}]}
  /\ UNCHANGED <<bundle, running, excused>>
  /\ Goes(c, "put")

Grant(c) ==
  /\ At(c, "grant")
  /\ OnDevice /\ UNCHANGED <<bundle, running, excused>>
  /\ \/ /\ granted' = [granted EXCEPT ![target[c]] = @ \cup {profile[c]}]
        /\ Goes(c, "put") \/ Exit(c, "InternalError")
     \/ UNCHANGED granted /\ Exit(c, "InternalError")

\* [installApplicationWithPath:]: the device accepts an app whose signature is
\* that of a profile it has.
Put(c) ==
  /\ At(c, "put")
  /\ OnDevice /\ UNCHANGED <<granted, excused>>
  /\ \/ /\ seal[version[c]] \in granted[target[c]]
        /\ bundle' = [bundle EXCEPT ![target[c]] = version[c]]
        /\ running' = [running EXCEPT ![target[c]] = FALSE]
        /\ Goes(c, "placed")
     \/ UNCHANGED <<bundle, running>> /\ Exit(c, "InternalError")

\* The reply to a request that has been carried out comes, or is lost.
Reply(c) ==
  /\ pc[c] \in {"placed", "launched"}
  /\ OnHost
  /\ \E code \in {"EverythingOkay", "InternalError"} : Exit(c, code)

Install(c) == \/ LookUp(c) \/ Choose(c) \/ Sign(c) \/ Signed(c)
              \/ Grant(c) \/ Put(c)

-----------------------------------------------------------------------------
\* launchApp: asks for nothing first.
Launch(c) ==
  /\ At(c, "launch")
  /\ OnDevice /\ UNCHANGED <<bundle, granted>>
  /\ \/ bundle[target[c]] # None /\ Starts(target[c]) /\ Goes(c, "launched")
     \/ UNCHANGED <<running, excused>> /\ Exit(c, "InternalError")

Step(c) == Uninstall(c) \/ Install(c) \/ Launch(c) \/ Reply(c)

Start(c, command, d) ==
  /\ At(c, "idle")
  /\ cmd' = [cmd EXCEPT ![c] = command]
  /\ target' = [target EXCEPT ![c] = d]
  /\ pc' = [pc EXCEPT ![c] = CASE command = "install"   -> "lookup"
                               [] command = "launchApp" -> "launch"
                               [] command = "killApp"   -> "pid"
                               [] OTHER                 -> "ask"]
  /\ IF command = "install"
     THEN /\ \E v \in Versions : version' = [version EXCEPT ![c] = v]
          /\ \E f \in BOOLEAN : force' = [force EXCEPT ![c] = f]
          /\ \E p \in Profiles \cup {None} : given' = [given EXCEPT ![c] = p]
     ELSE UNCHANGED <<version, force, given>>
  /\ OnHost /\ UNCHANGED <<profile, result>>

Commands == {"install", "uninstall", "launchApp", "killApp", "isInstalled"}

Begin(c) == \E command \in Commands, d \in Devices : Start(c, command, d)

-----------------------------------------------------------------------------
(***************************************************************************)
(* The user opens, quits and deletes the app.                              *)
(***************************************************************************)
Nothing == UNCHANGED <<granted, seal, pc, argVars, profile, result, foreign>>

UserOpens(d) == bundle[d] # None /\ ~running[d] /\ Starts(d)
                /\ Nothing /\ UNCHANGED bundle

UserQuits(d) == /\ running[d] /\ running' = [running EXCEPT ![d] = FALSE]
                /\ Nothing /\ UNCHANGED <<bundle, excused>>

UserDeletes(d) == /\ bundle[d] # None
                  /\ bundle' = [bundle EXCEPT ![d] = None]
                  /\ running' = [running EXCEPT ![d] = FALSE]
                  /\ Nothing /\ UNCHANGED excused

User == \E d \in Devices : UserOpens(d) \/ UserQuits(d) \/ UserDeletes(d)

Next == (\E c \in Clients : Begin(c) \/ Step(c)) \/ User

Spec == Init /\ [][Next]_vars
-----------------------------------------------------------------------------
Points == {"idle", "done", "lookup", "ask", "pid", "kill", "remove", "removed",
           "choose", "sign", "signing", "grant", "put", "placed", "launch",
           "launched"}

\* The values the variables range over; an app that runs is installed.
TypeOK ==
  /\ bundle \in [Devices -> Versions \cup {None}]
  /\ running \in [Devices -> BOOLEAN]
  /\ \A d \in Devices : running[d] => bundle[d] # None
  /\ granted \in [Devices -> SUBSET Profiles]
  /\ seal \in [Versions -> Seals]
  /\ pc \in [Clients -> Points]
  /\ cmd \in [Clients -> Commands \cup {"none"}]
  /\ target \in [Clients -> Devices]
  /\ version \in [Clients -> Versions \cup {None}]
  /\ force \in [Clients -> BOOLEAN]
  /\ given \in [Clients -> Profiles \cup {None}]
  /\ profile \in [Clients -> Profiles \cup {None}]
  /\ result \in [Clients -> {"none", "EverythingOkay", "InternalError", "False", "Raised"}]
  /\ foreign \in [Clients -> BOOLEAN] /\ excused \in [Clients -> BOOLEAN]

\* What is sent to a device is signed, whole, with the very profile the device
\* was given before, whoever named or found it: unless another process has
\* signed the same .app directory meanwhile, which nothing prevents.
SealedForDevice ==
  \A c \in Clients : pc[c] = "put" /\ ~foreign[c]
    => seal[version[c]] = profile[c] /\ profile[c] \in granted[target[c]]

\* An app is uninstalled, and kill-app answers, with the app stopped, though
\* the pid looked up may be stale when the app is killed: unless no pid was
\* found of an app that runs, or somebody has started it since.
StoppedFirst ==
  \A c \in Clients :
    \/ pc[c] = "remove"
    \/ pc[c] = "done" /\ cmd[c] = "killApp" /\ result[c] = "EverythingOkay"
    => excused[c] \/ ~running[target[c]]

\* The refinement: what the device has done and not replied to yet is served.
Op == [c \in Clients |-> IF cmd[c] \in {"none", "install", "uninstall", "launchApp"}
                         THEN cmd[c] ELSE "other"]
Served == {c \in Clients : \/ pc[c] \in {"placed", "launched"}
                           \/ pc[c] = "removed" /\ cmd[c] = "uninstall"}

Device == INSTANCE DeviceApps WITH op <- Op, on <- target, of <- version,
                                   served <- Served, answer <- result

\* PhysicalDevice keeps the promises of Device: EverythingOkay only for what
\* was so between the call and the answer, through failed look-ups, ignored
\* uninstallations and lost replies; and no command changes an app that is not
\* its own to change.
ImplementsDevice == Device!Spec
=============================================================================
