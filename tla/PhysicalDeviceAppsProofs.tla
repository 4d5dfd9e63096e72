----------------------- MODULE PhysicalDeviceAppsProofs -----------------------
(***************************************************************************)
(* For any number of devices, processes, versions and profiles: type       *)
(* correctness, that what is sent to a device is sealed for it, that apps  *)
(* are stopped before they are removed, and that PhysicalDevice implements *)
(* Device.                                                                 *)
(***************************************************************************)
EXTENDS PhysicalDeviceApps, TLAPS

\* TypeOK in two halves.
DeviceTypes ==
  /\ bundle \in [Devices -> Versions \cup {None}]
  /\ running \in [Devices -> BOOLEAN]
  /\ \A d \in Devices : running[d] => bundle[d] # None
  /\ granted \in [Devices -> SUBSET Profiles]
  /\ seal \in [Versions -> Seals]
  /\ foreign \in [Clients -> BOOLEAN] /\ excused \in [Clients -> BOOLEAN]

Results == {"none", "EverythingOkay", "InternalError", "False", "Raised"}

ClientTypes ==
  /\ pc \in [Clients -> Points]
  /\ cmd \in [Clients -> Commands \cup {"none"}]
  /\ target \in [Clients -> Devices]
  /\ version \in [Clients -> Versions \cup {None}]
  /\ force \in [Clients -> BOOLEAN]
  /\ given \in [Clients -> Profiles \cup {None}]
  /\ profile \in [Clients -> Profiles \cup {None}]
  /\ result \in [Clients -> Results]

LEMMA TypeHalves == TypeOK <=> DeviceTypes /\ ClientTypes
  BY DEF TypeOK, DeviceTypes, ClientTypes, Results

\* Which commands are where, and what they have by then.
Flow(c) ==
  /\ pc[c] = "idle" <=> cmd[c] = "none"
  /\ pc[c] # "done" => result[c] = "none"
  /\ pc[c] \in {"lookup", "choose", "sign", "signing", "grant", "put", "placed"}
       => cmd[c] = "install"
  /\ pc[c] \in {"launch", "launched"} => cmd[c] = "launchApp"
  /\ pc[c] = "ask" => cmd[c] \in {"install", "uninstall", "isInstalled"}
  /\ pc[c] \in {"pid", "kill"} => cmd[c] \in {"install", "uninstall", "killApp"}
  /\ pc[c] \in {"remove", "removed"} => cmd[c] \in {"install", "uninstall"}
  /\ cmd[c] = "install" => version[c] \in Versions
  /\ pc[c] \in {"sign", "signing", "grant", "put"} => profile[c] \in Profiles

TypeInv == DeviceTypes /\ ClientTypes /\ \A c \in Clients : Flow(c)

\* The moves a client makes within its command.
Places == {"ask", "pid", "kill", "remove", "removed", "choose", "sign", "signing",
           "grant", "put", "placed", "launched"}

LEMMA TypeInvInit == Init => TypeInv
<1> SUFFICES ASSUME Init PROVE TypeInv
  OBVIOUS
<1>1. DeviceTypes
  BY DEF Init, DeviceTypes, Seals
<1>2. ClientTypes
  BY DEF Init, ClientTypes, Points, Results
<1>3. \A c \in Clients : Flow(c)
  BY DEF Init, Flow
<1> QED
  BY <1>1, <1>2, <1>3 DEF TypeInv

\* A client goes on within its command: what the place it goes to demands is
\* all there is to show.
LEMMA GoesKeeps ==
  ASSUME TypeInv, NEW c \in Clients, NEW there \in Places, Goes(c, there),
         cmd[c] # "none", result[c] = "none",
         there \in {"choose", "sign", "signing", "grant", "put", "placed"}
           => cmd[c] = "install",
         there = "launched" => cmd[c] = "launchApp",
         there = "ask" => cmd[c] \in {"install", "uninstall", "isInstalled"},
         there \in {"pid", "kill"} => cmd[c] \in {"install", "uninstall", "killApp"},
         there \in {"remove", "removed"} => cmd[c] \in {"install", "uninstall"},
         there \in {"sign", "signing", "grant", "put"} => profile[c] \in Profiles
  PROVE  ClientTypes' /\ \A x \in Clients : Flow(x)'
<1>1. /\ UNCHANGED <<cmd, target, version, force, given, profile, result>>
      /\ pc' = [pc EXCEPT ![c] = there]
  BY DEF Goes, argVars
<1>2. ClientTypes'
  BY <1>1 DEF TypeInv, ClientTypes, Points, Places
<1>3. pc'[c] = there /\ \A x \in Clients \ {c} : pc'[x] = pc[x]
  BY <1>1 DEF TypeInv, ClientTypes
<1>4. ASSUME NEW x \in Clients PROVE Flow(x)'
  <2>1. CASE x = c
    BY <1>1, <1>3, <2>1 DEF TypeInv, Flow, Places
  <2>2. CASE x # c
    BY <1>1, <1>3, <2>2 DEF TypeInv, Flow
  <2> QED
    BY <2>1, <2>2
<1> QED
  BY <1>2, <1>4

\* Every command may end wherever it is.
LEMMA ExitKeeps ==
  ASSUME TypeInv, NEW c \in Clients, NEW code \in Results, Exit(c, code),
         cmd[c] # "none"
  PROVE  ClientTypes' /\ \A x \in Clients : Flow(x)'
<1>1. /\ pc' = [pc EXCEPT ![c] = "done"] /\ result' = [result EXCEPT ![c] = code]
      /\ force' = [force EXCEPT ![c] = FALSE]
      /\ given' = [given EXCEPT ![c] = None] /\ profile' = [profile EXCEPT ![c] = None]
      /\ UNCHANGED <<cmd, target, version>>
  BY DEF Exit
<1>2. ClientTypes'
  BY <1>1 DEF TypeInv, ClientTypes, Points
<1>3. /\ pc'[c] = "done"
      /\ \A x \in Clients \ {c} : pc'[x] = pc[x] /\ result'[x] = result[x]
                                  /\ profile'[x] = profile[x]
  BY <1>1 DEF TypeInv, ClientTypes
<1>4. ASSUME NEW x \in Clients PROVE Flow(x)'
  <2>1. CASE x = c
    BY <1>1, <1>3, <2>1 DEF TypeInv, Flow
  <2>2. CASE x # c
    BY <1>1, <1>3, <2>2 DEF TypeInv, Flow
  <2> QED
    BY <2>1, <2>2
<1> QED
  BY <1>2, <1>4

\* uninstallApp: and terminateApplication: return to their callers.
LEMMA UninstalledKeeps ==
  ASSUME TypeInv, NEW c \in Clients, NEW code \in Results, Uninstalled(c, code),
         pc[c] \in Points \ {"idle", "done"}
  PROVE  ClientTypes' /\ \A x \in Clients : Flow(x)'
<1>1. cmd[c] # "none" /\ result[c] = "none"
  BY DEF TypeInv, Flow
<1>2. CASE Exit(c, code)
  BY <1>1, <1>2, ExitKeeps
<1>3. CASE cmd[c] = "install" /\ Goes(c, "choose")
  BY <1>1, <1>3, GoesKeeps DEF Places
<1> QED
  BY <1>2, <1>3 DEF Uninstalled

LEMMA TerminatedKeeps ==
  ASSUME TypeInv, NEW c \in Clients, NEW yes \in BOOLEAN, Terminated(c, yes),
         pc[c] \in {"pid", "kill"}
  PROVE  ClientTypes' /\ \A x \in Clients : Flow(x)'
<1>1. /\ cmd[c] \in {"install", "uninstall", "killApp"} /\ result[c] = "none"
      /\ pc[c] \in Points \ {"idle", "done"}
  BY DEF TypeInv, Flow, Points
<1>2. CASE Exit(c, IF yes THEN "EverythingOkay" ELSE "InternalError")
  BY <1>1, <1>2, ExitKeeps DEF Results
<1>3. CASE cmd[c] # "killApp" /\ Goes(c, "remove")
  BY <1>1, <1>3, GoesKeeps DEF Places
<1>4. CASE Uninstalled(c, "InternalError")
  BY <1>1, <1>4, UninstalledKeeps DEF Results
<1> QED
  BY <1>2, <1>3, <1>4 DEF Terminated

\* What the steps do to devices and directories keeps their types.
LEMMA DeviceTypesStep ==
  ASSUME TypeInv, [Next]_vars
  PROVE  DeviceTypes'
<1> USE DEF TypeInv
<1>1. CASE UNCHANGED vars
  BY <1>1 DEF vars, deviceVars, DeviceTypes
<1>2. ASSUME NEW d \in Devices, Starts(d), UNCHANGED <<bundle, granted, seal, foreign>>,
             bundle[d] # None
      PROVE  DeviceTypes'
  BY <1>2 DEF DeviceTypes, Starts
<1>3. ASSUME NEW d \in Devices, NEW v \in Versions \cup {None},
             bundle' = [bundle EXCEPT ![d] = v], running' = [running EXCEPT ![d] = FALSE],
             UNCHANGED <<granted, seal, foreign, excused>>
      PROVE  DeviceTypes'
  BY <1>3 DEF DeviceTypes
<1>4. ASSUME UNCHANGED <<deviceVars, seal, foreign, excused>> PROVE DeviceTypes'
  BY <1>4 DEF DeviceTypes, deviceVars
<1>5. ASSUME NEW c \in Clients, Step(c) PROVE DeviceTypes'
  <2>0. target[c] \in Devices /\ version[c] \in Versions \cup {None}
        /\ profile[c] \in Profiles \cup {None}
    BY DEF ClientTypes
  <2>1. CASE Ask(c) \/ Removed(c) \/ LookUp(c) \/ Choose(c) \/ Reply(c)
    BY <1>4, <2>1 DEF Ask, Removed, LookUp, Choose, Reply, OnHost
  <2>2. CASE LookUpPid(c)
    BY <2>2, <2>0 DEF LookUpPid, DeviceTypes, deviceVars
  <2>3. CASE KillRunning(c)
    BY <2>3, <2>0 DEF KillRunning, OnDevice, DeviceTypes
  <2>4. CASE Remove(c)
    BY <2>4, <2>0, <1>3, <1>4 DEF Remove, OnDevice, deviceVars
  <2>5. CASE Sign(c)
    BY <2>5, <2>0, <1>4 DEF Sign, Signs, OnHost, DeviceTypes, deviceVars, Seals
  <2>6. CASE Signed(c)
    <3>1. profile[c] \in Profiles
      BY <2>6 DEF Signed, At, Flow
    <3> QED
      BY <3>1, <2>6, <2>0, <1>4 DEF Signed, Signs, OnHost, DeviceTypes, deviceVars, Seals
  <2>7. CASE Grant(c)
    <3>1. profile[c] \in Profiles
      BY <2>7 DEF Grant, At, Flow
    <3> QED
      BY <3>1, <2>7, <2>0 DEF Grant, OnDevice, DeviceTypes
  <2>8. CASE Put(c)
    BY <2>8, <2>0, <1>3, <1>4 DEF Put, OnDevice, deviceVars
  <2>9. CASE Launch(c)
    BY <2>9, <2>0, <1>2, <1>4 DEF Launch, OnDevice, deviceVars
  <2> QED
    BY <1>5, <2>1, <2>2, <2>3, <2>4, <2>5, <2>6, <2>7, <2>8, <2>9
    DEF Step, Uninstall, Install
<1>6. ASSUME NEW c \in Clients, Begin(c) PROVE DeviceTypes'
  BY <1>4, <1>6 DEF Begin, Start, OnHost
<1>7. CASE User
  BY <1>7, <1>2, <1>3 DEF User, UserOpens, UserQuits, UserDeletes, Nothing, DeviceTypes
<1> QED
  BY <1>1, <1>5, <1>6, <1>7 DEF Next

LEMMA BeginKeeps ==
  ASSUME TypeInv, NEW c \in Clients, Begin(c)
  PROVE  ClientTypes' /\ \A x \in Clients : Flow(x)'
<1> PICK command \in Commands, d \in Devices : Start(c, command, d)
  BY DEF Begin
<1>1. /\ pc[c] = "idle" /\ UNCHANGED <<profile, result>>
      /\ cmd' = [cmd EXCEPT ![c] = command] /\ target' = [target EXCEPT ![c] = d]
      /\ pc' = [pc EXCEPT ![c] = CASE command = "install"   -> "lookup"
                                   [] command = "launchApp" -> "launch"
                                   [] command = "killApp"   -> "pid"
                                   [] OTHER                 -> "ask"]
  BY DEF Start, At
<1>2. /\ version' \in [Clients -> Versions \cup {None}] /\ force' \in [Clients -> BOOLEAN]
      /\ given' \in [Clients -> Profiles \cup {None}]
      /\ command = "install" => version'[c] \in Versions
      /\ \A x \in Clients \ {c} : version'[x] = version[x]
  <2>1. CASE command = "install"
    BY <2>1 DEF Start, TypeInv, ClientTypes
  <2>2. CASE command # "install"
    BY <2>2 DEF Start, TypeInv, ClientTypes
  <2> QED
    BY <2>1, <2>2
<1>3. /\ cmd'[c] = command
      /\ pc'[c] = CASE command = "install"   -> "lookup"
                    [] command = "launchApp" -> "launch"
                    [] command = "killApp"   -> "pid"
                    [] OTHER                 -> "ask"
      /\ \A x \in Clients \ {c} : pc'[x] = pc[x] /\ cmd'[x] = cmd[x]
  BY <1>1 DEF TypeInv, ClientTypes
<1>4. ClientTypes'
  BY <1>1, <1>2 DEF TypeInv, ClientTypes, Points, Commands
<1>5. ASSUME NEW x \in Clients PROVE Flow(x)'
  <2>1. CASE x = c
    BY <1>1, <1>2, <1>3, <2>1 DEF TypeInv, Flow, Commands
  <2>2. CASE x # c
    BY <1>1, <1>2, <1>3, <2>2 DEF TypeInv, Flow
  <2> QED
    BY <2>1, <2>2
<1> QED
  BY <1>4, <1>5

LEMMA StepKeeps ==
  ASSUME TypeInv, NEW c \in Clients, Step(c)
  PROVE  ClientTypes' /\ \A x \in Clients : Flow(x)'
<1> DEFINE Kept == ClientTypes' /\ \A x \in Clients : Flow(x)'
<1>0. Flow(c) /\ pc[c] \in Points
  BY DEF TypeInv, ClientTypes
<1>1. CASE Ask(c)
  <2>1. cmd[c] \in {"install", "uninstall", "isInstalled"} /\ result[c] = "none"
        /\ pc[c] \in Points \ {"idle", "done"}
    BY <1>0, <1>1 DEF Ask, At, Flow
  <2>2. \/ Exit(c, "EverythingOkay") \/ Exit(c, "False")
        \/ cmd[c] # "isInstalled" /\ Goes(c, "pid")
        \/ Uninstalled(c, "InternalError")
    BY <1>1 DEF Ask
  <2> QED
    BY <2>1, <2>2, ExitKeeps, GoesKeeps, UninstalledKeeps DEF Results, Places
<1>2. CASE LookUpPid(c)
  <2>1. cmd[c] \in {"install", "uninstall", "killApp"} /\ result[c] = "none"
        /\ pc[c] = "pid"
    BY <1>0, <1>2 DEF LookUpPid, At, Flow
  <2>2. Goes(c, "kill") \/ Terminated(c, TRUE)
    BY <1>2 DEF LookUpPid
  <2> QED
    BY <2>1, <2>2, GoesKeeps, TerminatedKeeps DEF Places
<1>3. CASE KillRunning(c)
  <2>1. pc[c] = "kill" /\ (Terminated(c, TRUE) \/ Terminated(c, FALSE))
    BY <1>3 DEF KillRunning, At
  <2> QED
    BY <2>1, TerminatedKeeps
<1>4. CASE Remove(c) \/ Removed(c)
  <2>1. cmd[c] \in {"install", "uninstall"} /\ result[c] = "none"
        /\ pc[c] \in Points \ {"idle", "done"}
    BY <1>0, <1>4 DEF Remove, Removed, At, Flow
  <2>2. \/ Goes(c, "removed") \/ Uninstalled(c, "InternalError")
        \/ Uninstalled(c, "EverythingOkay")
    BY <1>4 DEF Remove, Removed
  <2> QED
    BY <2>1, <2>2, GoesKeeps, UninstalledKeeps DEF Results, Places
<1>5. CASE LookUp(c) \/ Sign(c) \/ Signed(c) \/ Grant(c) \/ Put(c)
  <2>1. cmd[c] = "install" /\ result[c] = "none"
        /\ (pc[c] # "lookup" => profile[c] \in Profiles)
    BY <1>0, <1>5 DEF LookUp, Sign, Signed, Grant, Put, At, Flow
  <2>2. \/ Exit(c, "EverythingOkay") \/ Exit(c, "InternalError") \/ Exit(c, "Raised")
        \/ Goes(c, "ask") \/ Goes(c, "placed")
        \/ profile[c] \in Profiles
           /\ (Goes(c, "signing") \/ Goes(c, "grant") \/ Goes(c, "put"))
    BY <1>5, <2>1 DEF LookUp, Sign, Signed, Grant, Put, At
  <2> QED
    BY <2>1, <2>2, ExitKeeps, GoesKeeps DEF Results, Places
<1>6. CASE Choose(c)
  <2>0. cmd[c] = "install" /\ result[c] = "none" /\ pc[c] = "choose"
    BY <1>0, <1>6 DEF Choose, At, Flow
  <2>1. CASE Exit(c, "InternalError")
    BY <2>0, <2>1, ExitKeeps DEF Results
  <2>2. ASSUME NEW p \in Profiles, profile' = [profile EXCEPT ![c] = p],
               pc' = [pc EXCEPT ![c] = "sign"], UNCHANGED <<argVars, result>>
        PROVE  Kept
    <3>1. ClientTypes'
      BY <2>2 DEF TypeInv, ClientTypes, argVars, Points
    <3>2. pc'[c] = "sign" /\ profile'[c] = p
          /\ \A x \in Clients \ {c} : pc'[x] = pc[x] /\ profile'[x] = profile[x]
      BY <2>2 DEF TypeInv, ClientTypes
    <3>3. ASSUME NEW x \in Clients PROVE Flow(x)'
      <4>1. CASE x = c
        BY <1>0, <2>0, <2>2, <3>2, <4>1 DEF Flow, argVars
      <4>2. CASE x # c
        BY <2>2, <3>2, <4>2 DEF TypeInv, Flow, argVars
      <4> QED
        BY <4>1, <4>2
    <3> QED
      BY <3>1, <3>3
  <2> QED
    BY <1>6, <2>1, <2>2 DEF Choose
<1>7. CASE Launch(c) \/ Reply(c)
  <2>1. cmd[c] # "none" /\ result[c] = "none"
        /\ (pc[c] = "launch" => cmd[c] = "launchApp")
    BY <1>0, <1>7 DEF Launch, Reply, At, Flow
  <2>2. \/ Exit(c, "EverythingOkay") \/ Exit(c, "InternalError")
        \/ pc[c] = "launch" /\ Goes(c, "launched")
    BY <1>7 DEF Launch, Reply, At
  <2> QED
    BY <2>1, <2>2, ExitKeeps, GoesKeeps DEF Results, Places
<1> QED
  BY <1>1, <1>2, <1>3, <1>4, <1>5, <1>6, <1>7 DEF Step, Uninstall, Install

LEMMA TypeInvStep ==
  ASSUME TypeInv, [Next]_vars
  PROVE  TypeInv'
<1>1. DeviceTypes'
  BY DeviceTypesStep
<1>2. CASE UNCHANGED vars \/ User
  <2>1. UNCHANGED <<pc, argVars, profile, result>>
    BY <1>2 DEF vars, User, UserOpens, UserQuits, UserDeletes, Nothing
  <2> QED
    BY <1>1, <2>1 DEF TypeInv, ClientTypes, Flow, argVars
<1>3. ASSUME NEW c \in Clients, Begin(c) \/ Step(c) PROVE TypeInv'
  BY <1>1, <1>3, BeginKeeps, StepKeeps DEF TypeInv
<1> QED
  BY <1>2, <1>3 DEF Next

\* Every variable stays in its type, and an app that runs is installed, in
\* every run of the commands of PhysicalDevice.m.
THEOREM PhysicalTypes == Spec => []TypeOK
<1>1. Init => TypeInv
  BY TypeInvInit
<1>2. TypeInv /\ [Next]_vars => TypeInv'
  BY TypeInvStep
<1>3. TypeInv => TypeOK
  BY TypeHalves DEF TypeInv
<1> QED
  BY <1>1, <1>2, <1>3, PTL DEF Spec

-----------------------------------------------------------------------------
\* Once signed, a directory keeps its signature until another client signs it;
\* once granted, a profile stays.
Sealed(c) ==
  /\ pc[c] \in {"grant", "put"} /\ ~foreign[c] => seal[version[c]] = profile[c]
  /\ pc[c] = "put" => profile[c] \in granted[target[c]]

SealInv == TypeInv /\ \A c \in Clients : Sealed(c)

\* Client x is not at a place where its signature counts.
LEMMA SealedElsewhere ==
  ASSUME NEW x \in Clients, pc'[x] \notin {"grant", "put"}
  PROVE  Sealed(x)'
  BY DEF Sealed

\* A step that leaves alone what x relies on.
LEMMA SealedFrame ==
  ASSUME TypeInv, NEW x \in Clients, Sealed(x), pc'[x] = pc[x],
         UNCHANGED <<seal, foreign>>, version'[x] = version[x],
         profile'[x] = profile[x], target'[x] = target[x],
         granted[target[x]] \subseteq granted'[target[x]]
  PROVE  Sealed(x)'
  BY DEF Sealed

\* Where a client may be after a step, and what the others keep.
LEMMA OthersStay ==
  ASSUME TypeInv, NEW c \in Clients, Step(c)
  PROVE  /\ UNCHANGED <<cmd, target, version>>
         /\ \A x \in Clients \ {c} : pc'[x] = pc[x] /\ profile'[x] = profile[x]
                                     /\ result'[x] = result[x]
<1> USE DEF TypeInv, ClientTypes
<1>1. ASSUME NEW there \in Points, Goes(c, there)
      PROVE  /\ UNCHANGED <<cmd, target, version>>
             /\ \A x \in Clients \ {c} : pc'[x] = pc[x] /\ profile'[x] = profile[x]
                                         /\ result'[x] = result[x]
  BY <1>1 DEF Goes, argVars
<1>2. ASSUME NEW code \in Results, Exit(c, code)
      PROVE  /\ UNCHANGED <<cmd, target, version>>
             /\ \A x \in Clients \ {c} : pc'[x] = pc[x] /\ profile'[x] = profile[x]
                                         /\ result'[x] = result[x]
  BY <1>2 DEF Exit
<1>3. \/ \E there \in Points : Goes(c, there)
      \/ \E code \in Results : Exit(c, code)
      \/ Choose(c)
  <2>1. /\ \A code \in Results : Uninstalled(c, code) => Exit(c, code) \/ Goes(c, "choose")
        /\ \A yes \in BOOLEAN : Terminated(c, yes) =>
             \/ Exit(c, "EverythingOkay") \/ Exit(c, "InternalError")
             \/ Goes(c, "remove") \/ Uninstalled(c, "InternalError")
    BY DEF Uninstalled, Terminated
  <2>2. CASE Ask(c)
    BY <2>1, <2>2 DEF Ask, Points, Results
  <2>3. CASE LookUpPid(c) \/ KillRunning(c)
    BY <2>1, <2>3 DEF LookUpPid, KillRunning, Points, Results
  <2>4. CASE Remove(c) \/ Removed(c)
    BY <2>1, <2>4 DEF Remove, Removed, Points, Results
  <2>5. CASE LookUp(c) \/ Sign(c) \/ Signed(c) \/ Grant(c) \/ Put(c)
    BY <2>5 DEF LookUp, Sign, Signed, Grant, Put, Points, Results
  <2>6. CASE Launch(c) \/ Reply(c)
    BY <2>6 DEF Launch, Reply, Points, Results
  <2> QED
    BY <2>2, <2>3, <2>4, <2>5, <2>6 DEF Step, Uninstall, Install
<1>4. CASE Choose(c)
  <2>1. CASE Exit(c, "InternalError")
    BY <1>2, <2>1 DEF Results
  <2> QED
    BY <1>4, <2>1 DEF Choose, argVars
<1> QED
  BY <1>1, <1>2, <1>3, <1>4

LEMMA SealInvStep ==
  ASSUME SealInv, [Next]_vars
  PROVE  SealInv'
<1> USE DEF SealInv
<1>0. TypeInv'
  BY TypeInvStep
<1>1. CASE UNCHANGED vars \/ User
  <2>1. UNCHANGED <<pc, seal, foreign, granted, argVars, profile>>
    BY <1>1 DEF vars, deviceVars, User, UserOpens, UserQuits, UserDeletes, Nothing
  <2> QED
    BY <1>0, <2>1 DEF Sealed, argVars
<1>2. ASSUME NEW c \in Clients, Begin(c), NEW x \in Clients PROVE Sealed(x)'
  <2> PICK command \in Commands, d \in Devices : Start(c, command, d)
    BY <1>2 DEF Begin
  <2>1. CASE x = c
    <3>1. pc'[x] \in {"lookup", "launch", "pid", "ask"}
      BY <2>1 DEF Start, TypeInv, ClientTypes
    <3> QED
      BY <3>1, SealedElsewhere
  <2>2. CASE x # c
    <3>1. /\ pc'[x] = pc[x] /\ version'[x] = version[x] /\ target'[x] = target[x]
          /\ UNCHANGED <<seal, foreign, granted, profile>>
      BY <2>2 DEF Start, OnHost, deviceVars, TypeInv, ClientTypes
    <3> QED
      BY <3>1, SealedFrame
  <2> QED
    BY <2>1, <2>2
<1>3. ASSUME NEW c \in Clients, Step(c), NEW x \in Clients PROVE Sealed(x)'
  <2>0. /\ UNCHANGED <<cmd, target, version>>
        /\ \A y \in Clients \ {c} : pc'[y] = pc[y] /\ profile'[y] = profile[y]
    BY <1>3, OthersStay
  <2>1. CASE Ask(c) \/ Removed(c) \/ LookUp(c) \/ Choose(c) \/ Reply(c) \/ LookUpPid(c)
             \/ KillRunning(c) \/ Remove(c) \/ Launch(c)
    <3>1. UNCHANGED <<seal, foreign, granted>>
      BY <2>1 DEF Ask, Removed, LookUp, Choose, Reply, LookUpPid, KillRunning, Remove,
                  Launch, OnHost, OnDevice, deviceVars
    <3>2. pc'[c] \notin {"grant", "put"}
      BY <2>1 DEF Ask, Removed, LookUp, Choose, Reply, LookUpPid, KillRunning, Remove,
                  Launch, Uninstalled, Terminated, Goes, Exit, TypeInv, ClientTypes
    <3> QED
      BY <2>0, <3>1, <3>2, SealedFrame, SealedElsewhere
  <2>2. CASE Sign(c)
    <3>1. pc'[c] \in {"signing", "done"}
      BY <2>2 DEF Sign, Goes, Exit, TypeInv, ClientTypes
    <3>2. CASE UNCHANGED <<seal, foreign, granted>>
      BY <2>0, <3>1, <3>2, SealedFrame, SealedElsewhere
    <3>3. CASE Signs(c, Broken) /\ x # c
               /\ foreign'[x] = (foreign[x] \/ x \in Signers(version[c]))
      <4>1. UNCHANGED granted /\ \A v \in Versions \ {version[c]} : seal'[v] = seal[v]
        BY <3>3 DEF Signs, deviceVars, TypeInv, DeviceTypes
      <4>2. pc[x] \in {"grant", "put"} => version[x] \in Versions
        BY DEF TypeInv, Flow
      <4> QED
        BY <2>0, <3>3, <4>1, <4>2 DEF Sealed, Signers
    <3> QED
      BY <2>2, <3>1, <3>2, <3>3, SealedElsewhere DEF Sign, OnHost, deviceVars
  <2>3. CASE Signed(c)
    <3>1. CASE Exit(c, "Raised") /\ OnHost
      <4>1. pc'[c] = "done" /\ UNCHANGED <<seal, foreign, granted>>
        BY <3>1 DEF Exit, OnHost, deviceVars, TypeInv, ClientTypes
      <4> QED
        BY <2>0, <4>1, SealedFrame, SealedElsewhere
    <3>2. ASSUME NEW s \in Seals, Signs(c, s), foreign[c] \/ s = profile[c],
                 foreign' = [y \in Clients |->
                    foreign[y] \/ (y # c /\ y \in Signers(version[c]))],
                 Goes(c, "grant"), At(c, "signing")
          PROVE  Sealed(x)'
      <4>0. version[c] \in Versions /\ UNCHANGED <<granted, profile>> /\ pc'[c] = "grant"
        BY <3>2 DEF Signs, deviceVars, Goes, At, TypeInv, Flow, ClientTypes
      <4>1. seal'[version[c]] = s /\ \A v \in Versions \ {version[c]} : seal'[v] = seal[v]
        BY <3>2, <4>0 DEF Signs, TypeInv, DeviceTypes
      <4>2. pc[x] \in {"grant", "put"} => version[x] \in Versions
        BY DEF TypeInv, Flow
      <4>3. CASE x = c
        BY <2>0, <3>2, <4>0, <4>1, <4>3 DEF Sealed
      <4>4. CASE x # c
        BY <2>0, <3>2, <4>0, <4>1, <4>2, <4>4 DEF Sealed, Signers
      <4> QED
        BY <4>3, <4>4
    <3>3. profile[c] \in Seals /\ Broken \in Seals
      BY <2>3 DEF Signed, At, TypeInv, Flow, Seals
    <3> QED
      BY <2>3, <3>1, <3>2, <3>3 DEF Signed
  <2>4. CASE Grant(c)
    <3>1. UNCHANGED <<seal, foreign>> /\ target[c] \in Devices
          /\ \A d \in Devices : granted[d] \subseteq granted'[d]
      BY <2>4 DEF Grant, OnDevice, TypeInv, DeviceTypes, ClientTypes
    <3>2. CASE x = c
      <4>1. CASE pc'[c] = "put"
        <5>1. pc[c] = "grant" /\ UNCHANGED profile /\ profile[c] \in granted'[target[c]]
          BY <2>4, <3>1, <4>1 DEF Grant, At, Exit, Goes, TypeInv, DeviceTypes, ClientTypes
        <5> QED
          BY <2>0, <3>1, <3>2, <4>1, <5>1 DEF Sealed
      <4>2. CASE pc'[c] = "done"
        BY <3>2, <4>2, SealedElsewhere
      <4> QED
        BY <2>4, <4>1, <4>2 DEF Grant, Goes, Exit, TypeInv, ClientTypes
    <3>3. CASE x # c
      <4>1. target[x] \in Devices
        BY DEF TypeInv, ClientTypes
      <4> QED
        BY <2>0, <3>1, <3>3, <4>1, SealedFrame
    <3> QED
      BY <3>2, <3>3
  <2>5. CASE Put(c)
    <3>1. UNCHANGED <<seal, foreign, granted>> /\ pc'[c] \in {"placed", "done"}
      BY <2>5 DEF Put, OnDevice, Goes, Exit, TypeInv, ClientTypes
    <3> QED
      BY <2>0, <3>1, SealedFrame, SealedElsewhere
  <2> QED
    BY <1>3, <2>1, <2>2, <2>3, <2>4, <2>5 DEF Step, Uninstall, Install
<1> QED
  BY <1>0, <1>1, <1>2, <1>3 DEF Next

\* What is sent to a device is sealed with the profile it was given, unless
\* another process has signed the same directory meanwhile, for any number of
\* processes that sign the same directories.
THEOREM PhysicalSeals == Spec => []SealedForDevice
<1>1. Init => SealInv
  BY TypeInvInit DEF SealInv, Sealed, Init
<1>2. SealInv /\ [Next]_vars => SealInv'
  BY SealInvStep
<1>3. SealInv => SealedForDevice
  BY DEF SealInv, Sealed, SealedForDevice
<1> QED
  BY <1>1, <1>2, <1>3, PTL DEF Spec

-----------------------------------------------------------------------------
\* The app of client c has to be stopped by now.
Due(c) == \/ pc[c] = "remove"
          \/ pc[c] = "done" /\ cmd[c] = "killApp" /\ result[c] = "EverythingOkay"

Stopped(c) == Due(c) => excused[c] \/ ~running[target[c]]

StopInv == TypeInv /\ \A c \in Clients : Stopped(c)

\* Nobody is told that an app has been started, but nobody is wrong about it.
LEMMA StoppedFrame ==
  ASSUME StopInv, NEW x \in Clients, Due(x)' => Due(x), target'[x] = target[x],
         running'[target[x]] => running[target[x]], excused'[x] = excused[x]
  PROVE  Stopped(x)'
  BY DEF StopInv, Stopped

LEMMA StoppedStart ==
  ASSUME StopInv, NEW x \in Clients, NEW d \in Devices, Starts(d),
         Due(x)' => Due(x), target'[x] = target[x]
  PROVE  Stopped(x)'
<1>1. /\ running' = [running EXCEPT ![d] = TRUE]
      /\ excused'[x] = (excused[x] \/ (target[x] = d /\ pc[x] \in {"kill", "remove", "done"}))
  BY DEF Starts
<1>2. target[x] # d => running'[target[x]] = running[target[x]]
  BY <1>1 DEF StopInv, TypeInv, DeviceTypes, ClientTypes
<1> QED
  BY <1>1, <1>2 DEF StopInv, Stopped, Due

LEMMA StopInvStep ==
  ASSUME StopInv, [Next]_vars
  PROVE  StopInv'
<1> USE DEF StopInv
<1>0. TypeInv'
  BY TypeInvStep
<1>1. CASE UNCHANGED vars
  BY <1>0, <1>1 DEF vars, deviceVars, argVars, Stopped, Due
<1>2. ASSUME NEW d \in Devices, UserOpens(d) \/ UserQuits(d) \/ UserDeletes(d),
             NEW x \in Clients
      PROVE  Stopped(x)'
  <2>1. UNCHANGED <<pc, cmd, target, result>>
    BY <1>2 DEF UserOpens, UserQuits, UserDeletes, Nothing, argVars
  <2>2. CASE UserOpens(d)
    BY <2>1, <2>2, StoppedStart DEF UserOpens, Due
  <2>3. CASE UserQuits(d) \/ UserDeletes(d)
    <3>1. /\ UNCHANGED excused
          /\ \A y \in Devices : running'[y] => running[y]
      BY <2>3 DEF UserQuits, UserDeletes, TypeInv, DeviceTypes
    <3>2. target[x] \in Devices
      BY DEF TypeInv, ClientTypes
    <3> QED
      BY <2>1, <3>1, <3>2, StoppedFrame DEF Due
  <2> QED
    BY <1>2, <2>2, <2>3
<1>3. ASSUME NEW c \in Clients, Begin(c), NEW x \in Clients PROVE Stopped(x)'
  <2> PICK command \in Commands, d \in Devices : Start(c, command, d)
    BY <1>3 DEF Begin
  <2>1. CASE x = c
    <3>1. pc'[x] \in {"lookup", "launch", "pid", "ask"}
      BY <2>1 DEF Start, TypeInv, ClientTypes
    <3> QED
      BY <3>1 DEF Stopped, Due
  <2>2. CASE x # c
    <3>1. /\ pc'[x] = pc[x] /\ target'[x] = target[x] /\ cmd'[x] = cmd[x]
          /\ UNCHANGED <<running, excused, result>>
      BY <2>2 DEF Start, OnHost, deviceVars, TypeInv, ClientTypes
    <3> QED
      BY <3>1, StoppedFrame DEF Due
  <2> QED
    BY <2>1, <2>2
<1>4. ASSUME NEW c \in Clients, Step(c), NEW x \in Clients PROVE Stopped(x)'
  <2>0. /\ UNCHANGED <<cmd, target, version>>
        /\ \A y \in Clients \ {c} : pc'[y] = pc[y] /\ result'[y] = result[y]
    BY <1>4, OthersStay
  <2>1. /\ target[x] \in Devices /\ target[c] \in Devices /\ Flow(c)
        /\ x # c => (Due(x)' <=> Due(x))
    BY <2>0 DEF TypeInv, ClientTypes, Due
  <2>2. CASE Ask(c) \/ Removed(c) \/ LookUp(c) \/ Choose(c) \/ Reply(c)
             \/ Sign(c) \/ Signed(c) \/ Grant(c) \/ Put(c) \/ Remove(c)
    <3>1. UNCHANGED excused /\ \A y \in Devices : running'[y] => running[y]
      BY <2>2 DEF Ask, Removed, LookUp, Choose, Reply, Sign, Signed, Signs, Grant, Put,
                  Remove, OnHost, OnDevice, deviceVars, TypeInv, DeviceTypes
    <3>2. cmd[c] # "killApp"
      BY <2>1, <2>2 DEF Ask, Removed, LookUp, Choose, Reply, Sign, Signed, Grant, Put,
                        Remove, At, Flow
    <3>3. pc'[c] # "remove"
      BY <2>2 DEF Ask, Removed, LookUp, Choose, Reply, Sign, Signed, Grant, Put,
                  Remove, Uninstalled, Goes, Exit, TypeInv, ClientTypes
    <3>4. Due(c)' => Due(c)
      BY <2>0, <3>2, <3>3 DEF Due
    <3> QED
      BY <2>0, <2>1, <3>1, <3>4, StoppedFrame
  <2>3. CASE LookUpPid(c)
    <3>1. UNCHANGED running
      BY <2>3 DEF LookUpPid, deviceVars
    <3>2. CASE UNCHANGED excused /\ Goes(c, "kill")
      <4>1. pc'[c] = "kill"
        BY <3>2 DEF Goes, TypeInv, ClientTypes
      <4>2. Due(c)' => Due(c)
        BY <4>1 DEF Due
      <4> QED
        BY <2>0, <2>1, <3>1, <3>2, <4>2, StoppedFrame
    <3>3. CASE excused' = [excused EXCEPT ![c] = running[target[c]]]
      <4>1. excused'[c] = running[target[c]] /\ \A y \in Clients \ {c} : excused'[y] = excused[y]
        BY <3>3 DEF TypeInv, DeviceTypes
      <4> QED
        BY <2>0, <2>1, <3>1, <4>1, StoppedFrame DEF Stopped
    <3> QED
      BY <2>3, <3>2, <3>3 DEF LookUpPid
  <2>4. CASE KillRunning(c)
    <3>0. \A y \in Devices : running'[y] => running[y]
      BY <2>4 DEF KillRunning, TypeInv, DeviceTypes
    <3>1. CASE /\ running' = [running EXCEPT ![target[c]] = FALSE]
               /\ excused' = [excused EXCEPT ![c] = FALSE]
      <4>1. ~running'[target[c]] /\ \A y \in Clients \ {c} : excused'[y] = excused[y]
        BY <2>1, <3>1 DEF TypeInv, DeviceTypes
      <4> QED
        BY <2>0, <2>1, <3>0, <4>1, StoppedFrame DEF Stopped
    <3>2. CASE UNCHANGED excused /\ Terminated(c, FALSE)
      <4>1. /\ pc'[c] \in {"done", "choose"}
            /\ cmd[c] = "killApp" => result'[c] = "InternalError"
        BY <3>2 DEF Terminated, Uninstalled, Goes, Exit, TypeInv, ClientTypes
      <4>2. Due(c)' => Due(c)
        BY <2>0, <4>1 DEF Due
      <4> QED
        BY <2>0, <2>1, <3>0, <3>2, <4>2, StoppedFrame
    <3> QED
      BY <2>4, <3>1, <3>2 DEF KillRunning
  <2>5. CASE Launch(c)
    <3>1. cmd[c] = "launchApp" /\ pc'[c] \in {"launched", "done"}
      BY <2>1, <2>5 DEF Launch, At, Flow, Goes, Exit, TypeInv, ClientTypes
    <3>2. Due(c)' => Due(c)
      BY <2>0, <3>1 DEF Due
    <3>3. CASE Starts(target[c])
      BY <2>0, <2>1, <3>2, <3>3, StoppedStart
    <3>4. CASE UNCHANGED <<running, excused>>
      BY <2>0, <2>1, <3>2, <3>4, StoppedFrame
    <3> QED
      BY <2>5, <3>3, <3>4 DEF Launch
  <2> QED
    BY <1>4, <2>2, <2>3, <2>4, <2>5 DEF Step, Uninstall, Install
<1> QED
  BY <1>0, <1>1, <1>2, <1>3, <1>4 DEF Next, User

\* Apps are stopped before they are removed and when kill-app says so, for any
\* number of processes and whatever the user does, but for what the look-up of
\* the pid or a later start excuses.
THEOREM PhysicalStops == Spec => []StoppedFirst
<1>1. Init => StopInv
  BY TypeInvInit DEF StopInv, Stopped, Due, Init
<1>2. StopInv /\ [Next]_vars => StopInv'
  BY StopInvStep
<1>3. StopInv => StoppedFirst
  BY DEF StopInv, Stopped, Due, StoppedFirst
<1> QED
  BY <1>1, <1>2, <1>3, PTL DEF Spec

-----------------------------------------------------------------------------
\* A step of client c that answers nothing: its place decides whether the
\* device has served it.
ServedAt(c, there) == \/ there \in {"placed", "launched"}
                      \/ there = "removed" /\ cmd[c] = "uninstall"

LEMMA GoesServes ==
  ASSUME TypeInv, NEW c \in Clients, NEW there, Goes(c, there)
  PROVE  /\ UNCHANGED <<Op, target, version, result>>
         /\ Served' = IF ServedAt(c, there) THEN Served \cup {c} ELSE Served \ {c}
<1>1. UNCHANGED <<cmd, target, version, result>> /\ pc' = [pc EXCEPT ![c] = there]
  BY DEF Goes, argVars
<1>2. \A x \in Clients : pc'[x] = IF x = c THEN there ELSE pc[x]
  BY <1>1 DEF TypeInv, ClientTypes
<1> QED
  BY <1>1, <1>2 DEF Op, Served, ServedAt

LEMMA ExitServes ==
  ASSUME TypeInv, NEW c \in Clients, NEW code, Exit(c, code)
  PROVE  /\ UNCHANGED <<Op, target, version>>
         /\ result' = [result EXCEPT ![c] = code]
         /\ Served' = Served \ {c}
<1>1. UNCHANGED <<cmd, target, version>> /\ pc' = [pc EXCEPT ![c] = "done"]
      /\ result' = [result EXCEPT ![c] = code]
  BY DEF Exit
<1>2. \A x \in Clients : pc'[x] = IF x = c THEN "done" ELSE pc[x]
  BY <1>1 DEF TypeInv, ClientTypes
<1> QED
  BY <1>1, <1>2 DEF Op, Served

\* What a client at work is to Device.
LEMMA AtWork ==
  ASSUME TypeInv, NEW c \in Clients, pc[c] \notin {"idle", "done"}
  PROVE  /\ Op[c] # "none" /\ result[c] = "none"
         /\ c \in Served <=> ServedAt(c, pc[c])
  BY DEF TypeInv, Flow, ClientTypes, Op, Served, ServedAt, Commands

\* A step that changes no app and ends in no place that is served.
LEMMA WorksQuietly ==
  ASSUME TypeInv, NEW c \in Clients, NEW there, pc[c] \notin {"idle", "done"},
         Goes(c, there), UNCHANGED bundle,
         ~ServedAt(c, there), ~ServedAt(c, pc[c])
  PROVE  Device!Work(c)
<1>1. UNCHANGED Served
  BY GoesServes, AtWork
<1> QED
  BY <1>1, GoesServes, AtWork DEF Device!Work, Device!Works, Device!Touches

\* An answer that is a refusal, or to a client that has been served.
LEMMA AnswersRightly ==
  ASSUME TypeInv, NEW c \in Clients, NEW code \in Results \ {"none"},
         pc[c] \notin {"idle", "done"},
         Exit(c, code), UNCHANGED bundle,
         code = "EverythingOkay" => c \in Served \/ Device!Promise(c)'
  PROVE  Device!Work(c)
<1>1. code \in Device!Answers
  BY DEF Results, Device!Answers
<1>2. Device!Replies(c)
  BY <1>1, ExitServes DEF Device!Replies
<1> QED
  BY <1>2, ExitServes, AtWork DEF Device!Work, Device!Touches

LEMMA UninstalledRightly ==
  ASSUME TypeInv, NEW c \in Clients, NEW code \in {"EverythingOkay", "InternalError"},
         pc[c] \notin {"idle", "done"}, Uninstalled(c, code), UNCHANGED bundle,
         cmd[c] = "install" => ~ServedAt(c, pc[c]),
         cmd[c] = "uninstall" /\ code = "EverythingOkay" => ServedAt(c, pc[c])
  PROVE  Device!Work(c)
<1>1. CASE cmd[c] = "uninstall" /\ Exit(c, code)
  <2>1. code \in Results \ {"none"} /\ (code = "EverythingOkay" => c \in Served)
    BY <1>1, AtWork DEF Results
  <2> QED
    BY <1>1, <2>1, AnswersRightly
<1>2. CASE cmd[c] = "install" /\ Goes(c, "choose")
  BY <1>2, WorksQuietly DEF ServedAt
<1> QED
  BY <1>1, <1>2 DEF Uninstalled

LEMMA TerminatedRightly ==
  ASSUME TypeInv, NEW c \in Clients, NEW yes \in BOOLEAN, pc[c] \in {"pid", "kill"},
         Terminated(c, yes), UNCHANGED bundle
  PROVE  Device!Work(c)
<1>0. ~ServedAt(c, pc[c])
  BY DEF ServedAt
<1>1. CASE cmd[c] = "killApp" /\ Exit(c, IF yes THEN "EverythingOkay" ELSE "InternalError")
  <2>1. Device!Promise(c)'
    <3>1. Op'[c] = "other"
      BY <1>1, ExitServes DEF Op
    <3> QED
      BY <3>1 DEF Device!Promise
  <2> QED
    BY <1>1, <2>1, AnswersRightly DEF Results
<1>2. CASE Goes(c, "remove")
  BY <1>0, <1>2, WorksQuietly DEF ServedAt
<1>3. CASE Uninstalled(c, "InternalError")
  BY <1>0, <1>3, UninstalledRightly
<1> QED
  BY <1>1, <1>2, <1>3 DEF Terminated

\* Every step of a client is a step of Device's, or none.
LEMMA StepImplements ==
  ASSUME TypeInv, NEW c \in Clients, Step(c)
  PROVE  Device!Work(c)
<1>0. Flow(c) /\ target[c] \in Devices
  BY DEF TypeInv, ClientTypes
<1>1. CASE Ask(c)
  <2>1. pc[c] = "ask" /\ UNCHANGED bundle /\ ~ServedAt(c, pc[c])
    BY <1>1 DEF Ask, At, OnHost, deviceVars, ServedAt
  <2>2. ASSUME cmd[c] = "isInstalled",
               NEW code \in {"EverythingOkay", "False"}, Exit(c, code)
        PROVE  Device!Work(c)
    <3>1. Op'[c] = "other"
      BY <2>2, ExitServes DEF Op
    <3> QED
      BY <2>1, <2>2, <3>1, AnswersRightly DEF Device!Promise, Results
  <2>3. CASE Goes(c, "pid")
    BY <2>1, <2>3, WorksQuietly DEF ServedAt
  <2>4. CASE Uninstalled(c, "InternalError")
    BY <2>1, <2>4, UninstalledRightly
  <2> QED
    BY <1>1, <2>2, <2>3, <2>4 DEF Ask
<1>2. CASE LookUpPid(c) \/ KillRunning(c)
  <2>1. pc[c] \in {"pid", "kill"} /\ UNCHANGED bundle /\ ~ServedAt(c, pc[c])
    BY <1>2 DEF LookUpPid, KillRunning, At, deviceVars, ServedAt
  <2>2. CASE Goes(c, "kill")
    BY <2>1, <2>2, WorksQuietly DEF ServedAt
  <2>3. ASSUME NEW yes \in BOOLEAN, Terminated(c, yes) PROVE Device!Work(c)
    BY <2>1, <2>3, TerminatedRightly
  <2> QED
    BY <1>2, <2>2, <2>3 DEF LookUpPid, KillRunning
<1>3. CASE Remove(c)
  <2>1. pc[c] = "remove" /\ cmd[c] \in {"install", "uninstall"} /\ ~ServedAt(c, pc[c])
    BY <1>0, <1>3 DEF Remove, At, Flow, ServedAt
  <2>2. CASE Goes(c, "removed") /\ bundle' = [bundle EXCEPT ![target[c]] = None]
    <3>1. /\ Op[c] = cmd[c] /\ UNCHANGED <<Op, target, version, result>>
          /\ Served' = IF cmd[c] = "uninstall" THEN Served \cup {c} ELSE Served \ {c}
      BY <2>1, <2>2, GoesServes DEF Op, ServedAt
    <3>2. bundle'[target[c]] = None
      BY <1>0, <2>2 DEF TypeInv, DeviceTypes
    <3>3. c \notin Served /\ result[c] = "none"
      BY <2>1, AtWork
    <3>4. Device!Touches(c)
      BY <2>1, <2>2, <3>1, <3>3 DEF Device!Touches
    <3>5. CASE cmd[c] = "uninstall"
      <4>1. Device!Serves(c)
        BY <3>1, <3>2, <3>5 DEF Device!Serves, Device!Promise
      <4> QED
        BY <2>1, <3>1, <3>3, <3>4, <4>1 DEF Device!Work
    <3>6. CASE cmd[c] = "install"
      <4>1. Device!Works(c)
        BY <3>1, <3>3, <3>6 DEF Device!Works
      <4> QED
        BY <2>1, <3>1, <3>3, <3>4, <4>1 DEF Device!Work
    <3> QED
      BY <2>1, <3>5, <3>6
  <2>3. CASE Uninstalled(c, "InternalError") /\ UNCHANGED bundle
    BY <2>1, <2>3, UninstalledRightly
  <2> QED
    BY <1>3, <2>2, <2>3 DEF Remove
<1>4. CASE Removed(c)
  <2>1. pc[c] = "removed" /\ UNCHANGED bundle
    BY <1>4 DEF Removed, At, OnHost, deviceVars
  <2> QED
    BY <1>4, <2>1, UninstalledRightly DEF Removed, ServedAt
<1>5. CASE LookUp(c)
  <2>1. pc[c] = "lookup" /\ cmd[c] = "install" /\ UNCHANGED bundle /\ ~ServedAt(c, pc[c])
    BY <1>0, <1>5 DEF LookUp, At, OnHost, deviceVars, ServedAt, Flow
  <2>2. CASE Goes(c, "ask")
    BY <2>1, <2>2, WorksQuietly DEF ServedAt
  <2>3. CASE bundle[target[c]] = version[c] /\ Exit(c, "EverythingOkay")
    <3>1. Op'[c] = "install" /\ UNCHANGED <<target, version>>
      BY <2>1, <2>3, ExitServes DEF Op
    <3>2. Device!Promise(c)'
      BY <2>1, <2>3, <3>1 DEF Device!Promise
    <3> QED
      BY <2>1, <2>3, <3>2, AnswersRightly DEF Results
  <2> QED
    BY <1>5, <2>2, <2>3 DEF LookUp
<1>6. CASE Choose(c)
  <2>1. pc[c] = "choose" /\ UNCHANGED bundle /\ ~ServedAt(c, pc[c])
    BY <1>6 DEF Choose, At, OnHost, deviceVars, ServedAt
  <2>2. CASE Exit(c, "InternalError")
    BY <2>1, <2>2, AnswersRightly DEF Results
  <2>3. CASE pc' = [pc EXCEPT ![c] = "sign"] /\ UNCHANGED <<argVars, result>>
    <3>1. \A x \in Clients : pc'[x] = IF x = c THEN "sign" ELSE pc[x]
      BY <2>3 DEF TypeInv, ClientTypes
    <3>2. UNCHANGED <<Op, Served, target, version, result>>
      BY <2>1, <2>3, <3>1 DEF Op, Served, argVars
    <3> QED
      BY <2>1, <3>2, AtWork DEF Device!Work, Device!Works, Device!Touches
  <2> QED
    BY <1>6, <2>2, <2>3 DEF Choose
<1>7. CASE Sign(c) \/ Signed(c) \/ Grant(c)
  <2>1. /\ pc[c] \in {"sign", "signing", "grant"} /\ UNCHANGED bundle
        /\ ~ServedAt(c, pc[c])
    BY <1>7 DEF Sign, Signed, Signs, Grant, At, OnHost, deviceVars, ServedAt
  <2>2. \/ Exit(c, "Raised") \/ Exit(c, "InternalError")
        \/ Goes(c, "signing") \/ Goes(c, "grant") \/ Goes(c, "put")
    BY <1>7 DEF Sign, Signed, Grant
  <2> QED
    BY <2>1, <2>2, AnswersRightly, WorksQuietly DEF Results, ServedAt
<1>8. CASE Put(c)
  <2>1. pc[c] = "put" /\ cmd[c] = "install" /\ ~ServedAt(c, pc[c])
    BY <1>0, <1>8 DEF Put, At, Flow, ServedAt
  <2>2. CASE Goes(c, "placed") /\ bundle' = [bundle EXCEPT ![target[c]] = version[c]]
    <3>1. /\ Op[c] = "install" /\ UNCHANGED <<Op, target, version, result>>
          /\ Served' = Served \cup {c}
      BY <2>1, <2>2, GoesServes DEF Op, ServedAt
    <3>2. bundle'[target[c]] = version[c]
      BY <1>0, <2>2 DEF TypeInv, DeviceTypes
    <3>3. c \notin Served /\ result[c] = "none"
      BY <2>1, AtWork
    <3>4. Device!Touches(c)
      BY <2>2, <3>1, <3>3 DEF Device!Touches
    <3>5. Device!Serves(c)
      BY <3>1, <3>2 DEF Device!Serves, Device!Promise
    <3> QED
      BY <3>1, <3>3, <3>4, <3>5 DEF Device!Work
  <2>3. CASE Exit(c, "InternalError") /\ UNCHANGED bundle
    BY <2>1, <2>3, AnswersRightly DEF Results
  <2> QED
    BY <1>8, <2>2, <2>3 DEF Put
<1>9. CASE Launch(c)
  <2>1. /\ pc[c] = "launch" /\ cmd[c] = "launchApp" /\ UNCHANGED bundle
        /\ ~ServedAt(c, pc[c])
    BY <1>0, <1>9 DEF Launch, At, Flow, ServedAt
  <2>2. CASE Goes(c, "launched") /\ bundle[target[c]] # None
    <3>1. /\ Op[c] = "launchApp" /\ UNCHANGED <<Op, target, version, result>>
          /\ Served' = Served \cup {c}
      BY <2>1, <2>2, GoesServes DEF Op, ServedAt
    <3>2. Device!Serves(c)
      BY <2>1, <2>2, <3>1 DEF Device!Serves, Device!Promise
    <3> QED
      BY <2>1, <3>1, <3>2, AtWork DEF Device!Work, Device!Touches
  <2>3. CASE Exit(c, "InternalError")
    BY <2>1, <2>3, AnswersRightly DEF Results
  <2> QED
    BY <1>9, <2>2, <2>3 DEF Launch
<1>10. CASE Reply(c)
  <2>1. pc[c] \in {"placed", "launched"} /\ UNCHANGED bundle /\ c \in Served
    BY <1>10 DEF Reply, OnHost, deviceVars, Served
  <2> QED
    BY <1>10, <2>1, AnswersRightly DEF Reply, Results
<1> QED
  BY <1>1, <1>2, <1>3, <1>4, <1>5, <1>6, <1>7, <1>8, <1>9, <1>10
  DEF Step, Uninstall, Install

LEMMA BeginImplements ==
  ASSUME TypeInv, NEW c \in Clients, Begin(c)
  PROVE  Device!Begin(c)
<1> PICK command \in Commands, d \in Devices : Start(c, command, d)
  BY DEF Begin
<1>1. /\ pc[c] = "idle" /\ UNCHANGED <<bundle, result>>
      /\ cmd' = [cmd EXCEPT ![c] = command] /\ target' = [target EXCEPT ![c] = d]
  BY DEF Start, At, OnHost, deviceVars
<1>2. \E v \in Versions \cup {None} : version' = [version EXCEPT ![c] = v]
  <2>1. CASE command = "install"
    BY <2>1 DEF Start
  <2>2. CASE command # "install"
    <3>1. version' = [version EXCEPT ![c] = version[c]]
      BY <2>2 DEF Start, TypeInv, ClientTypes
    <3> QED
      BY <3>1 DEF TypeInv, ClientTypes
  <2> QED
    BY <2>1, <2>2
<1>3. \A x \in Clients : cmd'[x] = IF x = c THEN command ELSE cmd[x]
  BY <1>1 DEF TypeInv, ClientTypes
<1>4. Op[c] = "none" /\ \E o \in Device!Commands : Op' = [Op EXCEPT ![c] = o]
  <2>1. Op[c] = "none"
    BY <1>1 DEF TypeInv, Flow, Op
  <2>2. Op' = [Op EXCEPT ![c] = IF command \in {"install", "uninstall", "launchApp"}
                                THEN command ELSE "other"]
    BY <1>3 DEF Op, Commands
  <2> QED
    BY <2>1, <2>2 DEF Device!Commands
<1>5. UNCHANGED Served
  <2>1. pc'[c] \in {"lookup", "launch", "pid", "ask"}
        /\ \A x \in Clients : x # c => pc'[x] = pc[x]
    BY DEF Start, TypeInv, ClientTypes
  <2> QED
    BY <1>1, <1>3, <2>1 DEF Served
<1> QED
  BY <1>1, <1>2, <1>4, <1>5 DEF Device!Begin

\* PhysicalDevice implements Device: every behaviour of the installations,
\* uninstallations and launches of any number of processes on any number of
\* devices is one that class Device promises.
THEOREM PhysicalImplements == Spec => ImplementsDevice
<1>1. Init => Device!Init
  <2> SUFFICES ASSUME Init PROVE Device!Init
    OBVIOUS
  <2>1. Op = [c \in Clients |-> "none"] /\ Served = {}
    BY DEF Init, Op, Served
  <2> QED
    BY <2>1 DEF Init, Device!Init
<1>2. TypeInv /\ [Next]_vars => [Device!Next]_(Device!vars)
  <2> SUFFICES ASSUME TypeInv, [Next]_vars PROVE [Device!Next]_(Device!vars)
    OBVIOUS
  <2>1. CASE UNCHANGED vars
    BY <2>1 DEF vars, deviceVars, argVars, Op, Served, Device!vars
  <2>2. ASSUME NEW c \in Clients, Begin(c) \/ Step(c) PROVE Device!Next
    BY <2>2, BeginImplements, StepImplements DEF Device!Next
  <2>3. ASSUME NEW d \in Devices, UserOpens(d) \/ UserQuits(d) \/ UserDeletes(d)
        PROVE  [Device!Next]_(Device!vars)
    <3>1. UNCHANGED <<pc, cmd, target, version, result>>
      BY <2>3 DEF UserOpens, UserQuits, UserDeletes, Nothing, argVars
    <3>2. UNCHANGED <<Op, Served, target, version, result>>
      BY <3>1 DEF Op, Served
    <3>3. UNCHANGED bundle \/ Device!UserRemoves(d)
      BY <2>3, <3>2 DEF UserOpens, UserQuits, UserDeletes, Device!UserRemoves
    <3> QED
      BY <3>2, <3>3 DEF Device!Next, Device!vars
  <2> QED
    BY <2>1, <2>2, <2>3 DEF Next, User
<1>3. Init => TypeInv
  BY TypeInvInit
<1>4. TypeInv /\ [Next]_vars => TypeInv'
  BY TypeInvStep
<1> QED
  BY <1>1, <1>2, <1>3, <1>4, PTL DEF Spec, ImplementsDevice, Device!Spec
=============================================================================
