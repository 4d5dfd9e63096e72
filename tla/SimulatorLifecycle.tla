------------------------- MODULE SimulatorLifecycle -------------------------
(***************************************************************************)
(* The life cycle of simulators as Devices/Simulator.m drives it: boot,    *)
(* shutdown, killSimulatorApp and eraseSimulator, run by several           *)
(* iOSDeviceManager processes at once against the one CoreSimulator        *)
(* service of the machine, while the user may act too.                     *)
(*                                                                         *)
(* Every read of a device's state and every request to CoreSimulator is a  *)
(* step of its own, because nothing locks a device between them.  Time is  *)
(* abstract: a wait with a timeout ends when the wanted state is there or, *)
(* whenever it is not, by running out; a request is waited for with await: *)
(* alone, which has no timeout, and may be left unanswered for ever.       *)
(*                                                                         *)
(* boot, shutdown and killSimulatorApp are procedures: they end at a pc    *)
(* named after what they return (bootYES, bootNO, ...), where the command  *)
(* that called them goes on.                                               *)
(***************************************************************************)
EXTENDS Naturals

CONSTANTS Sims,         \* the simulators of the FBSimulatorSet
          Clients,      \* iOSDeviceManager processes
          Apps,         \* instances of Simulator.app that may ever run
          MaxMeddling   \* bound on the interventions of the user

Nobody == "nobody"      \* who moves a simulator when no client does

ASSUME LifecycleAssumption ==
  /\ Sims # {} /\ Clients # {} /\ Nobody \notin Clients
  /\ MaxMeddling \in Nat

\* FBiOSTargetState; DFU, Recovery and RestoreOS are handled like Unknown.
DeviceState == {"Creating", "Shutdown", "Booting", "Booted",
                "ShuttingDown", "Unknown"}

Codes == {"EverythingOkay", "GenericFailure", "InternalError"}

VARIABLES state,      \* CoreSimulator's state of each simulator
          app,        \* of each instance of Simulator.app
          meddling,   \* interventions of the user so far
          pc,         \* where each client is
          cmd,        \* its command
          target,     \* the simulator the command names
          sim,        \* the simulator the running procedure works on
          victims,    \* instances of Simulator.app still to terminate
          todo,       \* simulators still to shut down
          result,     \* the exit code
          disturbed   \* history: simulators another actor has moved since the
                      \* client last learnt their state

devVars == <<state, app, meddling>>
callVars == <<cmd, target, sim, victims, todo, result>>
vars == <<devVars, pc, callVars, disturbed>>

Init ==
  /\ state \in [Sims -> DeviceState]
  /\ app \in [Apps -> {"absent", "running"}]
  /\ meddling = 0
  /\ pc = [c \in Clients |-> "idle"]
  /\ cmd = [c \in Clients |-> "none"]
  /\ target = [c \in Clients |-> CHOOSE s \in Sims : TRUE]
  /\ sim = target
  /\ victims = [c \in Clients |-> {}]
  /\ todo = [c \in Clients |-> {}]
  /\ result = [c \in Clients |-> "none"]
  /\ disturbed = [c \in Clients |-> {}]

-----------------------------------------------------------------------------
At(c, here) == pc[c] = here
Goto(c, there) == pc' = [pc EXCEPT ![c] = there]

\* Client c goes on elsewhere with the same arguments and locals.
Goes(c, there) == Goto(c, there) /\ UNCHANGED callVars

\* The command of client c ends with an exit code.
Answer(c, code) ==
  /\ Goto(c, "done")
  /\ result' = [result EXCEPT ![c] = code]
  /\ UNCHANGED <<cmd, target, sim, victims, todo>>

\* Client c has just learnt the state of its simulator.
Learns(c) == disturbed' = [disturbed EXCEPT ![c] = @ \ {sim[c]}]

\* Simulator s moves to st at the request of actor.
Move(actor, s, st) ==
  /\ state' = [state EXCEPT ![s] = st]
  /\ disturbed' = [c \in Clients |->
                     IF c = actor \/ pc[c] \in {"idle", "done"}
                     THEN disturbed[c] ELSE disturbed[c] \cup {s}]
  /\ UNCHANGED app

\* [self waitForSimulatorState:wanted timeout:]: YES goes to there, a
\* timeout is the given action.
Await(c, wanted, there) ==
  /\ state[sim[c]] = wanted
  /\ Goto(c, there)
  /\ Learns(c)
  /\ UNCHANGED <<devVars, callVars>>

TimesOut(c, wanted) == state[sim[c]] # wanted /\ UNCHANGED <<devVars, disturbed>>

-----------------------------------------------------------------------------
(***************************************************************************)
(* - (BOOL)boot.  The state is read once and switched on.                  *)
(***************************************************************************)
BootReadNoWait(c) == \* variant: a simulator on its way down is not waited for
  /\ At(c, "boot")
  /\ Learns(c)
  /\ UNCHANGED devVars
  /\ \/ state[sim[c]] = "Booted" /\ Goes(c, "bootYES")
     \/ state[sim[c]] = "Unknown" /\ Goes(c, "bootNO")
     \/ /\ state[sim[c]] \in {"Booting", "Creating", "ShuttingDown", "Shutdown"}
        /\ Goes(c, CASE state[sim[c]] = "Booting"  -> "waitBooted"
                     [] state[sim[c]] = "Creating" -> "waitCreated"
                     [] OTHER                      -> "issueBoot")

BootRead(c) ==
  /\ At(c, "boot")
  /\ Learns(c)
  /\ UNCHANGED devVars
  /\ LET seen == state[sim[c]] IN
       \/ seen = "Booted" /\ Goes(c, "bootYES")
       \/ seen = "Unknown" /\ Goes(c, "bootNO")
       \/ /\ seen \notin {"Booted", "Unknown"}
          /\ Goto(c, CASE seen = "Booting"      -> "waitBooted"
                       [] seen = "ShuttingDown" -> "waitDown"
                       [] seen = "Creating"     -> "waitCreated"
                       [] seen = "Shutdown"     -> "issueBoot")
          /\ UNCHANGED callVars

\* Booting: only the wait decides.
BootWaitBooted(c) ==
  /\ At(c, "waitBooted")
  /\ UNCHANGED devVars
  /\ \/ /\ state[sim[c]] = "Booted"
        /\ Learns(c)
        /\ Goes(c, "bootYES")
     \/ TimesOut(c, "Booted") /\ Goes(c, "bootNO")

\* Creating: Booted is waited for first, then Shutdown.
BootWaitCreated(c) ==
  /\ At(c, "waitCreated")
  /\ UNCHANGED devVars
  /\ \/ /\ state[sim[c]] = "Booted"
        /\ Learns(c)
        /\ Goes(c, "bootYES")
     \/ TimesOut(c, "Booted") /\ Goes(c, "waitDown")

BootWaitDown(c) ==
  /\ At(c, "waitDown")
  /\ \/ Await(c, "Shutdown", "issueBoot")
     \/ TimesOut(c, "Shutdown") /\ Goes(c, "bootNO")

\* [fbSimulator boot:]: CoreSimulator boots from Shutdown only; it may also
\* refuse for a reason of its own.
IssueBoot(c) ==
  /\ At(c, "issueBoot")
  /\ \/ /\ state[sim[c]] = "Shutdown"
        /\ Move(c, sim[c], "Booting")
        /\ Goto(c, "booting")
        /\ UNCHANGED <<meddling, callVars>>
     \/ Goes(c, "bootNO") /\ UNCHANGED <<devVars, disturbed>>

\* ... await:&error: the boot completes, or fails for a reason of its own.
BootAwaited(c) ==
  /\ At(c, "booting")
  /\ UNCHANGED devVars
  /\ \/ state[sim[c]] = "Booted" /\ Goto(c, "focus") /\ Learns(c) /\ UNCHANGED callVars
     \/ Goes(c, "bootNO") /\ UNCHANGED disturbed

\* [fbSimulator focus] opens Simulator.app on a booted simulator; a failure
\* makes boot return NO although the simulator is booted.
Focus(c) ==
  /\ At(c, "focus")
  /\ UNCHANGED <<state, meddling>>
  /\ \/ /\ state[sim[c]] = "Booted"
        /\ Learns(c)
        /\ \/ (\E a \in Apps : app[a] = "running") /\ UNCHANGED app
           \/ /\ \A a \in Apps : app[a] # "running"
              /\ \E a \in Apps : /\ app[a] = "absent"
                                 /\ app' = [app EXCEPT ![a] = "running"]
        /\ Goes(c, "bootYES")
     \/ Goes(c, "bootNO") /\ UNCHANGED <<app, disturbed>>

Boot(c) == \/ BootRead(c) \/ BootWaitBooted(c) \/ BootWaitCreated(c)
           \/ BootWaitDown(c) \/ IssueBoot(c) \/ BootAwaited(c) \/ Focus(c)

-----------------------------------------------------------------------------
(***************************************************************************)
(* - (BOOL)shutdown.  self.state is read twice.                            *)
(***************************************************************************)
ShutdownRead(c) ==
  /\ At(c, "shutdown")
  /\ Learns(c)
  /\ UNCHANGED devVars
  /\ \/ state[sim[c]] = "Shutdown" /\ Goes(c, "shutdownYES")
     \/ state[sim[c]] # "Shutdown" /\ Goes(c, "shutdown2")

ShutdownReadAgain(c) ==
  /\ At(c, "shutdown2")
  /\ Learns(c)
  /\ Goto(c, IF state[sim[c]] = "ShuttingDown" THEN "waitShutdown"
                                               ELSE "issueShutdown")
  /\ UNCHANGED <<devVars, callVars>>

ShutdownWait(c) ==
  /\ At(c, "waitShutdown")
  /\ UNCHANGED devVars
  /\ \/ /\ state[sim[c]] = "Shutdown"
        /\ Learns(c)
        /\ Goes(c, "shutdownYES")
     \/ TimesOut(c, "Shutdown") /\ Goes(c, "shutdownNO")

\* [fbSimulator shutdown]: refused of a simulator that is not up ("in shutdown
\* to avoid error"), accepted of one that is unless the request itself fails.
IssueShutdown(c) ==
  /\ At(c, "issueShutdown")
  /\ \/ /\ state[sim[c]] \in {"Booting", "Booted"}
        /\ Move(c, sim[c], "ShuttingDown")
        /\ Goto(c, "shuttingDown")
        /\ UNCHANGED <<meddling, callVars>>
     \/ Goes(c, "shutdownNO") /\ UNCHANGED <<devVars, disturbed>>

ShutdownAwaited(c) ==
  /\ At(c, "shuttingDown")
  /\ UNCHANGED devVars
  /\ \/ state[sim[c]] = "Shutdown" /\ Learns(c) /\ Goes(c, "shutdownYES")
     \/ Goes(c, "shutdownNO") /\ UNCHANGED disturbed

Shutdown(c) == \/ ShutdownRead(c) \/ ShutdownReadAgain(c) \/ ShutdownWait(c)
               \/ IssueShutdown(c) \/ ShutdownAwaited(c)

-----------------------------------------------------------------------------
(***************************************************************************)
(* + (iOSReturnStatusCode)killSimulatorApp: every instance of Simulator.app*)
(* found, then every simulator of the set; the first failure ends it.      *)
(***************************************************************************)
KillFails(c) ==
  /\ Goto(c, "killNO")
  /\ victims' = [victims EXCEPT ![c] = {}]
  /\ todo' = [todo EXCEPT ![c] = {}]
  /\ UNCHANGED <<cmd, target, sim, result>>

ListApps(c) ==
  /\ At(c, "kill")
  /\ victims' = [victims EXCEPT ![c] = {a \in Apps : app[a] = "running"}]
  /\ Goto(c, "quitApps")
  /\ UNCHANGED <<devVars, cmd, target, sim, todo, result, disturbed>>

\* terminate, then forceTerminate, each followed by two seconds of run loop:
\* the instance is gone after one of them, or the command fails.
QuitApp(c) ==
  /\ At(c, "quitApps")
  /\ UNCHANGED <<state, meddling, disturbed>>
  /\ \E a \in victims[c] :
       \/ /\ app' = [app EXCEPT ![a] = "terminated"]
          /\ victims' = [victims EXCEPT ![c] = @ \ {a}]
          /\ UNCHANGED <<pc, cmd, target, sim, todo, result>>
       \/ /\ app[a] # "terminated"
          /\ UNCHANGED app
          /\ KillFails(c)

ListSims(c) ==
  /\ At(c, "quitApps") /\ victims[c] = {}
  /\ todo' = [todo EXCEPT ![c] = Sims]
  /\ Goto(c, "eachSim")
  /\ UNCHANGED <<devVars, cmd, target, sim, victims, result, disturbed>>

NextSim(c) ==
  /\ At(c, "eachSim")
  /\ UNCHANGED <<devVars, disturbed>>
  /\ \/ \E s \in todo[c] :
          /\ sim' = [sim EXCEPT ![c] = s]
          /\ todo' = [todo EXCEPT ![c] = @ \ {s}]
          /\ Goto(c, "shutdown")
          /\ UNCHANGED <<cmd, target, victims, result>>
     \/ todo[c] = {} /\ Goes(c, "killYES")

\* The loop is the only caller of shutdown among the life-cycle commands.
SimShutDownUnchecked(c) == \* variant: shutdown's BOOL is not looked at
  /\ pc[c] \in {"shutdownYES", "shutdownNO"}
  /\ Goes(c, "eachSim") /\ UNCHANGED <<devVars, disturbed>>

SimShutDown(c) ==
  /\ UNCHANGED <<devVars, disturbed>>
  /\ \/ At(c, "shutdownYES") /\ Goes(c, "eachSim")
     \/ At(c, "shutdownNO") /\ KillFails(c)

Kill(c) == ListApps(c) \/ QuitApp(c) \/ ListSims(c) \/ NextSim(c)

-----------------------------------------------------------------------------
(***************************************************************************)
(* The commands.                                                           *)
(***************************************************************************)
Start(c, command, s) ==
  /\ At(c, "idle")
  /\ cmd' = [cmd EXCEPT ![c] = command]
  /\ target' = [target EXCEPT ![c] = s]
  /\ sim' = [sim EXCEPT ![c] = s]
  /\ Goto(c, IF command = "launch" THEN "boot" ELSE "kill")
  /\ UNCHANGED <<devVars, victims, todo, result, disturbed>>

\* launchSimulator: boot's answer is the command's.
LaunchEnds(c) ==
  /\ cmd[c] = "launch"
  /\ \/ At(c, "bootYES") /\ Answer(c, "EverythingOkay")
     \/ At(c, "bootNO") /\ Answer(c, "GenericFailure")
  /\ UNCHANGED <<devVars, disturbed>>

KillEndsBOOL(c) == \* variant: a BOOL is returned for a status code
  /\ cmd[c] = "kill" /\ pc[c] \in {"killYES", "killNO"}
  /\ Answer(c, IF pc[c] = "killYES" THEN "YES" ELSE "NO")
  /\ UNCHANGED <<devVars, disturbed>>

KillEnds(c) ==
  /\ cmd[c] = "kill"
  /\ \/ At(c, "killYES") /\ Answer(c, "EverythingOkay")
     \/ At(c, "killNO") /\ Answer(c, "GenericFailure")
  /\ UNCHANGED <<devVars, disturbed>>

\* eraseSimulator does not look at what killSimulatorApp returned.
EraseAfterKill(c) ==
  /\ pc[c] \in {"killYES", "killNO"} /\ cmd[c] = "erase"
  /\ sim' = [sim EXCEPT ![c] = target[c]]
  /\ Goto(c, "eraseWait")
  /\ UNCHANGED <<devVars, cmd, target, victims, todo, result, disturbed>>

EraseWait(c) ==
  /\ At(c, "eraseWait")
  /\ \/ Await(c, "Shutdown", "issueErase")
     \/ TimesOut(c, "Shutdown") /\ Answer(c, "InternalError")

\* [fbSimulator erase] is refused unless the simulator is Shutdown, and may
\* fail for a reason of its own.
IssueErase(c) ==
  /\ At(c, "issueErase")
  /\ UNCHANGED devVars
  /\ \/ state[sim[c]] = "Shutdown" /\ Learns(c) /\ Goes(c, "erased")
     \/ Answer(c, "InternalError") /\ UNCHANGED disturbed

Erased(c) ==
  /\ At(c, "erased")
  /\ Answer(c, "EverythingOkay")
  /\ UNCHANGED <<devVars, disturbed>>

Command(c) == \/ LaunchEnds(c) \/ KillEnds(c) \/ SimShutDown(c) \/ EraseAfterKill(c)
              \/ EraseWait(c) \/ IssueErase(c) \/ Erased(c)

-----------------------------------------------------------------------------
(***************************************************************************)
(* What CoreSimulator and the user do on their own.                        *)
(***************************************************************************)
\* A transition under way arrives; a boot may fall back to Shutdown.
Arrives(s) ==
  /\ \E to \in DeviceState :
       /\ <<state[s], to>> \in {<<"Creating", "Shutdown">>, <<"Booting", "Booted">>,
                                <<"Booting", "Shutdown">>, <<"ShuttingDown", "Shutdown">>}
       /\ state' = [state EXCEPT ![s] = to]
  /\ UNCHANGED <<app, meddling, pc, callVars, disturbed>>

\* The user boots or shuts down a simulator, or quits Simulator.app.
Meddle ==
  /\ meddling < MaxMeddling
  /\ meddling' = meddling + 1
  /\ \/ \E s \in Sims : state[s] = "Shutdown" /\ Move(Nobody, s, "Booting")
     \/ \E s \in Sims : state[s] = "Booted" /\ Move(Nobody, s, "ShuttingDown")
     \/ \E a \in Apps : /\ app[a] = "running"
                        /\ app' = [app EXCEPT ![a] = "terminated"]
                        /\ UNCHANGED <<state, disturbed>>
  /\ UNCHANGED <<pc, callVars>>

ClientStep(c) == Boot(c) \/ Shutdown(c) \/ Kill(c) \/ Command(c)

Environment == (\E s \in Sims : Arrives(s)) \/ Meddle

\* kill-simulator names no simulator.
Begin(c) == \/ \E s \in Sims, command \in {"launch", "erase"} : Start(c, command, s)
            \/ Start(c, "kill", target[c])

Next == \/ \E c \in Clients : Begin(c) \/ ClientStep(c)
        \/ Environment

\* Where a process waits for the answer to a request, with await: alone.
Awaits == {"issueBoot", "booting", "focus", "issueShutdown", "shuttingDown", "issueErase"}

\* A running process is scheduled, and timed waits run out; CoreSimulator and
\* the user owe nothing, not even the answer to a request.
Fairness == \A c \in Clients : WF_vars(pc[c] \notin Awaits /\ ClientStep(c))

Spec == Init /\ [][Next]_vars /\ Fairness
-----------------------------------------------------------------------------
Points == {"idle", "boot", "waitBooted", "waitCreated", "waitDown", "issueBoot",
           "booting", "focus", "bootYES", "bootNO", "shutdown", "shutdown2",
           "waitShutdown", "issueShutdown", "shuttingDown", "shutdownYES",
           "shutdownNO", "kill", "quitApps", "eachSim", "killYES", "killNO",
           "eraseWait", "issueErase", "erased", "done"}

\* The values every variable of Simulator.m's processes ranges over.
TypeOK ==
  /\ state \in [Sims -> DeviceState]
  /\ app \in [Apps -> {"absent", "running", "terminated"}]
  /\ meddling \in 0..MaxMeddling
  /\ pc \in [Clients -> Points]
  /\ cmd \in [Clients -> {"none", "launch", "kill", "erase"}]
  /\ target \in [Clients -> Sims] /\ sim \in [Clients -> Sims]
  /\ victims \in [Clients -> SUBSET Apps]
  /\ todo \in [Clients -> SUBSET Sims]
  /\ result \in [Clients -> Codes \cup {"none"}]
  /\ disturbed \in [Clients -> SUBSET Sims]

\* Simulator s is in the given state unless another actor moved it after
\* client c last learnt its state.
Still(c, s, st) == state[s] = st \/ s \in disturbed[c]

\* boot and eraseSimulator ask CoreSimulator for a boot or an erase only of a
\* simulator they have learnt to be Shutdown: a request can be refused for
\* its state only when somebody else moved the simulator in between.
RequestsAreFresh ==
  \A c \in Clients : pc[c] \in {"issueBoot", "issueErase"} => Still(c, sim[c], "Shutdown")

\* What the exit code EverythingOkay of each command promises.
Promise(c) ==
  /\ cmd[c] = "launch" => Still(c, target[c], "Booted")
  /\ cmd[c] = "erase" => Still(c, target[c], "Shutdown")
  /\ cmd[c] = "kill" => \A s \in Sims : Still(c, s, "Shutdown")

\* A command answers EverythingOkay only when, at that moment, its simulator
\* is Booted (launch-simulator), is Shutdown (erase-simulator), or all of them
\* are Shutdown, those visited first as much as the last (kill-simulator),
\* whatever state they began in and whatever failed on the way, but for
\* simulators that others moved after this process looked at them.
AnswersHold ==
  [][\A c \in Clients : result[c] # result'[c] /\ result'[c] = "EverythingOkay"
                          => Promise(c)]_vars
=============================================================================
