--------------------------- MODULE SimulatorProofs ---------------------------
(***************************************************************************)
(* For any number of processes, simulators, versions of the app and        *)
(* instances of Simulator.app.                                             *)
(*                                                                         *)
(* First the life cycle alone: type correctness, that CoreSimulator is     *)
(* only asked for what a process has just seen to be possible, and that an *)
(* answer of a command holds.  Then the commands on apps: type             *)
(* correctness, that Simulator implements Device, and, with what Device    *)
(* promises, that answers hold.  Last that what was proved of the life     *)
(* cycle alone is still so when those commands call into it.               *)
(***************************************************************************)
EXTENDS SimulatorApps, TLAPS

LEMMA TypeOKInit == Init => TypeOK
<1> SUFFICES ASSUME Init PROVE TypeOK
  OBVIOUS
<1>1. (CHOOSE s \in Sims : TRUE) \in Sims
  BY LifecycleAssumption
<1>2. target \in [Clients -> Sims] /\ sim \in [Clients -> Sims]
  <2> DEFINE someSim == CHOOSE s \in Sims : TRUE
  <2>1. target = [c \in Clients |-> someSim] /\ sim = target
    BY DEF Init
  <2>2. someSim \in Sims
    BY <1>1
  <2> HIDE DEF someSim
  <2> QED
    BY <2>1, <2>2
<1>3. /\ state \in [Sims -> DeviceState]
      /\ app \in [Apps -> {"absent", "running", "terminated"}]
  BY DEF Init
<1>4. /\ pc = [c \in Clients |-> "idle"] /\ cmd = [c \in Clients |-> "none"]
      /\ result = [c \in Clients |-> "none"] /\ meddling = 0
      /\ victims = [c \in Clients |-> {}] /\ todo = [c \in Clients |-> {}]
      /\ disturbed = [c \in Clients |-> {}]
  BY DEF Init
<1> QED
  BY <1>2, <1>3, <1>4, LifecycleAssumption DEF TypeOK, Points

\* A step of one process, or of nobody, keeps the types.
LEMMA TypeOKStep == TypeOK /\ [Next]_vars => TypeOK'
<1> SUFFICES ASSUME TypeOK, [Next]_vars PROVE TypeOK'
  OBVIOUS
<1> USE DEF TypeOK, Points, devVars, callVars, At, Goto, Goes
<1>1. ASSUME NEW c \in Clients, Begin(c) PROVE TypeOK'
  BY <1>1 DEF Begin, Start
<1>2. ASSUME NEW c \in Clients, Boot(c) PROVE TypeOK'
  <2>1. CASE BootRead(c)
    <3>1. pc' \in [Clients -> Points]
      BY <2>1 DEF BootRead, DeviceState
    <3> QED
      BY <2>1, <3>1 DEF BootRead, Learns
  <2>2. CASE BootWaitBooted(c)
    BY <2>2 DEF BootWaitBooted, Learns, TimesOut
  <2>3. CASE BootWaitCreated(c)
    BY <2>3 DEF BootWaitCreated, Learns, TimesOut
  <2>4. CASE BootWaitDown(c)
    BY <2>4 DEF BootWaitDown, Await, Learns, TimesOut
  <2>5. CASE IssueBoot(c)
    BY <2>5 DEF IssueBoot, Move, DeviceState
  <2>6. CASE BootAwaited(c)
    BY <2>6 DEF BootAwaited, Learns
  <2>7. CASE Focus(c)
    BY <2>7 DEF Focus, Learns
  <2> QED
    BY <1>2, <2>1, <2>2, <2>3, <2>4, <2>5, <2>6, <2>7 DEF Boot
<1>3. ASSUME NEW c \in Clients, Shutdown(c) PROVE TypeOK'
  <2>1. CASE ShutdownRead(c)
    BY <2>1 DEF ShutdownRead, Learns
  <2>2. CASE ShutdownReadAgain(c)
    BY <2>2 DEF ShutdownReadAgain, Learns
  <2>3. CASE ShutdownWait(c)
    BY <2>3 DEF ShutdownWait, Learns, TimesOut
  <2>4. CASE IssueShutdown(c)
    BY <2>4 DEF IssueShutdown, Move, DeviceState
  <2>5. CASE ShutdownAwaited(c)
    BY <2>5 DEF ShutdownAwaited, Learns
  <2> QED
    BY <1>3, <2>1, <2>2, <2>3, <2>4, <2>5 DEF Shutdown
<1>4. ASSUME NEW c \in Clients, Kill(c) PROVE TypeOK'
  <2>1. CASE ListApps(c)
    BY <2>1 DEF ListApps
  <2>2. CASE QuitApp(c)
    BY <2>2 DEF QuitApp, KillFails
  <2>3. CASE ListSims(c)
    BY <2>3 DEF ListSims
  <2>4. CASE NextSim(c)
    BY <2>4 DEF NextSim
  <2> QED
    BY <1>4, <2>1, <2>2, <2>3, <2>4 DEF Kill
<1>5. ASSUME NEW c \in Clients, Command(c) PROVE TypeOK'
  <2>1. CASE LaunchEnds(c)
    BY <2>1 DEF LaunchEnds, Answer, Codes
  <2>2. CASE KillEnds(c)
    BY <2>2 DEF KillEnds, Answer, Codes
  <2>3. CASE SimShutDown(c)
    BY <2>3 DEF SimShutDown, KillFails
  <2>4. CASE EraseAfterKill(c)
    BY <2>4 DEF EraseAfterKill
  <2>5. CASE EraseWait(c)
    BY <2>5 DEF EraseWait, Await, Learns, TimesOut, Answer, Codes
  <2>6. CASE IssueErase(c) \/ Erased(c)
    BY <2>6 DEF IssueErase, Erased, Learns, Answer, Codes
  <2> QED
    BY <1>5, <2>1, <2>2, <2>3, <2>4, <2>5, <2>6 DEF Command
<1>6. ASSUME NEW s \in Sims, Arrives(s) PROVE TypeOK'
  BY <1>6 DEF Arrives
<1>7. CASE Meddle
  <2>1. meddling' \in 0..MaxMeddling
    BY <1>7, LifecycleAssumption DEF Meddle
  <2> QED
    BY <1>7, <2>1 DEF Meddle, Move, DeviceState
<1>8. CASE UNCHANGED vars
  BY <1>8 DEF vars
<1> QED
  BY <1>1, <1>2, <1>3, <1>4, <1>5, <1>6, <1>7, <1>8
     DEF Next, ClientStep, Environment

\* In every behaviour the variables of the life cycle keep their types.
THEOREM TypeCorrect == Spec => []TypeOK
  BY TypeOKInit, TypeOKStep, PTL DEF Spec
-----------------------------------------------------------------------------
(***************************************************************************)
(* The inductive invariant: what a process may rely on at each point.      *)
(***************************************************************************)
LaunchPoints == {"boot", "waitBooted", "waitCreated", "waitDown", "issueBoot",
                 "booting", "focus", "bootYES", "bootNO"}
ShutdownPoints == {"shutdown", "shutdown2", "waitShutdown", "issueShutdown", "shuttingDown"}

\* What the lemmas on single steps need of the types; with the commands on apps
\* there are more places, commands and answers than TypeOK names.
Results == Codes \cup {"none", "False", "Raised"}

LifeTypes ==
  /\ state \in [Sims -> DeviceState] /\ sim \in [Clients -> Sims]
  /\ todo \in [Clients -> SUBSET Sims] /\ disturbed \in [Clients -> SUBSET Sims]

Shape ==
  /\ LifeTypes
  /\ pc \in [Clients -> Points \cup AppPoints]
  /\ cmd \in [Clients -> AppCommands \cup {"none", "launch", "kill", "erase"}]
  /\ target \in [Clients -> Sims]
  /\ result \in [Clients -> Results]

LEMMA TypesShape == TypeOK => Shape
  BY DEF TypeOK, Shape, LifeTypes, Results, AppCommands

\* What a request and an answer rest on has been seen, and nobody else has
\* moved the simulator since.
Seen(c) ==
  /\ pc[c] \in {"issueBoot", "issueErase", "erased"} => Still(c, sim[c], "Shutdown")
  /\ pc[c] = "bootYES" => Still(c, sim[c], "Booted")

\* The simulator worked on is the command's.
OnTarget(c) ==
  /\ cmd[c] = "launch" => sim[c] = target[c]
  /\ cmd[c] = "launch" => pc[c] \in LaunchPoints \cup {"done"}
  /\ pc[c] \in {"eraseWait", "issueErase", "erased"} => cmd[c] = "erase" /\ sim[c] = target[c]

\* The simulators killSimulatorApp has been through are down.
Swept(c) ==
  /\ pc[c] \in {"eachSim", "shutdownYES"} =>
       \A s \in Sims \ todo[c] : Still(c, s, "Shutdown")
  /\ pc[c] \in ShutdownPoints =>
       \A s \in Sims \ todo[c] : s = sim[c] \/ Still(c, s, "Shutdown")
  /\ pc[c] = "killYES" => \A s \in Sims : Still(c, s, "Shutdown")

Inv(c) == Seen(c) /\ OnTarget(c) /\ Swept(c)

IInv == \A c \in Clients : Inv(c)

\* A step that client c is not part of: it stays where it is, and a simulator
\* it saw Shutdown or Booted is still so unless the step marks it disturbed.
Kept(c) ==
  /\ pc'[c] = pc[c] /\ cmd'[c] = cmd[c] /\ target'[c] = target[c]
  /\ sim'[c] = sim[c] /\ todo'[c] = todo[c] /\ result'[c] = result[c]
  /\ pc[c] \notin {"idle", "done"} =>
       \A s \in Sims, st \in {"Shutdown", "Booted"} : Still(c, s, st) => Still(c, s, st)'

LEMMA KeptInv ==
  ASSUME NEW c \in Clients, Shape, Kept(c)
  PROVE  /\ Seen(c) => Seen(c)'
         /\ OnTarget(c) => OnTarget(c)'
         /\ Swept(c) => Swept(c)'
<1>1. CASE pc[c] \in {"idle", "done"}
  BY <1>1 DEF Kept, Seen, OnTarget, Swept, LaunchPoints, ShutdownPoints
<1>2. CASE pc[c] \notin {"idle", "done"}
  <2>1. sim[c] \in Sims
    BY DEF Shape, LifeTypes
  <2>2. \A s \in Sims, st \in {"Shutdown", "Booted"} : Still(c, s, st) => Still(c, s, st)'
    BY <1>2 DEF Kept
  <2>3. Seen(c) => Seen(c)'
    BY <2>1, <2>2 DEF Kept, Seen
  <2>4. OnTarget(c) => OnTarget(c)'
    BY DEF Kept, OnTarget
  <2>5. Swept(c) => Swept(c)'
    BY <2>2 DEF Kept, Swept
  <2> QED
    BY <2>3, <2>4, <2>5
<1> QED
  BY <1>1, <1>2

\* A request of one actor marks the simulator for every other running client.
LEMMA MoveKeepsOthers ==
  ASSUME Shape, NEW c \in Clients, NEW actor, actor # c,
         NEW s \in Sims, NEW st, Move(actor, s, st),
         pc[c] \notin {"idle", "done"},
         NEW x \in Sims, NEW wanted, Still(c, x, wanted)
  PROVE  Still(c, x, wanted)'
<1>1. disturbed'[c] = disturbed[c] \cup {s}
  BY DEF Move, Shape, LifeTypes
<1>2. x # s => state'[x] = state[x]
  BY DEF Move, Shape, LifeTypes
<1> QED
  BY <1>1, <1>2 DEF Still

\* What a step of client d changes is its own, but for a request.
Locals(c) ==
  /\ pc'[c] = pc[c] /\ cmd'[c] = cmd[c] /\ target'[c] = target[c]
  /\ sim'[c] = sim[c] /\ todo'[c] = todo[c] /\ result'[c] = result[c]

LEMMA OthersKept ==
  ASSUME Shape, NEW c \in Clients, NEW d \in Clients, d # c,
         Begin(d) \/ ClientStep(d)
  PROVE  Kept(c)
<1>1. SUFFICES /\ Locals(c)
               /\ \/ state' = state /\ disturbed'[c] = disturbed[c]
                  \/ \E s \in Sims, st \in DeviceState : Move(d, s, st)
  <2>1. CASE state' = state /\ disturbed'[c] = disturbed[c]
    BY <1>1, <2>1 DEF Kept, Locals, Still
  <2>2. ASSUME NEW s \in Sims, NEW st \in DeviceState, Move(d, s, st) PROVE Kept(c)
    <3>1. ASSUME pc[c] \notin {"idle", "done"}, NEW x \in Sims, NEW wanted,
                 Still(c, x, wanted)
          PROVE  Still(c, x, wanted)'
      BY <2>2, <3>1, MoveKeepsOthers
    <3> QED
      BY <1>1, <3>1 DEF Kept, Locals
  <2> QED
    BY <1>1, <2>1, <2>2
<1> USE DEF Shape, LifeTypes, devVars, callVars, Goto, Goes, Locals
<1>2. CASE Begin(d)
  BY <1>2 DEF Begin, Start
<1>3. CASE Boot(d)
  <2>1. CASE BootRead(d)
    BY <2>1 DEF BootRead, Learns
  <2>2. CASE BootWaitBooted(d)
    BY <2>2 DEF BootWaitBooted, Learns, TimesOut
  <2>3. CASE BootWaitCreated(d)
    BY <2>3 DEF BootWaitCreated, Learns, TimesOut
  <2>4. CASE BootWaitDown(d)
    BY <2>4 DEF BootWaitDown, Await, Learns, TimesOut
  <2>5. CASE IssueBoot(d)
    BY <2>5 DEF IssueBoot, DeviceState
  <2>6. CASE BootAwaited(d)
    BY <2>6 DEF BootAwaited, Learns
  <2>7. CASE Focus(d)
    BY <2>7 DEF Focus, Learns
  <2> QED
    BY <1>3, <2>1, <2>2, <2>3, <2>4, <2>5, <2>6, <2>7 DEF Boot
<1>4. CASE Shutdown(d)
  <2>1. CASE ShutdownRead(d)
    BY <2>1 DEF ShutdownRead, Learns
  <2>2. CASE ShutdownReadAgain(d)
    BY <2>2 DEF ShutdownReadAgain, Learns
  <2>3. CASE ShutdownWait(d)
    BY <2>3 DEF ShutdownWait, Learns, TimesOut
  <2>4. CASE IssueShutdown(d)
    BY <2>4 DEF IssueShutdown, DeviceState
  <2>5. CASE ShutdownAwaited(d)
    BY <2>5 DEF ShutdownAwaited, Learns
  <2> QED
    BY <1>4, <2>1, <2>2, <2>3, <2>4, <2>5 DEF Shutdown
<1>5. CASE Kill(d)
  BY <1>5 DEF Kill, ListApps, QuitApp, ListSims, NextSim, KillFails
<1>6. CASE Command(d)
  <2>1. CASE LaunchEnds(d) \/ KillEnds(d)
    BY <2>1 DEF LaunchEnds, KillEnds, Answer
  <2>2. CASE SimShutDown(d)
    BY <2>2 DEF SimShutDown, KillFails
  <2>3. CASE EraseAfterKill(d)
    BY <2>3 DEF EraseAfterKill
  <2>4. CASE EraseWait(d)
    BY <2>4 DEF EraseWait, Await, Learns, TimesOut, Answer
  <2>5. CASE IssueErase(d) \/ Erased(d)
    BY <2>5 DEF IssueErase, Erased, Learns, Answer
  <2> QED
    BY <1>6, <2>1, <2>2, <2>3, <2>4, <2>5 DEF Command
<1> QED
  BY <1>2, <1>3, <1>4, <1>5, <1>6 DEF ClientStep

\* CoreSimulator completes transitions: it never moves a simulator that is
\* Shutdown or Booted by itself.  The user does, and is noticed.
LEMMA EnvironmentKept ==
  ASSUME Shape, NEW c \in Clients, Environment
  PROVE  Kept(c)
<1>1. Locals(c)
  BY DEF Environment, Arrives, Meddle, callVars, Locals
<1>2. ASSUME NEW s \in Sims, Arrives(s) PROVE Kept(c)
  <2>1. state[s] \notin {"Shutdown", "Booted"} /\ disturbed' = disturbed
    BY <1>2 DEF Arrives
  <2>2. \A x \in Sims : x # s => state'[x] = state[x]
    BY <1>2 DEF Arrives, Shape, LifeTypes
  <2> QED
    BY <1>1, <2>1, <2>2 DEF Kept, Locals, Still
<1>3. CASE Meddle
  <2> c # Nobody
    BY LifecycleAssumption
  <2>1. CASE UNCHANGED <<state, disturbed>>
    BY <1>1, <2>1 DEF Kept, Locals, Still
  <2>2. ASSUME NEW s \in Sims, NEW st, Move(Nobody, s, st) PROVE Kept(c)
    <3>1. ASSUME pc[c] \notin {"idle", "done"}, NEW x \in Sims, NEW wanted,
                 Still(c, x, wanted)
          PROVE  Still(c, x, wanted)'
      BY <2>2, <3>1, MoveKeepsOthers
    <3> QED
      BY <1>1, <3>1 DEF Kept, Locals
  <2> QED
    BY <1>3, <2>1, <2>2 DEF Meddle
<1> QED
  BY <1>2, <1>3 DEF Environment

\* The step of a client keeps what the client relies on.
LEMMA OwnSeen ==
  ASSUME Shape, NEW c \in Clients, Seen(c), OnTarget(c), Begin(c) \/ ClientStep(c)
  PROVE  Seen(c)' /\ OnTarget(c)'
<1> USE DEF Shape, LifeTypes, devVars, callVars, At, Goto, Goes, Seen, OnTarget,
            LaunchPoints, Still
<1>1. CASE Begin(c)
  BY <1>1 DEF Begin, Start
<1>2. CASE Boot(c)
  <2>1. CASE BootRead(c)
    BY <2>1 DEF BootRead, Learns, DeviceState
  <2>2. CASE BootWaitBooted(c)
    BY <2>2 DEF BootWaitBooted, Learns, TimesOut
  <2>3. CASE BootWaitCreated(c)
    BY <2>3 DEF BootWaitCreated, Learns, TimesOut
  <2>4. CASE BootWaitDown(c)
    BY <2>4 DEF BootWaitDown, Await, Learns, TimesOut
  <2>5. CASE IssueBoot(c)
    BY <2>5 DEF IssueBoot, Move
  <2>6. CASE BootAwaited(c)
    BY <2>6 DEF BootAwaited, Learns
  <2>7. CASE Focus(c)
    BY <2>7 DEF Focus, Learns
  <2> QED
    BY <1>2, <2>1, <2>2, <2>3, <2>4, <2>5, <2>6, <2>7 DEF Boot
<1>3. CASE Shutdown(c)
  <2>1. CASE ShutdownRead(c)
    BY <2>1 DEF ShutdownRead, Learns
  <2>2. CASE ShutdownReadAgain(c)
    BY <2>2 DEF ShutdownReadAgain, Learns
  <2>3. CASE ShutdownWait(c)
    BY <2>3 DEF ShutdownWait, Learns, TimesOut
  <2>4. CASE IssueShutdown(c)
    BY <2>4 DEF IssueShutdown, Move
  <2>5. CASE ShutdownAwaited(c)
    BY <2>5 DEF ShutdownAwaited, Learns
  <2> QED
    BY <1>3, <2>1, <2>2, <2>3, <2>4, <2>5 DEF Shutdown
<1>4. CASE Kill(c)
  <2>1. CASE ListApps(c)
    BY <2>1 DEF ListApps
  <2>2. CASE QuitApp(c)
    BY <2>2 DEF QuitApp, KillFails
  <2>3. CASE ListSims(c)
    BY <2>3 DEF ListSims
  <2>4. CASE NextSim(c)
    BY <2>4 DEF NextSim
  <2> QED
    BY <1>4, <2>1, <2>2, <2>3, <2>4 DEF Kill
<1>5. CASE Command(c)
  <2>1. CASE LaunchEnds(c)
    BY <2>1 DEF LaunchEnds, Answer
  <2>2. CASE KillEnds(c)
    BY <2>2 DEF KillEnds, Answer
  <2>3. CASE SimShutDown(c)
    BY <2>3 DEF SimShutDown, KillFails
  <2>4. CASE EraseAfterKill(c)
    BY <2>4 DEF EraseAfterKill
  <2>5. CASE EraseWait(c)
    BY <2>5 DEF EraseWait, Await, Learns, TimesOut, Answer
  <2>6. CASE IssueErase(c) \/ Erased(c)
    BY <2>6 DEF IssueErase, Erased, Learns, Answer
  <2> QED
    BY <1>5, <2>1, <2>2, <2>3, <2>4, <2>5, <2>6 DEF Command
<1> QED
  BY <1>1, <1>2, <1>3, <1>4, <1>5 DEF ClientStep

LEMMA OwnSwept ==
  ASSUME Shape, NEW c \in Clients, Swept(c), Begin(c) \/ ClientStep(c)
  PROVE  Swept(c)'
<1> USE DEF Shape, LifeTypes, devVars, callVars, At, Goto, Goes, Swept, ShutdownPoints,
            Still
<1>1. CASE Begin(c)
  BY <1>1 DEF Begin, Start
<1>2. CASE Boot(c)
  <2>1. CASE BootRead(c)
    BY <2>1 DEF BootRead, Learns, DeviceState
  <2>2. CASE BootWaitBooted(c)
    BY <2>2 DEF BootWaitBooted, Learns, TimesOut
  <2>3. CASE BootWaitCreated(c)
    BY <2>3 DEF BootWaitCreated, Learns, TimesOut
  <2>4. CASE BootWaitDown(c)
    BY <2>4 DEF BootWaitDown, Await, Learns, TimesOut
  <2>5. CASE IssueBoot(c)
    BY <2>5 DEF IssueBoot, Move
  <2>6. CASE BootAwaited(c)
    BY <2>6 DEF BootAwaited, Learns
  <2>7. CASE Focus(c)
    BY <2>7 DEF Focus, Learns
  <2> QED
    BY <1>2, <2>1, <2>2, <2>3, <2>4, <2>5, <2>6, <2>7 DEF Boot
<1>3. CASE Shutdown(c)
  <2>1. CASE ShutdownRead(c)
    BY <2>1 DEF ShutdownRead, Learns
  <2>2. CASE ShutdownReadAgain(c)
    BY <2>2 DEF ShutdownReadAgain, Learns
  <2>3. CASE ShutdownWait(c)
    BY <2>3 DEF ShutdownWait, Learns, TimesOut
  <2>4. CASE IssueShutdown(c)
    BY <2>4 DEF IssueShutdown, Move
  <2>5. CASE ShutdownAwaited(c)
    BY <2>5 DEF ShutdownAwaited, Learns
  <2> QED
    BY <1>3, <2>1, <2>2, <2>3, <2>4, <2>5 DEF Shutdown
<1>4. CASE Kill(c)
  <2>1. CASE ListApps(c)
    BY <2>1 DEF ListApps
  <2>2. CASE QuitApp(c)
    BY <2>2 DEF QuitApp, KillFails
  <2>3. CASE ListSims(c)
    BY <2>3 DEF ListSims
  <2>4. CASE NextSim(c)
    BY <2>4 DEF NextSim
  <2> QED
    BY <1>4, <2>1, <2>2, <2>3, <2>4 DEF Kill
<1>5. CASE Command(c)
  <2>1. CASE LaunchEnds(c)
    BY <2>1 DEF LaunchEnds, Answer
  <2>2. CASE KillEnds(c)
    BY <2>2 DEF KillEnds, Answer
  <2>3. CASE SimShutDown(c)
    BY <2>3 DEF SimShutDown, KillFails
  <2>4. CASE EraseAfterKill(c)
    BY <2>4 DEF EraseAfterKill
  <2>5. CASE EraseWait(c)
    BY <2>5 DEF EraseWait, Await, Learns, TimesOut, Answer
  <2>6. CASE IssueErase(c) \/ Erased(c)
    BY <2>6 DEF IssueErase, Erased, Learns, Answer
  <2> QED
    BY <1>5, <2>1, <2>2, <2>3, <2>4, <2>5, <2>6 DEF Command
<1> QED
  BY <1>1, <1>2, <1>3, <1>4, <1>5 DEF ClientStep

LEMMA IInvInit == Init => IInv
  BY DEF Init, IInv, Inv, Seen, OnTarget, Swept, LaunchPoints, ShutdownPoints

LEMMA IInvStep == TypeOK /\ IInv /\ [Next]_vars => IInv'
<1> SUFFICES ASSUME TypeOK, IInv, [Next]_vars, NEW c \in Clients PROVE Inv(c)'
  BY DEF IInv
<1>0. Inv(c) /\ Shape
  BY TypesShape DEF IInv
<1>1. ASSUME NEW d \in Clients, Begin(d) \/ ClientStep(d) PROVE Inv(c)'
  <2>1. CASE d = c
    BY <1>0, <1>1, <2>1, OwnSeen, OwnSwept DEF Inv
  <2>2. CASE d # c
    BY <1>0, <1>1, <2>2, OthersKept, KeptInv DEF Inv
  <2> QED
    BY <2>1, <2>2
<1>2. CASE Environment
  BY <1>0, <1>2, EnvironmentKept, KeptInv DEF Inv
<1>3. CASE UNCHANGED vars
  BY <1>0, <1>3
     DEF vars, devVars, callVars, Inv, Seen, OnTarget, Swept, Still
<1> QED
  BY <1>1, <1>2, <1>3 DEF Next

LEMMA IInvAlways == Spec => []IInv
  BY IInvInit, IInvStep, TypeCorrect, PTL DEF Spec

\* boot and eraseSimulator ask for a boot or an erase only of a simulator they
\* have learnt to be Shutdown, whatever other processes and the user do.
THEOREM FreshRequests == Spec => []RequestsAreFresh
<1>1. IInv => RequestsAreFresh
  BY DEF IInv, Inv, Seen, RequestsAreFresh
<1> QED
  BY <1>1, IInvAlways, PTL

\* Whoever takes the step, a client that gets EverythingOkay gets what its
\* command promises.
LEMMA StepAnswers ==
  ASSUME Shape, NEW c \in Clients, Inv(c), Begin(c) \/ ClientStep(c),
         result[c] # result'[c], result'[c] = "EverythingOkay"
  PROVE  Promise(c)
<1>2. Inv(c)
  OBVIOUS
<1> USE DEF Shape, LifeTypes, devVars, callVars, Goto, Goes, Promise
<1>3. CASE Begin(c)
  BY <1>3 DEF Begin, Start
<1>4. CASE Boot(c)
  <2>1. result' = result
    BY <1>4 DEF Boot, BootRead, BootWaitBooted, BootWaitCreated, BootWaitDown,
                IssueBoot, BootAwaited, Focus, Await
  <2> QED
    BY <2>1
<1>5. CASE Shutdown(c)
  <2>1. result' = result
    BY <1>5 DEF Shutdown, ShutdownRead, ShutdownReadAgain, ShutdownWait,
                IssueShutdown, ShutdownAwaited
  <2> QED
    BY <2>1
<1>6. CASE Kill(c)
  <2>1. result' = result
    BY <1>6 DEF Kill, ListApps, QuitApp, ListSims, NextSim, KillFails
  <2> QED
    BY <2>1
<1>7. CASE LaunchEnds(c)
  BY <1>2, <1>7 DEF LaunchEnds, Answer, At, Inv, Seen, OnTarget
<1>8. CASE KillEnds(c)
  BY <1>2, <1>8 DEF KillEnds, Answer, At, Inv, Swept
<1>9. CASE SimShutDown(c) \/ EraseAfterKill(c)
  BY <1>9 DEF SimShutDown, EraseAfterKill, KillFails
<1>10. CASE EraseWait(c)
  BY <1>10 DEF EraseWait, Await, Answer
<1>11. CASE IssueErase(c) \/ Erased(c)
  BY <1>2, <1>11 DEF IssueErase, Erased, Answer, At, Inv, Seen, OnTarget
<1> QED
  BY <1>3, <1>4, <1>5, <1>6, <1>7, <1>8, <1>9, <1>10, <1>11
     DEF ClientStep, Command

\* EverythingOkay of launch-simulator, kill-simulator and erase-simulator means
\* what it says at the moment it is answered, but for simulators another actor
\* moved after this process looked.
THEOREM AnswersAreTrue == Spec => AnswersHold
<1>1. ASSUME TypeOK, IInv, Next, NEW c \in Clients,
             result[c] # result'[c], result'[c] = "EverythingOkay"
      PROVE  Promise(c)
  <2>1. Shape /\ Inv(c)
    BY <1>1, TypesShape DEF IInv
  <2>2. Begin(c) \/ ClientStep(c)
    <3>1. ASSUME NEW d \in Clients, d # c, Begin(d) \/ ClientStep(d) PROVE FALSE
      BY <1>1, <2>1, <3>1, OthersKept DEF Kept
    <3>2. ASSUME Environment PROVE FALSE
      BY <1>1, <2>1, <3>2, EnvironmentKept DEF Kept
    <3> QED
      BY <1>1, <3>1, <3>2 DEF Next
  <2> QED
    BY <1>1, <2>1, <2>2, StepAnswers
<1>2. TypeOK /\ IInv /\ [Next]_vars =>
        [\A c \in Clients : result[c] # result'[c] /\ result'[c] = "EverythingOkay"
                               => Promise(c)]_vars
  BY <1>1
<1> QED
  BY <1>2, TypeCorrect, IInvAlways, PTL DEF Spec, AnswersHold

-----------------------------------------------------------------------------
(***************************************************************************)
(* The commands on apps.                                                   *)
(***************************************************************************)
\* Places inside boot, shutdown and killSimulatorApp, their ends included.
Inside == Points \ {"idle", "done", "eraseWait", "issueErase", "erased"}
Asleep == {"idle", "done"}

Stages == {"none", "firstBoot", "uninstallKill", "uninstallBoot", "rebootDown",
           "rebootUp"}

ControlTypes ==
  /\ pc \in [Clients -> Points \cup AppPoints]
  /\ cmd \in [Clients -> AppCommands \cup {"none", "launch", "kill", "erase"}]
  /\ target \in [Clients -> Sims]
  /\ result \in [Clients -> Results]
  /\ version \in [Clients -> Versions \cup {None}]
  /\ force \in [Clients -> BOOLEAN]
  /\ tries \in [Clients -> 0..(Tries - 1)]
  /\ stage \in [Clients -> Stages]

AppTypes ==
  /\ bundle \in [Sims -> Versions \cup {None}] /\ ghost \in [Sims -> BOOLEAN]
  /\ interfered \in [Clients -> BOOLEAN] /\ unheard \in [Clients -> BOOLEAN]

\* Which commands are where, and on behalf of which caller.
Flow(c) ==
  /\ pc[c] = "idle" <=> cmd[c] = "none"
  /\ pc[c] # "done" => result[c] = "none"
  /\ pc[c] \in {"idle", "done", "eraseWait", "issueErase", "erased"} => stage[c] = "none"
  /\ pc[c] \in {"eraseWait", "issueErase", "erased"} => cmd[c] = "erase"
  /\ pc[c] = "okay" => cmd[c] \in {"install", "uninstall", "launchApp"}
  /\ pc[c] \in {"lookup", "resign", "try"} => cmd[c] = "install"
  /\ pc[c] \in {"launchListed", "startApp"} => cmd[c] = "launchApp"
  /\ pc[c] = "isInstalled" => cmd[c] = "isInstalled"
  /\ pc[c] = "setLocation" => cmd[c] = "simulateLocation"
  /\ pc[c] = "killApp" => cmd[c] = "killApp"
  /\ pc[c] \in {"listed", "issueUninstall", "stillListed"} => stage[c] = "uninstallBoot"
  /\ pc[c] = "listedAgain" => stage[c] = "rebootUp"
  /\ stage[c] \in {"uninstallKill", "uninstallBoot", "rebootDown", "rebootUp"}
       => cmd[c] \in {"install", "uninstall"}
  /\ stage[c] = "firstBoot"
       => cmd[c] \in {"install", "launchApp", "isInstalled", "simulateLocation"}
  /\ cmd[c] = "install" => version[c] \in Versions

TypeInv == ControlTypes /\ AppTypes /\ LifeTypes /\ \A c \in Clients : Flow(c)

LEMMA TypeInvTypes == TypeInv => AppsTypeOK
  BY DEF TypeInv, ControlTypes, AppTypes, AppsTypeOK, Stages, Results

LEMMA TypeInvInit == AppsInit => TypeInv
<1> SUFFICES ASSUME AppsInit PROVE TypeInv
  OBVIOUS
<1>1. target \in [Clients -> Sims]
  <2> DEFINE someSim == CHOOSE s \in Sims : TRUE
  <2>1. target = [c \in Clients |-> someSim]
    BY DEF AppsInit, Init
  <2>2. someSim \in Sims
    BY LifecycleAssumption
  <2> HIDE DEF someSim
  <2> QED
    BY <2>1, <2>2
<1>2. /\ pc = [c \in Clients |-> "idle"] /\ cmd = [c \in Clients |-> "none"]
      /\ result = [c \in Clients |-> "none"]
      /\ version = [c \in Clients |-> None] /\ force = [c \in Clients |-> FALSE]
      /\ tries = [c \in Clients |-> 0] /\ stage = [c \in Clients |-> "none"]
  BY DEF AppsInit, Init
<1>3. ControlTypes
  BY <1>1, <1>2 DEF ControlTypes, Points, Results, Stages, Tries
<1>4. AppTypes
  BY DEF AppsInit, AppTypes
<1>5. \A c \in Clients : Flow(c)
  BY <1>2 DEF Flow
<1>6. LifeTypes
  BY <1>1 DEF AppsInit, Init, LifeTypes
<1> QED
  BY <1>3, <1>4, <1>5, <1>6 DEF TypeInv

-----------------------------------------------------------------------------
\* The two shapes of a client's step: it moves on within its command, on behalf
\* of a caller, or ends.
Moves(c, there, from) ==
  /\ pc' = [pc EXCEPT ![c] = there] /\ stage' = [stage EXCEPT ![c] = from]
  /\ UNCHANGED <<cmd, target, result, version, force>>
  /\ tries' \in [Clients -> 0..(Tries - 1)]

Ends(c, code) ==
  /\ pc' = [pc EXCEPT ![c] = "done"] /\ result' = [result EXCEPT ![c] = code]
  /\ stage' = [stage EXCEPT ![c] = "none"]
  /\ UNCHANGED <<cmd, target, version, force>>
  /\ tries' \in [Clients -> 0..(Tries - 1)]

\* A place and a caller that a client with this command may have.
Fits(c, there, from) ==
  /\ there \in (Points \cup AppPoints) \ Asleep /\ from \in Stages
  /\ there \in {"eraseWait", "issueErase", "erased"} => cmd[c] = "erase" /\ from = "none"
  /\ there = "okay" => cmd[c] \in {"install", "uninstall", "launchApp"}
  /\ there \in {"lookup", "resign", "try"} => cmd[c] = "install"
  /\ there \in {"launchListed", "startApp"} => cmd[c] = "launchApp"
  /\ there = "isInstalled" => cmd[c] = "isInstalled"
  /\ there = "setLocation" => cmd[c] = "simulateLocation"
  /\ there = "killApp" => cmd[c] = "killApp"
  /\ there \in {"listed", "issueUninstall", "stillListed"} => from = "uninstallBoot"
  /\ there = "listedAgain" => from = "rebootUp"
  /\ from \in {"uninstallKill", "uninstallBoot", "rebootDown", "rebootUp"}
       => cmd[c] \in {"install", "uninstall"}
  /\ from = "firstBoot"
       => cmd[c] \in {"install", "launchApp", "isInstalled", "simulateLocation"}

LEMMA MovesKeeps ==
  ASSUME TypeInv, NEW c \in Clients, NEW there, NEW from, Fits(c, there, from),
         Moves(c, there, from), pc[c] \notin Asleep
  PROVE  ControlTypes' /\ \A x \in Clients : Flow(x)'
<1>1. ControlTypes'
  BY DEF TypeInv, ControlTypes, Moves, Fits
<1>2. /\ UNCHANGED <<cmd, result, version>>
      /\ \A x \in Clients : /\ pc'[x] = IF x = c THEN there ELSE pc[x]
                            /\ stage'[x] = IF x = c THEN from ELSE stage[x]
  BY DEF TypeInv, ControlTypes, Moves
<1>3. cmd[c] # "none" /\ result[c] = "none"
  BY DEF TypeInv, Flow, Asleep
<1>4. ASSUME NEW x \in Clients PROVE Flow(x)'
  <2>1. CASE x = c
    BY <1>2, <1>3, <2>1 DEF TypeInv, Flow, Fits, Asleep
  <2>2. CASE x # c
    BY <1>2, <2>2 DEF TypeInv, Flow
  <2> QED
    BY <2>1, <2>2
<1> QED
  BY <1>1, <1>4

LEMMA EndsKeeps ==
  ASSUME TypeInv, NEW c \in Clients, NEW code \in Results, Ends(c, code),
         pc[c] # "idle"
  PROVE  ControlTypes' /\ \A x \in Clients : Flow(x)'
<1>1. ControlTypes'
  BY DEF TypeInv, ControlTypes, Ends, Points, Stages
<1>2. /\ UNCHANGED <<cmd, version>>
      /\ \A x \in Clients : /\ pc'[x] = IF x = c THEN "done" ELSE pc[x]
                            /\ result'[x] = IF x = c THEN code ELSE result[x]
                            /\ stage'[x] = IF x = c THEN "none" ELSE stage[x]
  BY DEF TypeInv, ControlTypes, Ends
<1>3. ASSUME NEW x \in Clients PROVE Flow(x)'
  <2>1. CASE x = c
    BY <1>2, <2>1 DEF TypeInv, Flow
  <2>2. CASE x # c
    BY <1>2, <2>2 DEF TypeInv, Flow
  <2> QED
    BY <2>1, <2>2
<1> QED
  BY <1>1, <1>3

-----------------------------------------------------------------------------
\* What has to be shown of every step of a client.
Good(c) ==
  /\ ControlTypes' /\ \A x \in Clients : Flow(x)'
  /\ \A x \in Clients \ {c} : pc'[x] = pc[x]
  /\ Device!Work(c)

\* What the command promises has been so.
ServedAt(c, there, from) ==
  \/ there \in {"okay", "erased"}
  \/ /\ cmd[c] = "uninstall"
     /\ there \in {"stillListed", "listedAgain"} \/ from \in {"rebootDown", "rebootUp"}

LEMMA AtWork ==
  ASSUME TypeInv, NEW c \in Clients, pc[c] \notin Asleep
  PROVE  /\ Op[c] # "none" /\ result[c] = "none" /\ cmd[c] # "none"
         /\ c \in Served <=> ServedAt(c, pc[c], stage[c])
  BY DEF TypeInv, Flow, ControlTypes, Op, Served, ServedAt, Asleep, AppCommands

LEMMA MovesServes ==
  ASSUME TypeInv, NEW c \in Clients, NEW there, NEW from, Moves(c, there, from)
  PROVE  /\ UNCHANGED <<Op, target, version, result>>
         /\ Served' = IF ServedAt(c, there, from) THEN Served \cup {c} ELSE Served \ {c}
<1>1. /\ UNCHANGED <<cmd, target, result, version>>
      /\ \A x \in Clients : /\ pc'[x] = IF x = c THEN there ELSE pc[x]
                            /\ stage'[x] = IF x = c THEN from ELSE stage[x]
  BY DEF TypeInv, ControlTypes, Moves
<1> QED
  BY <1>1 DEF Op, Served, ServedAt

LEMMA EndsServes ==
  ASSUME TypeInv, NEW c \in Clients, NEW code, Ends(c, code)
  PROVE  /\ UNCHANGED <<Op, target, version>>
         /\ result' = [result EXCEPT ![c] = code]
         /\ Served' = Served \ {c}
<1>1. /\ UNCHANGED <<cmd, target, version>> /\ result' = [result EXCEPT ![c] = code]
      /\ \A x \in Clients : /\ pc'[x] = IF x = c THEN "done" ELSE pc[x]
                            /\ stage'[x] = IF x = c THEN "none" ELSE stage[x]
  BY DEF TypeInv, ControlTypes, Ends
<1> QED
  BY <1>1 DEF Op, Served

\* A client moves on, the app is not touched and stays served or not served.
LEMMA MovesGood ==
  ASSUME TypeInv, NEW c \in Clients, NEW there, NEW from, Fits(c, there, from),
         Moves(c, there, from), pc[c] \notin Asleep, UNCHANGED bundle,
         ServedAt(c, there, from) <=> ServedAt(c, pc[c], stage[c])
  PROVE  Good(c)
<1>1. UNCHANGED Served
  BY MovesServes, AtWork
<1>2. Device!Work(c)
  BY <1>1, MovesServes, AtWork DEF Device!Work, Device!Works, Device!Touches
<1> QED
  BY <1>2, MovesKeeps DEF Good, Moves, TypeInv, ControlTypes

\* A client moves on with what its command promises so, having touched the app
\* as it may.
LEMMA ServesGood ==
  ASSUME TypeInv, NEW c \in Clients, NEW there, NEW from, Fits(c, there, from),
         Moves(c, there, from), pc[c] \notin Asleep, Device!Touches(c),
         ServedAt(c, there, from), Device!Promise(c)'
  PROVE  Good(c)
<1>1. Served' = Served \cup {c} /\ UNCHANGED result
  BY MovesServes
<1>2. Device!Work(c)
  BY <1>1, MovesServes, AtWork DEF Device!Work, Device!Serves
<1> QED
  BY <1>2, MovesKeeps DEF Good, Moves, TypeInv, ControlTypes

\* A client answers, having touched the app as it may, what it may.
LEMMA EndsGood ==
  ASSUME TypeInv, NEW c \in Clients, NEW code \in Results \ {"none"},
         Ends(c, code), pc[c] \notin Asleep, Device!Touches(c),
         code = "EverythingOkay" => c \in Served \/ Device!Promise(c)'
  PROVE  Good(c)
<1>1. code \in Device!Answers
  BY DEF Results, Codes, Device!Answers
<1>2. Device!Replies(c)
  BY <1>1, EndsServes DEF Device!Replies
<1>3. Device!Work(c)
  BY <1>2, EndsServes, AtWork DEF Device!Work
<1> QED
  BY <1>3, EndsKeeps DEF Good, Asleep, Ends, TypeInv, ControlTypes

LEMMA RefusalGood ==
  ASSUME TypeInv, NEW c \in Clients, NEW code \in Results \ {"none", "EverythingOkay"},
         Ends(c, code), pc[c] \notin Asleep, UNCHANGED bundle
  PROVE  Good(c)
  BY EndsGood DEF Device!Touches

\* EverythingOkay of a command that Device promises nothing of.
LEMMA OtherGood ==
  ASSUME TypeInv, NEW c \in Clients, Ends(c, "EverythingOkay"), pc[c] \notin Asleep,
         UNCHANGED bundle, cmd[c] \notin {"install", "uninstall", "erase", "launchApp"}
  PROVE  Good(c)
<1>1. Op'[c] = "other"
  BY EndsServes, AtWork DEF Op
<1>2. Device!Promise(c)'
  BY <1>1 DEF Device!Promise
<1> QED
  BY <1>2, EndsGood DEF Results, Codes, Device!Touches

\* The helpers of the model in the two shapes.
LEMMA Shapes ==
  ASSUME TypeInv, NEW c \in Clients, pc[c] \notin Asleep
  PROVE  /\ \A there : Continue(c, there) => Moves(c, there, stage[c])
         /\ \A procedure, from : Call(c, procedure, from) => Moves(c, procedure, from)
         /\ \A code : Exit(c, code) => Ends(c, code)
         /\ \A code : /\ Answer(c, code) /\ UNCHANGED locals /\ stage[c] = "none"
                      => Ends(c, code)
<1>0. /\ tries \in [Clients -> 0..(Tries - 1)] /\ stage \in [Clients -> Stages]
      /\ 0 \in 0..(Tries - 1)
  BY DEF TypeInv, ControlTypes, Tries
<1>1. ASSUME NEW there, Continue(c, there) PROVE Moves(c, there, stage[c])
  BY <1>0, <1>1 DEF Continue, Goes, Goto, callVars, locals, Moves
<1>2. ASSUME NEW procedure, NEW from, Call(c, procedure, from)
      PROVE  Moves(c, procedure, from)
  BY <1>0, <1>2 DEF Call, Goto, Moves
<1>3. ASSUME NEW code, Exit(c, code) PROVE Ends(c, code)
  BY <1>0, <1>3 DEF Exit, Answer, Goto, Ends
<1>4. ASSUME NEW code, Answer(c, code), UNCHANGED locals, stage[c] = "none"
      PROVE  Ends(c, code)
  BY <1>0, <1>4 DEF Answer, Goto, locals, Ends
<1> QED
  BY <1>1, <1>2, <1>3, <1>4

-----------------------------------------------------------------------------
\* boot, shutdown and killSimulatorApp stay inside until they have returned, and
\* keep the command, its target and what belongs to the app.
LEMMA ProcedureInside ==
  ASSUME TypeInv, NEW c \in Clients,
         Boot(c) \/ Shutdown(c) \/ Kill(c) \/ SimShutDown(c)
  PROVE  /\ pc[c] \in Inside
         /\ \E there \in Inside : pc' = [pc EXCEPT ![c] = there]
         /\ UNCHANGED <<cmd, target, result>>
<1> USE DEF At, Goto, Goes, callVars, Inside, Points
<1>1. CASE Boot(c)
  <2>1. CASE BootRead(c)
    <3>1. CASE Goes(c, "bootYES") \/ Goes(c, "bootNO")
      BY <2>1, <3>1 DEF BootRead
    <3>2. CASE state[sim[c]] \notin {"Booted", "Unknown"}
      <4> DEFINE there == CASE state[sim[c]] = "Booting"      -> "waitBooted"
                            [] state[sim[c]] = "ShuttingDown" -> "waitDown"
                            [] state[sim[c]] = "Creating"     -> "waitCreated"
                            [] state[sim[c]] = "Shutdown"     -> "issueBoot"
      <4>1. state[sim[c]] \in {"Booting", "ShuttingDown", "Creating", "Shutdown"}
        BY <3>2 DEF TypeInv, LifeTypes, DeviceState
      <4>2. there \in Inside
        BY <4>1
      <4> QED
        BY <2>1, <3>2, <4>2 DEF BootRead
    <3> QED
      BY <2>1, <3>1, <3>2 DEF BootRead
  <2>2. CASE BootWaitBooted(c) \/ BootWaitCreated(c) \/ BootWaitDown(c)
    BY <2>2 DEF BootWaitBooted, BootWaitCreated, BootWaitDown, Await
  <2>3. CASE IssueBoot(c) \/ BootAwaited(c) \/ Focus(c)
    BY <2>3 DEF IssueBoot, BootAwaited, Focus
  <2> QED
    BY <1>1, <2>1, <2>2, <2>3 DEF Boot
<1>2. CASE Shutdown(c)
  <2>1. CASE ShutdownRead(c) \/ ShutdownReadAgain(c)
    BY <2>1 DEF ShutdownRead, ShutdownReadAgain
  <2>2. CASE ShutdownWait(c) \/ IssueShutdown(c) \/ ShutdownAwaited(c)
    BY <2>2 DEF ShutdownWait, IssueShutdown, ShutdownAwaited
  <2> QED
    BY <1>2, <2>1, <2>2 DEF Shutdown
<1>3. CASE Kill(c)
  <2>1. CASE ListApps(c) \/ ListSims(c) \/ NextSim(c)
    BY <2>1 DEF ListApps, ListSims, NextSim
  <2>2. CASE QuitApp(c)
    <3>1. CASE KillFails(c)
      BY <2>2, <3>1 DEF QuitApp, KillFails
    <3>2. CASE UNCHANGED <<pc, cmd, target, sim, todo, result>>
      <4>1. pc[c] = "quitApps" /\ pc' = [pc EXCEPT ![c] = "quitApps"]
        BY <2>2, <3>2 DEF QuitApp, TypeInv, ControlTypes
      <4> QED
        BY <3>2, <4>1
    <3> QED
      BY <2>2, <3>1, <3>2 DEF QuitApp
  <2> QED
    BY <1>3, <2>1, <2>2 DEF Kill
<1>4. CASE SimShutDown(c)
  BY <1>4 DEF SimShutDown, KillFails
<1> QED
  BY <1>1, <1>2, <1>3, <1>4

LEMMA ProcedureGood ==
  ASSUME TypeInv, NEW c \in Clients, Procedure(c)
  PROVE  Good(c)
<1>1. UNCHANGED appVars
  BY DEF Procedure
<1>2. PICK there \in Inside : pc' = [pc EXCEPT ![c] = there]
  BY ProcedureInside DEF Procedure
<1>3. pc[c] \in Inside /\ UNCHANGED <<cmd, target, result>>
  BY ProcedureInside DEF Procedure
<1>4. Moves(c, there, stage[c])
  BY <1>1, <1>2, <1>3 DEF Moves, appVars, locals, TypeInv, ControlTypes
<1>5. Fits(c, there, stage[c]) /\ pc[c] \notin Asleep
  <2>1. Flow(c) /\ stage[c] \in Stages
    BY DEF TypeInv, ControlTypes
  <2> QED
    BY <1>3, <2>1 DEF Fits, Flow, Inside, Points, Asleep
<1>6. ServedAt(c, there, stage[c]) <=> ServedAt(c, pc[c], stage[c])
  BY <1>3 DEF ServedAt, Inside, Points
<1>7. UNCHANGED bundle
  BY <1>1 DEF appVars, device
<1> QED
  BY <1>4, <1>5, <1>6, <1>7, MovesGood

\* launch-simulator, kill-simulator and erase-simulator.
LEMMA LifecycleGood ==
  ASSUME TypeInv, NEW c \in Clients, LifecycleEnds(c)
  PROVE  Good(c)
<1>0. Flow(c)
  BY DEF TypeInv
<1>1. CASE (LaunchEnds(c) \/ KillEnds(c)) /\ UNCHANGED appVars
  <2>1. /\ pc[c] \in {"bootYES", "bootNO", "killYES", "killNO"} /\ pc[c] \notin Asleep
        /\ cmd[c] \in {"launch", "kill"}
        /\ UNCHANGED <<bundle, locals>>
        /\ Answer(c, "EverythingOkay") \/ Answer(c, "GenericFailure")
    BY <1>1 DEF LaunchEnds, KillEnds, At, appVars, device, Asleep
  <2>2. stage[c] = "none"
    BY <1>0, <2>1 DEF Flow, TypeInv, ControlTypes, Stages
  <2>3. Ends(c, "EverythingOkay") \/ Ends(c, "GenericFailure")
    BY <2>1, <2>2, Shapes
  <2> QED
    BY <2>1, <2>3, OtherGood, RefusalGood DEF Results, Codes
<1>2. CASE EraseAfterKill(c) /\ UNCHANGED appVars
  <2>1. /\ pc[c] \in {"killYES", "killNO"} /\ pc[c] \notin Asleep /\ cmd[c] = "erase"
        /\ pc' = [pc EXCEPT ![c] = "eraseWait"]
        /\ UNCHANGED <<bundle, cmd, target, result, version, force, tries, stage>>
    BY <1>2 DEF EraseAfterKill, Goto, appVars, device, locals, Asleep
  <2>2. stage[c] = "none"
    BY <1>0, <2>1 DEF Flow, TypeInv, ControlTypes, Stages
  <2>3. Moves(c, "eraseWait", "none") /\ Fits(c, "eraseWait", "none")
    BY <2>1, <2>2 DEF Moves, Fits, TypeInv, ControlTypes, Points, Asleep, Stages
  <2> QED
    BY <2>1, <2>3, MovesGood DEF ServedAt
<1>3. CASE EraseWait(c) /\ UNCHANGED appVars
  <2>1. pc[c] = "eraseWait" /\ pc[c] \notin Asleep /\ UNCHANGED <<bundle, locals>>
    BY <1>3 DEF EraseWait, At, appVars, device, Asleep
  <2>2. stage[c] = "none" /\ cmd[c] = "erase"
    BY <1>0, <2>1 DEF Flow
  <2>3. CASE Answer(c, "InternalError")
    BY <2>1, <2>2, <2>3, Shapes, RefusalGood DEF Results, Codes
  <2>4. CASE Await(c, "Shutdown", "issueErase")
    <3>1. Moves(c, "issueErase", "none") /\ Fits(c, "issueErase", "none")
      BY <2>1, <2>2, <2>4 DEF Moves, Fits, Await, Goto, callVars, locals, TypeInv,
                              ControlTypes, Points, Asleep, Stages
    <3> QED
      BY <2>1, <2>2, <3>1, MovesGood DEF ServedAt
  <2> QED
    BY <1>3, <2>3, <2>4 DEF EraseWait
<1>4. CASE Erased(c) /\ UNCHANGED appVars
  <2>1. pc[c] = "erased" /\ pc[c] \notin Asleep /\ UNCHANGED <<bundle, locals>>
    BY <1>4 DEF Erased, At, appVars, device, Asleep
  <2>2. stage[c] = "none" /\ Answer(c, "EverythingOkay")
    BY <1>0, <1>4, <2>1 DEF Flow, Erased
  <2>3. c \in Served
    BY <2>1, AtWork DEF ServedAt
  <2> QED
    BY <2>1, <2>2, <2>3, Shapes, EndsGood DEF Results, Codes, Device!Touches
<1>5. CASE /\ IssueErase(c) /\ UNCHANGED locals
           /\ IF pc'[c] = "erased"
              THEN Change(c, None, FALSE)
              ELSE UNCHANGED <<device, history>>
  <2>1. pc[c] = "issueErase" /\ pc[c] \notin Asleep
    BY <1>5 DEF IssueErase, At, Asleep
  <2>2. stage[c] = "none" /\ cmd[c] = "erase" /\ target[c] \in Sims
    BY <1>0, <2>1 DEF Flow, TypeInv, ControlTypes
  <2>3. CASE Goes(c, "erased") /\ Change(c, None, FALSE)
    <3>1. Moves(c, "erased", "none") /\ Fits(c, "erased", "none")
      BY <1>5, <2>1, <2>2, <2>3 DEF Moves, Fits, Goes, Goto, callVars, locals, TypeInv,
                              ControlTypes, Points, Asleep, Stages
    <3>2. bundle' = [bundle EXCEPT ![target[c]] = None] /\ bundle'[target[c]] = None
      BY <2>2, <2>3 DEF Change, TypeInv, AppTypes
    <3>3. Op[c] = "erase" /\ UNCHANGED <<Op, target>>
      BY <2>2, <3>1, MovesServes DEF Op
    <3>4. c \notin Served
      BY <2>1, <2>2, AtWork DEF ServedAt
    <3>5. Device!Touches(c) /\ Device!Promise(c)'
      BY <3>2, <3>3, <3>4 DEF Device!Touches, Device!Promise
    <3> QED
      BY <2>1, <3>1, <3>5, ServesGood DEF ServedAt
  <2>4. CASE Answer(c, "InternalError") /\ UNCHANGED bundle
    BY <1>5, <2>1, <2>2, <2>4, Shapes, RefusalGood DEF Results, Codes
  <2>5. /\ Goes(c, "erased") => pc'[c] = "erased"
        /\ Answer(c, "InternalError") => pc'[c] = "done"
    BY DEF Goes, Answer, Goto, TypeInv, ControlTypes
  <2> QED
    BY <1>5, <2>3, <2>4, <2>5 DEF IssueErase, device
<1> QED
  BY <1>1, <1>2, <1>3, <1>4, <1>5 DEF LifecycleEnds

-----------------------------------------------------------------------------
\* uninstallApp: returns to its caller.
LEMMA UninstalledGood ==
  ASSUME TypeInv, NEW c \in Clients,
         NEW code \in {"EverythingOkay", "GenericFailure", "InternalError"},
         Uninstalled(c, code), pc[c] \notin Asleep \cup {"okay", "erased"},
         UNCHANGED bundle,
         cmd[c] = "uninstall" /\ code = "EverythingOkay" => c \in Served
  PROVE  Good(c)
<1>0. pc[c] \notin Asleep
  BY DEF Asleep
<1>1. CASE cmd[c] = "uninstall" /\ code # "EverythingOkay" /\ Exit(c, code)
  <2>1. Ends(c, code) /\ code \in Results \ {"none"} /\ Device!Touches(c)
    BY <1>0, <1>1, Shapes DEF Results, Codes, Device!Touches
  <2> QED
    BY <1>0, <1>1, <2>1, EndsGood
<1>2. ASSUME NEW there \in {"okay", "resign"}, Continue(c, there),
             there = "okay" => cmd[c] = "uninstall" /\ c \in Served,
             there = "resign" => cmd[c] = "install"
      PROVE  Good(c)
  <2>1. Moves(c, there, stage[c])
    BY <1>0, <1>2, Shapes
  <2>2. Fits(c, there, stage[c])
    BY <1>2 DEF Fits, TypeInv, ControlTypes, Flow, AppPoints, Asleep
  <2>3. ServedAt(c, there, stage[c]) <=> ServedAt(c, pc[c], stage[c])
    BY <1>0, <1>2, AtWork DEF ServedAt
  <2> QED
    BY <1>0, <2>1, <2>2, <2>3, MovesGood
<1> QED
  BY <1>1, <1>2 DEF Uninstalled

LEMMA UninstallGood ==
  ASSUME TypeInv, NEW c \in Clients, Uninstall(c)
  PROVE  Good(c)
<1>0. Flow(c) /\ target[c] \in Sims
  BY DEF TypeInv, ControlTypes
<1>1. CASE UninstallKilled(c)
  <2>1. /\ pc[c] \in {"killYES", "killNO"} /\ pc[c] \notin Asleep
        /\ stage[c] = "uninstallKill" /\ UNCHANGED bundle
        /\ Moves(c, "boot", "uninstallBoot")
    BY <1>1, Shapes DEF UninstallKilled, Locally, device, Asleep
  <2>2. Fits(c, "boot", "uninstallBoot")
    BY <1>0, <2>1 DEF Fits, Flow, Points, Asleep, Stages
  <2> QED
    BY <2>1, <2>2, MovesGood DEF ServedAt
<1>2. CASE UninstallBooted(c)
  <2>1. /\ pc[c] \in {"bootYES", "bootNO"} /\ pc[c] \notin Asleep
        /\ stage[c] = "uninstallBoot" /\ UNCHANGED bundle
    BY <1>2 DEF UninstallBooted, At, Locally, device, Asleep
  <2>2. CASE Uninstalled(c, "GenericFailure")
    BY <2>1, <2>2, UninstalledGood
  <2>3. CASE Continue(c, "listed")
    <3>1. Moves(c, "listed", "uninstallBoot")
      BY <2>1, <2>3, Shapes
    <3>2. Fits(c, "listed", "uninstallBoot")
      BY <1>0, <2>1 DEF Fits, Flow, AppPoints, Asleep, Stages
    <3> QED
      BY <2>1, <3>1, <3>2, MovesGood DEF ServedAt
  <2> QED
    BY <1>2, <2>2, <2>3 DEF UninstallBooted
<1>3. CASE UninstallListed(c)
  <2>1. /\ pc[c] = "listed" /\ pc[c] \notin Asleep
        /\ stage[c] = "uninstallBoot" /\ UNCHANGED bundle
    BY <1>0, <1>3 DEF UninstallListed, Asks, At, Locally, device, Asleep, Flow
  <2>2. CASE Uninstalled(c, "GenericFailure")
    BY <2>1, <2>2, UninstalledGood
  <2>3. CASE Continue(c, "issueUninstall")
    <3>1. Moves(c, "issueUninstall", "uninstallBoot")
      BY <2>1, <2>3, Shapes
    <3>2. Fits(c, "issueUninstall", "uninstallBoot")
      BY <1>0, <2>1 DEF Fits, Flow, AppPoints, Asleep, Stages
    <3> QED
      BY <2>1, <3>1, <3>2, MovesGood DEF ServedAt
  <2> QED
    BY <1>3, <2>2, <2>3 DEF UninstallListed
<1>4. CASE IssueUninstall(c)
  <2>1. /\ pc[c] = "issueUninstall" /\ pc[c] \notin Asleep
        /\ stage[c] = "uninstallBoot" /\ cmd[c] \in {"install", "uninstall"}
    BY <1>0, <1>4 DEF IssueUninstall, At, Asleep, Flow
  <2>2. CASE Uninstalled(c, "InternalError") /\ Locally
    BY <2>1, <2>2, UninstalledGood DEF Locally, device
  <2>3. CASE /\ \E listed \in BOOLEAN : Change(c, None, listed)
             /\ Continue(c, "stillListed")
    <3>1. Moves(c, "stillListed", "uninstallBoot")
      BY <2>1, <2>3, Shapes
    <3>2. Fits(c, "stillListed", "uninstallBoot")
      BY <1>0, <2>1 DEF Fits, Flow, AppPoints, Asleep, Stages
    <3>3. bundle' = [bundle EXCEPT ![target[c]] = None] /\ bundle'[target[c]] = None
      BY <1>0, <2>3 DEF Change, TypeInv, AppTypes
    <3>4. c \notin Served /\ result[c] = "none" /\ Op[c] = cmd[c]
      BY <2>1, AtWork DEF ServedAt, Op
    <3>5. UNCHANGED <<Op, target, version, result>>
      BY <3>1, MovesServes
    <3>6. Device!Touches(c)
      BY <2>1, <3>3, <3>4 DEF Device!Touches
    <3>7. CASE cmd[c] = "uninstall"
      <4>1. Device!Promise(c)'
        BY <3>3, <3>4, <3>5, <3>7 DEF Device!Promise
      <4> QED
        BY <2>1, <3>1, <3>2, <3>6, <3>7, <4>1, ServesGood DEF ServedAt
    <3>8. CASE cmd[c] = "install"
      <4>1. Served' = Served
        BY <3>1, <3>4, <3>8, MovesServes DEF ServedAt
      <4>2. Device!Work(c)
        BY <2>1, <3>4, <3>5, <3>6, <3>8, <4>1 DEF Device!Work, Device!Works
      <4> QED
        BY <2>1, <3>1, <3>2, <4>2, MovesKeeps DEF Good, Moves, TypeInv, ControlTypes
    <3> QED
      BY <2>1, <3>7, <3>8
  <2> QED
    BY <1>4, <2>2, <2>3 DEF IssueUninstall
<1>5. CASE UninstallChecked(c)
  <2>1. /\ pc[c] = "stillListed" /\ pc[c] \notin Asleep /\ UNCHANGED bundle
        /\ cmd[c] \in {"install", "uninstall"}
    BY <1>0, <1>5 DEF UninstallChecked, Asks, At, Locally, device, Asleep, Flow
  <2>2. CASE Uninstalled(c, "EverythingOkay")
    BY <2>1, <2>2, UninstalledGood, AtWork DEF ServedAt
  <2>3. CASE Call(c, "shutdown", "rebootDown")
    <3>1. Moves(c, "shutdown", "rebootDown") /\ Fits(c, "shutdown", "rebootDown")
      BY <2>1, <2>3, Shapes DEF Fits, Points, Asleep, Stages
    <3> QED
      BY <2>1, <3>1, MovesGood DEF ServedAt
  <2> QED
    BY <1>5, <2>2, <2>3 DEF UninstallChecked
<1>6. CASE Reboot(c)
  <2>1. /\ pc[c] \in {"shutdownYES", "shutdownNO", "bootYES", "bootNO"}
        /\ pc[c] \notin Asleep /\ UNCHANGED bundle
        /\ stage[c] \in {"rebootDown", "rebootUp"} /\ cmd[c] \in {"install", "uninstall"}
    BY <1>0, <1>6 DEF Reboot, Locally, device, Asleep, Flow
  <2>2. CASE Call(c, "boot", "rebootUp")
    <3>1. Moves(c, "boot", "rebootUp") /\ Fits(c, "boot", "rebootUp")
      BY <2>1, <2>2, Shapes DEF Fits, Points, Asleep, Stages
    <3> QED
      BY <2>1, <3>1, MovesGood DEF ServedAt
  <2>3. CASE stage[c] = "rebootUp" /\ Continue(c, "listedAgain")
    <3>1. Moves(c, "listedAgain", "rebootUp") /\ Fits(c, "listedAgain", "rebootUp")
      BY <2>1, <2>3, Shapes DEF Fits, AppPoints, Asleep, Stages
    <3> QED
      BY <2>1, <3>1, MovesGood DEF ServedAt
  <2> QED
    BY <1>6, <2>2, <2>3 DEF Reboot
<1>7. CASE UninstallRebooted(c)
  <2>1. pc[c] = "listedAgain" /\ pc[c] \notin Asleep /\ UNCHANGED bundle
    BY <1>7 DEF UninstallRebooted, Asks, At, Locally, device, Asleep
  <2>2. Uninstalled(c, "EverythingOkay") \/ Uninstalled(c, "InternalError")
    BY <1>7 DEF UninstallRebooted
  <2> QED
    BY <2>1, <2>2, UninstalledGood, AtWork DEF ServedAt
<1> QED
  BY <1>1, <1>2, <1>3, <1>4, <1>5, <1>6, <1>7 DEF Uninstall

LEMMA InstallGood ==
  ASSUME TypeInv, NEW c \in Clients, Install(c)
  PROVE  Good(c)
<1>0. Flow(c) /\ target[c] \in Sims /\ stage[c] \in Stages
  BY DEF TypeInv, ControlTypes
<1>1. CASE InstallBooted(c)
  <2>1. /\ pc[c] \in {"bootYES", "bootNO"} /\ pc[c] \notin Asleep
        /\ cmd[c] = "install" /\ UNCHANGED bundle
    BY <1>1 DEF InstallBooted, At, Locally, device, Asleep
  <2>2. CASE Exit(c, "GenericFailure")
    BY <2>1, <2>2, Shapes, RefusalGood DEF Results, Codes
  <2>3. CASE Continue(c, "lookup")
    <3>1. Moves(c, "lookup", stage[c]) /\ Fits(c, "lookup", stage[c])
      BY <1>0, <2>1, <2>3, Shapes DEF Fits, Flow, AppPoints, Asleep
    <3> QED
      BY <2>1, <3>1, MovesGood DEF ServedAt
  <2> QED
    BY <1>1, <2>2, <2>3 DEF InstallBooted
<1>2. CASE Lookup(c)
  <2>1. /\ pc[c] = "lookup" /\ pc[c] \notin Asleep /\ cmd[c] = "install"
        /\ UNCHANGED bundle
    BY <1>0, <1>2 DEF Lookup, Sees, At, Locally, device, Asleep, Flow
  <2>2. CASE Continue(c, "okay") /\ bundle[target[c]] = version[c]
    <3>1. Moves(c, "okay", stage[c]) /\ Fits(c, "okay", stage[c])
      BY <1>0, <2>1, <2>2, Shapes DEF Fits, Flow, AppPoints, Asleep
    <3>2. Op[c] = "install" /\ UNCHANGED <<Op, target, version>>
      BY <2>1, <3>1, MovesServes DEF Op
    <3>3. Device!Promise(c)'
      BY <2>1, <2>2, <3>2 DEF Device!Promise
    <3> QED
      BY <2>1, <3>1, <3>3, ServesGood DEF ServedAt, Device!Touches
  <2>3. CASE Call(c, "kill", "uninstallKill")
    <3>1. Moves(c, "kill", "uninstallKill") /\ Fits(c, "kill", "uninstallKill")
      BY <2>1, <2>3, Shapes DEF Fits, Points, Asleep, Stages
    <3> QED
      BY <2>1, <3>1, MovesGood DEF ServedAt
  <2> QED
    BY <1>2, <2>2, <2>3 DEF Lookup
<1>3. CASE Resign(c) \/ NotAtThisTime(c)
  <2>1. /\ pc[c] \in {"resign", "try"} /\ pc[c] \notin Asleep /\ cmd[c] = "install"
        /\ UNCHANGED bundle
    BY <1>0, <1>3 DEF Resign, NotAtThisTime, At, Locally, device, Asleep, Flow
  <2>2. CASE Exit(c, "Raised") \/ Exit(c, "GenericFailure")
    BY <2>1, <2>2, Shapes, RefusalGood DEF Results, Codes
  <2>3. CASE /\ Goes(c, "try") /\ UNCHANGED <<version, force, stage>>
             /\ \E n \in 0..(Tries - 1) : tries' = [tries EXCEPT ![c] = n]
    <3>1. Moves(c, "try", stage[c])
      BY <2>3 DEF Moves, Goes, Goto, callVars, TypeInv, ControlTypes
    <3>2. Fits(c, "try", stage[c])
      BY <1>0, <2>1 DEF Fits, Flow, AppPoints, Asleep
    <3> QED
      BY <2>1, <3>1, <3>2, MovesGood DEF ServedAt
  <2>4. CASE Resign(c)
    BY <2>2, <2>3, <2>4 DEF Resign, Tries
  <2>5. CASE NotAtThisTime(c)
    <3>1. tries[c] \in 0..4
      BY DEF TypeInv, ControlTypes, Tries
    <3>2. tries[c] + 1 < Tries => tries[c] + 1 \in 0..(Tries - 1)
      BY <3>1 DEF Tries
    <3> QED
      BY <2>2, <2>3, <2>5, <3>2 DEF NotAtThisTime
  <2> QED
    BY <1>3, <2>4, <2>5
<1>4. CASE TryInstall(c)
  <2>1. pc[c] = "try" /\ pc[c] \notin Asleep /\ cmd[c] = "install"
    BY <1>0, <1>4 DEF TryInstall, At, Asleep, Flow
  <2>2. CASE Exit(c, "GenericFailure") /\ Locally
    BY <2>1, <2>2, Shapes, RefusalGood DEF Results, Codes, Locally, device
  <2>3. CASE Installs(c)
    <3>1. Moves(c, "okay", stage[c]) /\ Fits(c, "okay", stage[c])
      BY <1>0, <2>1, <2>3, Shapes DEF Installs, Fits, Flow, AppPoints, Asleep
    <3>2. Op[c] = "install" /\ UNCHANGED <<Op, target, version>> /\ c \notin Served
      BY <2>1, <3>1, MovesServes, AtWork DEF Op, ServedAt
    <3>3. bundle' = [bundle EXCEPT ![target[c]] = version[c]]
          /\ bundle'[target[c]] = version[c]
      BY <1>0, <2>3 DEF Installs, Change, TypeInv, AppTypes
    <3>4. Device!Promise(c)' /\ Device!Touches(c)
      BY <3>2, <3>3 DEF Device!Promise, Device!Touches
    <3> QED
      BY <2>1, <3>1, <3>4, ServesGood DEF ServedAt
  <2> QED
    BY <1>4, <2>2, <2>3 DEF TryInstall
<1> QED
  BY <1>1, <1>2, <1>3, <1>4 DEF Install

LEMMA QueryGood ==
  ASSUME TypeInv, NEW c \in Clients, LaunchApp(c) \/ QueryApp(c)
  PROVE  Good(c)
<1>0. Flow(c) /\ target[c] \in Sims /\ stage[c] \in Stages
  BY DEF TypeInv, ControlTypes
<1>1. CASE LaunchListed(c)
  <2>1. /\ pc[c] = "launchListed" /\ pc[c] \notin Asleep /\ cmd[c] = "launchApp"
        /\ UNCHANGED bundle
    BY <1>0, <1>1 DEF LaunchListed, Asks, At, Locally, device, Asleep, Flow
  <2>2. CASE Exit(c, "GenericFailure")
    BY <2>1, <2>2, Shapes, RefusalGood DEF Results, Codes
  <2>3. CASE Call(c, "boot", "firstBoot")
    <3>1. Moves(c, "boot", "firstBoot") /\ Fits(c, "boot", "firstBoot")
      BY <2>1, <2>3, Shapes DEF Fits, Points, Asleep, Stages
    <3> QED
      BY <2>1, <3>1, MovesGood DEF ServedAt
  <2> QED
    BY <1>1, <2>2, <2>3 DEF LaunchListed
<1>2. CASE LaunchBooted(c) \/ IsInstalledBooted(c) \/ LocationBooted(c)
  <2>1. /\ pc[c] \in {"bootYES", "bootNO"} /\ pc[c] \notin Asleep
        /\ cmd[c] \in {"launchApp", "isInstalled", "simulateLocation"}
        /\ stage[c] = "firstBoot" /\ UNCHANGED bundle
    BY <1>2 DEF LaunchBooted, IsInstalledBooted, LocationBooted, At, Locally, device, Asleep
  <2>2. CASE Exit(c, "GenericFailure") \/ Exit(c, "InternalError")
    BY <2>1, <2>2, Shapes, RefusalGood DEF Results, Codes
  <2>3. ASSUME NEW there, Continue(c, there),
               \/ cmd[c] = "launchApp" /\ there = "startApp"
               \/ cmd[c] = "isInstalled" /\ there = "isInstalled"
               \/ cmd[c] = "simulateLocation" /\ there = "setLocation"
        PROVE  Good(c)
    <3>1. Moves(c, there, "firstBoot")
      BY <2>1, <2>3, Shapes
    <3>2. Fits(c, there, "firstBoot")
      BY <2>1, <2>3 DEF Fits, AppPoints, Asleep, Stages
    <3> QED
      BY <2>1, <2>3, <3>1, <3>2, MovesGood DEF ServedAt
  <2> QED
    BY <1>2, <2>2, <2>3 DEF LaunchBooted, IsInstalledBooted, LocationBooted
<1>3. CASE StartApp(c)
  <2>1. /\ pc[c] = "startApp" /\ pc[c] \notin Asleep /\ cmd[c] = "launchApp"
        /\ UNCHANGED bundle
    BY <1>0, <1>3 DEF StartApp, Sees, At, Locally, device, Asleep, Flow
  <2>2. CASE Exit(c, "InternalError")
    BY <2>1, <2>2, Shapes, RefusalGood DEF Results, Codes
  <2>3. CASE Continue(c, "okay") /\ bundle[target[c]] # None
    <3>1. Moves(c, "okay", stage[c]) /\ Fits(c, "okay", stage[c])
      BY <1>0, <2>1, <2>3, Shapes DEF Fits, Flow, AppPoints, Asleep
    <3>2. Op[c] = "launchApp" /\ UNCHANGED <<Op, target>>
      BY <2>1, <3>1, MovesServes DEF Op
    <3>3. Device!Promise(c)'
      BY <2>1, <2>3, <3>2 DEF Device!Promise
    <3> QED
      BY <2>1, <3>1, <3>3, ServesGood DEF ServedAt, Device!Touches
  <2> QED
    BY <1>3, <2>2, <2>3 DEF StartApp
<1>4. CASE IsInstalled(c) \/ AskSimulator(c)
  <2>1. /\ pc[c] \in {"isInstalled", "setLocation", "killApp"} /\ pc[c] \notin Asleep
        /\ cmd[c] \notin {"install", "uninstall", "erase", "launchApp"}
        /\ UNCHANGED bundle
    BY <1>0, <1>4 DEF IsInstalled, AskSimulator, Asks, At, Locally, device, Asleep, Flow
  <2>2. \/ Exit(c, "EverythingOkay") \/ Exit(c, "False") \/ Exit(c, "GenericFailure")
    BY <1>4 DEF IsInstalled, AskSimulator
  <2> QED
    BY <2>1, <2>2, Shapes, RefusalGood, OtherGood DEF Results, Codes
<1> QED
  BY <1>1, <1>2, <1>3, <1>4 DEF LaunchApp, QueryApp

\* The answer due is given.
LEMMA OkayGood ==
  ASSUME TypeInv, NEW c \in Clients, Okay(c)
  PROVE  Good(c)
<1>1. pc[c] = "okay" /\ pc[c] \notin Asleep /\ UNCHANGED bundle /\ Exit(c, "EverythingOkay")
  BY DEF Okay, At, Locally, device, Asleep
<1>2. c \in Served
  BY <1>1, AtWork DEF ServedAt
<1> QED
  BY <1>1, <1>2, Shapes, EndsGood DEF Results, Codes, Device!Touches

\* Every step of a client keeps its invariant, and is a step of Device's.
LEMMA StepGood ==
  ASSUME TypeInv, NEW c \in Clients, AppStep(c)
  PROVE  Good(c)
  BY ProcedureGood, LifecycleGood, UninstallGood, InstallGood, QueryGood, OkayGood
     DEF AppStep

-----------------------------------------------------------------------------
\* A client that begins: only its own arguments and place change.
Begins(c, command, there, s, v, from) ==
  /\ cmd' = [cmd EXCEPT ![c] = command] /\ target' = [target EXCEPT ![c] = s]
  /\ version' = [version EXCEPT ![c] = v]
  /\ pc' = [pc EXCEPT ![c] = there] /\ stage' = [stage EXCEPT ![c] = from]
  /\ UNCHANGED <<result, tries, bundle>>

\* Where each command begins.
Entry(command, there, from) ==
  \/ command \in {"launch", "kill", "erase"} /\ there \in {"boot", "kill"} /\ from = "none"
  \/ command = "uninstall" /\ there = "kill" /\ from = "uninstallKill"
  \/ command = "launchApp" /\ there = "launchListed" /\ from = "firstBoot"
  \/ command = "killApp" /\ there = "killApp" /\ from = "none"
  \/ /\ command \in {"install", "isInstalled", "simulateLocation"}
     /\ there = "boot" /\ from = "firstBoot"

LEMMA BeginsGood ==
  ASSUME TypeInv, NEW c \in Clients, NEW command, NEW there, NEW s \in Sims,
         NEW v \in Versions \cup {None}, NEW from, pc[c] = "idle",
         Begins(c, command, there, s, v, from), Entry(command, there, from),
         command = "install" => v \in Versions,
         force' \in [Clients -> BOOLEAN]
  PROVE  ControlTypes' /\ (\A x \in Clients : Flow(x)') /\ Device!Begin(c)
<1>1. /\ command \in AppCommands \cup {"launch", "kill", "erase"}
      /\ there \in {"boot", "kill", "launchListed", "killApp"} /\ from \in Stages
  BY DEF Entry, AppCommands, Stages
<1>2. ControlTypes'
  BY <1>1 DEF TypeInv, ControlTypes, Begins, Points, AppPoints
<1>3. /\ UNCHANGED result
      /\ \A x \in Clients : /\ pc'[x] = IF x = c THEN there ELSE pc[x]
                            /\ cmd'[x] = IF x = c THEN command ELSE cmd[x]
                            /\ stage'[x] = IF x = c THEN from ELSE stage[x]
                            /\ version'[x] = IF x = c THEN v ELSE version[x]
  BY DEF TypeInv, ControlTypes, Begins
<1>4. ASSUME NEW x \in Clients PROVE Flow(x)'
  <2>1. CASE x = c
    <3>1. /\ cmd'[x] = command /\ pc'[x] = there /\ stage'[x] = from /\ version'[x] = v
          /\ result'[x] = "none"
      BY <1>3, <2>1 DEF TypeInv, Flow
    <3> QED
      BY <3>1 DEF Flow, Entry
  <2>2. CASE x # c
    BY <1>3, <2>2 DEF TypeInv, Flow
  <2> QED
    BY <2>1, <2>2
<1>5. Op[c] = "none" /\ c \notin Served
  BY DEF TypeInv, Flow, Op, Served
<1>6. Op' = [Op EXCEPT ![c] = IF command \in {"install", "uninstall", "erase", "launchApp"}
                              THEN command ELSE "other"]
  BY <1>1, <1>3 DEF Op, AppCommands
<1>7. Served' = Served
  BY <1>1, <1>3, <1>5 DEF Served, Entry
<1>8. Device!Begin(c)
  BY <1>5, <1>6, <1>7 DEF Begins, Device!Begin, Device!Commands
<1> QED
  BY <1>2, <1>4, <1>8

LEMMA BeginGood ==
  ASSUME TypeInv, NEW c \in Clients, AppsBegin(c)
  PROVE  ControlTypes' /\ (\A x \in Clients : Flow(x)') /\ Device!Begin(c)
<1>0. /\ target[c] \in Sims /\ version = [version EXCEPT ![c] = version[c]]
      /\ version[c] \in Versions \cup {None} /\ force \in [Clients -> BOOLEAN]
      /\ stage = [stage EXCEPT ![c] = stage[c]]
  BY DEF TypeInv, ControlTypes
<1>1. ASSUME NEW command \in {"launch", "kill", "erase"}, NEW s \in Sims,
             Start(c, command, s), UNCHANGED appVars
      PROVE  ControlTypes' /\ (\A x \in Clients : Flow(x)') /\ Device!Begin(c)
  <2> DEFINE there == IF command = "launch" THEN "boot" ELSE "kill"
  <2>1. pc[c] = "idle" /\ pc' = [pc EXCEPT ![c] = there]
    BY <1>1 DEF Start, At, Goto
  <2>2. there \in {"boot", "kill"}
    OBVIOUS
  <2> HIDE DEF there
  <2>3. stage[c] = "none"
    BY <2>1 DEF TypeInv, Flow
  <2>4. Begins(c, command, there, s, version[c], "none")
    BY <1>0, <1>1, <2>1, <2>3 DEF Start, Begins, appVars, device, locals
  <2>5. Entry(command, there, "none") /\ command # "install" /\ UNCHANGED force
    BY <1>1, <2>2 DEF Entry, appVars, locals
  <2> QED
    BY <1>0, <2>1, <2>4, <2>5, BeginsGood
<1>2. ASSUME NEW command \in AppCommands, NEW s \in Sims, StartAppCommand(c, command, s)
      PROVE  ControlTypes' /\ (\A x \in Clients : Flow(x)') /\ Device!Begin(c)
  <2> DEFINE there == CASE command = "uninstall" -> "kill"
                        [] command = "launchApp" -> "launchListed"
                        [] command = "killApp"   -> "killApp"
                        [] OTHER                 -> "boot"
             from == CASE command = "uninstall" -> "uninstallKill"
                       [] command = "killApp"   -> "none"
                       [] OTHER                 -> "firstBoot"
  <2>1. /\ pc[c] = "idle" /\ cmd' = [cmd EXCEPT ![c] = command]
        /\ target' = [target EXCEPT ![c] = s]
        /\ pc' = [pc EXCEPT ![c] = there] /\ stage' = [stage EXCEPT ![c] = from]
        /\ UNCHANGED <<result, tries, bundle>>
    BY <1>2 DEF StartAppCommand, At, Goto, device
  <2>2. Entry(command, there, from)
    BY DEF Entry, AppCommands
  <2>3. \E v \in Versions \cup {None} :
          /\ version' = [version EXCEPT ![c] = v]
          /\ command = "install" => v \in Versions
    <3>1. CASE command = "install"
      BY <1>2, <3>1 DEF StartAppCommand
    <3>2. CASE command # "install"
      BY <1>0, <1>2, <3>2 DEF StartAppCommand
    <3> QED
      BY <3>1, <3>2
  <2>4. force' \in [Clients -> BOOLEAN]
    BY <1>0, <1>2 DEF StartAppCommand
  <2> HIDE DEF there, from
  <2>5. PICK v \in Versions \cup {None} : /\ version' = [version EXCEPT ![c] = v]
                                          /\ command = "install" => v \in Versions
    BY <2>3
  <2>6. Begins(c, command, there, s, v, from)
    BY <2>1, <2>5 DEF Begins
  <2> QED
    BY <2>1, <2>2, <2>4, <2>5, <2>6, BeginsGood
<1> QED
  BY <1>0, <1>1, <1>2 DEF AppsBegin, Begin

-----------------------------------------------------------------------------
\* The procedures of the life cycle move simulators between their states, and
\* work on simulators of the set.
LEMMA ProcedureLife ==
  ASSUME TypeInv, NEW c \in Clients, Boot(c) \/ Shutdown(c) \/ Kill(c) \/ SimShutDown(c)
  PROVE  LifeTypes'
<1>0. LifeTypes /\ sim[c] \in Sims
  BY DEF TypeInv, LifeTypes
<1> USE DEF LifeTypes, devVars, callVars, Goto, Goes
<1>1. ASSUME NEW st \in DeviceState, Move(c, sim[c], st), UNCHANGED callVars
      PROVE  LifeTypes'
  BY <1>0, <1>1 DEF Move
<1>2. CASE Boot(c)
  <2>1. CASE IssueBoot(c)
    BY <1>0, <1>1, <2>1 DEF IssueBoot, DeviceState
  <2>2. CASE BootRead(c) \/ BootWaitBooted(c) \/ BootWaitCreated(c) \/ BootWaitDown(c)
    BY <1>0, <2>2 DEF BootRead, BootWaitBooted, BootWaitCreated, BootWaitDown, Await,
                      TimesOut, Learns
  <2>3. CASE BootAwaited(c) \/ Focus(c)
    BY <1>0, <2>3 DEF BootAwaited, Focus, Learns
  <2> QED
    BY <1>2, <2>1, <2>2, <2>3 DEF Boot
<1>3. CASE Shutdown(c)
  <2>1. CASE IssueShutdown(c)
    BY <1>0, <1>1, <2>1 DEF IssueShutdown, DeviceState
  <2>2. CASE ShutdownRead(c) \/ ShutdownReadAgain(c) \/ ShutdownWait(c)
             \/ ShutdownAwaited(c)
    BY <1>0, <2>2 DEF ShutdownRead, ShutdownReadAgain, ShutdownWait, ShutdownAwaited,
                      TimesOut, Learns
  <2> QED
    BY <1>3, <2>1, <2>2 DEF Shutdown
<1>4. CASE Kill(c)
  <2>1. CASE ListApps(c) \/ ListSims(c) \/ NextSim(c)
    BY <1>0, <2>1 DEF ListApps, ListSims, NextSim
  <2>2. CASE QuitApp(c)
    BY <1>0, <2>2 DEF QuitApp, KillFails
  <2> QED
    BY <1>4, <2>1, <2>2 DEF Kill
<1>5. CASE SimShutDown(c)
  BY <1>0, <1>5 DEF SimShutDown, KillFails
<1> QED
  BY <1>2, <1>3, <1>4, <1>5

\* The commands call procedures on their targets, and touch no state.
LEMMA CommandLife ==
  ASSUME TypeInv, NEW c \in Clients, LifecycleEnds(c) \/ Uninstall(c) \/ Install(c)
                                     \/ LaunchApp(c) \/ QueryApp(c) \/ Okay(c)
  PROVE  LifeTypes'
<1>0. LifeTypes /\ target[c] \in Sims
  BY DEF TypeInv, ControlTypes
<1>1. /\ \A there : Continue(c, there) => UNCHANGED <<sim, todo>>
      /\ \A code : Exit(c, code) \/ Answer(c, code) => UNCHANGED <<sim, todo>>
      /\ \A p, from : Call(c, p, from) => sim' \in [Clients -> Sims] /\ UNCHANGED todo
      /\ \A code : Uninstalled(c, code) => UNCHANGED <<sim, todo>>
  BY <1>0 DEF Continue, Goes, callVars, Exit, Answer, Call, Uninstalled, LifeTypes
<1> DEFINE Calls == UNCHANGED <<sim, todo>>
                    \/ (sim' \in [Clients -> Sims] /\ UNCHANGED todo)
<1>2. CASE LifecycleEnds(c)
  <2>1. CASE LaunchEnds(c) \/ KillEnds(c) \/ IssueErase(c) \/ Erased(c)
    BY <1>0, <1>1, <2>1 DEF LaunchEnds, KillEnds, IssueErase, Erased, Learns, Goes, devVars,
                            callVars, LifeTypes
  <2>2. CASE EraseAfterKill(c)
    BY <1>0, <2>2 DEF EraseAfterKill, devVars, LifeTypes
  <2>3. CASE EraseWait(c)
    BY <1>0, <1>1, <2>3 DEF EraseWait, Await, TimesOut, Learns, devVars, callVars, LifeTypes
  <2> QED
    BY <1>2, <2>1, <2>2, <2>3 DEF LifecycleEnds
<1>3. CASE Uninstall(c)
  <2>1. UNCHANGED <<state, disturbed>>
    BY <1>3 DEF Uninstall, UninstallKilled, UninstallBooted, UninstallListed,
                IssueUninstall, UninstallChecked, Reboot, UninstallRebooted, Asks,
                Locally, devVars
  <2>5. Calls
    BY <1>0, <1>1, <1>3 DEF Uninstall, UninstallKilled, UninstallBooted, UninstallListed,
                IssueUninstall, UninstallChecked, Reboot, UninstallRebooted
  <2> QED
    BY <1>0, <2>1, <2>5 DEF LifeTypes
<1>4. CASE Install(c)
  <2>1. UNCHANGED <<state, disturbed>>
    BY <1>4 DEF Install, InstallBooted, Lookup, Resign, NotAtThisTime, TryInstall,
                Installs, Sees, Locally, devVars
  <2>2. Calls
    BY <1>0, <1>1, <1>4 DEF Install, InstallBooted, Lookup, Resign, NotAtThisTime,
                            TryInstall, Installs, Goes, callVars
  <2> QED
    BY <1>0, <2>1, <2>2 DEF LifeTypes
<1>5. CASE LaunchApp(c) \/ QueryApp(c) \/ Okay(c)
  <2>1. UNCHANGED <<state, disturbed>>
    BY <1>5 DEF LaunchApp, QueryApp, LaunchListed, LaunchBooted, StartApp,
                IsInstalledBooted, IsInstalled, LocationBooted, AskSimulator, Okay, Asks,
                Sees, Locally, devVars
  <2>2. Calls
    BY <1>0, <1>1, <1>5 DEF LaunchApp, QueryApp, LaunchListed, LaunchBooted, StartApp,
                IsInstalledBooted, IsInstalled, LocationBooted, AskSimulator, Okay
  <2> QED
    BY <1>0, <2>1, <2>2 DEF LifeTypes
<1> QED
  BY <1>2, <1>3, <1>4, <1>5

\* A step that leaves the apps alone; what the client knows of them may change.
Quiet(c) ==
  /\ UNCHANGED device
  /\ interfered' \in [Clients -> BOOLEAN] /\ unheard' \in [Clients -> BOOLEAN]
  /\ \A x \in Clients \ {c} : UNCHANGED <<interfered[x], unheard[x]>>

LEMMA LooksQuiet ==
  ASSUME TypeInv, NEW c \in Clients
  PROVE  /\ UNCHANGED <<device, history>> => Quiet(c)
         /\ Locally => Quiet(c)
         /\ Sees(c) => Quiet(c)
         /\ \A yes \in BOOLEAN : Asks(c, yes) => Quiet(c)
<1>0. interfered \in [Clients -> BOOLEAN] /\ unheard \in [Clients -> BOOLEAN]
  BY DEF TypeInv, AppTypes
<1>1. UNCHANGED <<device, history>> => Quiet(c)
  BY <1>0 DEF Quiet, history
<1>2. ASSUME Sees(c) PROVE Quiet(c)
  BY <1>0, <1>2 DEF Sees, Quiet
<1>3. ASSUME NEW yes \in BOOLEAN, Asks(c, yes) PROVE Quiet(c)
  <2>1. CASE Hears(c, yes)
    <3>1. (yes /\ interfered[c]) \in BOOLEAN
      OBVIOUS
    <3>2. interfered' = [interfered EXCEPT ![c] = yes /\ interfered[c]]
      BY <2>1 DEF Hears
    <3>3. unheard' = [unheard EXCEPT ![c] = FALSE]
      BY <2>1 DEF Hears
    <3> QED
      BY <1>0, <1>3, <3>1, <3>2, <3>3 DEF Asks, Quiet
  <2>2. CASE HearsNothing(c)
    <3>1. (cmd[c] = "uninstall") \in BOOLEAN
      OBVIOUS
    <3>2. unheard' = [unheard EXCEPT ![c] = cmd[c] = "uninstall"] /\ UNCHANGED interfered
      BY <2>2 DEF HearsNothing
    <3> QED
      BY <1>0, <1>3, <3>1, <3>2 DEF Asks, Quiet
  <2> QED
    BY <1>3, <2>1, <2>2 DEF Asks
<1> QED
  BY <1>1, <1>2, <1>3 DEF Locally

\* What a step of a client does to the apps: nothing, or a Change on its target.
LEMMA StepTouches ==
  ASSUME TypeInv, NEW c \in Clients, AppStep(c)
  PROVE  \/ Quiet(c)
         \/ \E v \in Versions \cup {None}, listed \in BOOLEAN : Change(c, v, listed)
<1>0. version[c] \in Versions \cup {None}
  BY DEF TypeInv, ControlTypes
<1>1. CASE Procedure(c) \/ LifecycleEnds(c)
  <2>1. UNCHANGED <<device, history>> \/ Change(c, None, FALSE)
    BY <1>1 DEF Procedure, LifecycleEnds, appVars
  <2> QED
    BY <2>1, LooksQuiet
<1>2. CASE Uninstall(c)
  <2>1. \/ Locally
        \/ \E yes \in BOOLEAN : Asks(c, yes)
        \/ \E listed \in BOOLEAN : Change(c, None, listed)
    BY <1>2 DEF Uninstall, UninstallKilled, UninstallBooted, UninstallListed,
                IssueUninstall, UninstallChecked, Reboot, UninstallRebooted
  <2> QED
    BY <2>1, LooksQuiet
<1>3. CASE Install(c)
  <2>1. Locally \/ Sees(c) \/ Change(c, version[c], FALSE)
    BY <1>3 DEF Install, InstallBooted, Lookup, Resign, NotAtThisTime, TryInstall, Installs
  <2> QED
    BY <1>0, <2>1, LooksQuiet
<1>4. CASE LaunchApp(c) \/ QueryApp(c) \/ Okay(c)
  <2>1. Locally \/ Sees(c) \/ \E yes \in BOOLEAN : Asks(c, yes)
    BY <1>4 DEF LaunchApp, QueryApp, LaunchListed, LaunchBooted, StartApp,
                IsInstalledBooted, IsInstalled, LocationBooted, AskSimulator, Okay
  <2> QED
    BY <2>1, LooksQuiet
<1> QED
  BY <1>1, <1>2, <1>3, <1>4 DEF AppStep

-----------------------------------------------------------------------------
\* TypeInv is inductive: a client's own step or beginning, the arrival of a
\* simulator's transition, and what the user does, keep it.
LEMMA BeginKeeps ==
  ASSUME TypeInv, NEW c \in Clients, AppsBegin(c)
  PROVE  TypeInv'
<1>1. \/ \E command \in {"launch", "kill", "erase"}, s \in Sims :
           Start(c, command, s) /\ UNCHANGED appVars
      \/ \E s \in Sims, command \in AppCommands : StartAppCommand(c, command, s)
  BY DEF AppsBegin, Begin, TypeInv, ControlTypes
<1>2. LifeTypes /\ AppTypes
  BY DEF TypeInv
<1>3. LifeTypes'
  BY <1>1, <1>2 DEF Start, StartAppCommand, devVars, LifeTypes
<1>4. AppTypes'
  BY <1>1, <1>2 DEF StartAppCommand, appVars, device, history, AppTypes
<1> QED
  BY <1>3, <1>4, BeginGood DEF TypeInv

LEMMA StepKeeps ==
  ASSUME TypeInv, NEW c \in Clients, AppStep(c)
  PROVE  TypeInv'
<1>1. LifeTypes'
  BY ProcedureLife, CommandLife DEF AppStep, Procedure
<1>2. AppTypes'
  <2>1. AppTypes /\ target[c] \in Sims
    BY DEF TypeInv, ControlTypes
  <2>2. CASE Quiet(c)
    BY <2>1, <2>2 DEF Quiet, device, AppTypes
  <2>3. ASSUME NEW v \in Versions \cup {None}, NEW listed \in BOOLEAN,
               Change(c, v, listed)
        PROVE  AppTypes'
    <3>1. interfered' \in [Clients -> BOOLEAN]
      <4>1. \A d \in Clients :
              (/\ d # c /\ pc[d] \notin {"idle", "done"}
               /\ interfered[d] \/ target[d] = target[c]) \in BOOLEAN
        BY <2>1 DEF AppTypes
      <4> QED
        BY <2>3, <4>1 DEF Change
    <3> QED
      BY <2>1, <2>3, <3>1 DEF Change, AppTypes
  <2> QED
    BY <2>2, <2>3, StepTouches
<1> QED
  BY <1>1, <1>2, StepGood DEF TypeInv, Good

LEMMA EnvironmentLeaves ==
  ASSUME AppsEnvironment
  PROVE  UNCHANGED <<pc, cmd, target, sim, todo, result, bundle, version, force,
                     tries, stage, interfered, unheard>>
  BY DEF AppsEnvironment, Environment, Arrives, Meddle, callVars, locals, history

LEMMA EnvironmentKeeps ==
  ASSUME TypeInv, AppsEnvironment
  PROVE  TypeInv'
<1>1. ControlTypes' /\ \A c \in Clients : Flow(c)'
  BY EnvironmentLeaves DEF TypeInv, ControlTypes, Flow
<1>2. AppTypes'
  <2>1. \A s \in Sims :
          (ghost[s] /\ ~(state[s] = "Booting" /\ state'[s] = "Booted")) \in BOOLEAN
    BY DEF TypeInv, AppTypes
  <2> QED
    BY <2>1, EnvironmentLeaves DEF TypeInv, AppTypes, AppsEnvironment
<1>3. LifeTypes'
  <2>1. state' \in [Sims -> DeviceState] /\ disturbed' \in [Clients -> SUBSET Sims]
    BY DEF AppsEnvironment, Environment, Arrives, Meddle, Move, TypeInv, LifeTypes,
           DeviceState
  <2> QED
    BY <2>1, EnvironmentLeaves DEF TypeInv, LifeTypes
<1> QED
  BY <1>1, <1>2, <1>3 DEF TypeInv

LEMMA TypeInvStep == TypeInv /\ [AppsNext]_allVars => TypeInv'
<1> SUFFICES ASSUME TypeInv, [AppsNext]_allVars PROVE TypeInv'
  OBVIOUS
<1>1. CASE UNCHANGED allVars
  BY <1>1 DEF allVars, vars, devVars, callVars, appVars, device, locals, history,
              TypeInv, ControlTypes, AppTypes, LifeTypes, Flow
<1> QED
  BY <1>1, BeginKeeps, StepKeeps, EnvironmentKeeps DEF AppsNext

\* The commands on apps keep to the values they are meant to range over.
THEOREM AppsTypes == AppsSpec => []AppsTypeOK
  BY TypeInvInit, TypeInvStep, TypeInvTypes, PTL DEF AppsSpec

\* Simulator implements Device: every behaviour of any number of processes on
\* any number of simulators, through nested uninstalls, retries and reboots, is
\* one that class Device promises.
THEOREM SimulatorImplements == AppsSpec => ImplementsDevice
<1>1. AppsInit => Device!Init
  <2> SUFFICES ASSUME AppsInit PROVE Device!Init
    OBVIOUS
  <2>1. Op = [c \in Clients |-> "none"] /\ Served = {}
    BY DEF AppsInit, Init, Op, Served
  <2>2. TypeInv
    BY TypeInvInit
  <2> QED
    BY <2>1, <2>2 DEF AppsInit, Init, TypeInv, ControlTypes, Device!Init
<1>2. TypeInv /\ [AppsNext]_allVars => [Device!Next]_(Device!vars)
  <2> SUFFICES ASSUME TypeInv, [AppsNext]_allVars PROVE [Device!Next]_(Device!vars)
    OBVIOUS
  <2>1. CASE UNCHANGED allVars
    BY <2>1 DEF allVars, vars, callVars, appVars, device, locals, Op, Served,
                Device!vars
  <2>2. ASSUME NEW c \in Clients, AppsBegin(c) \/ AppStep(c) PROVE Device!Next
    BY <2>2, BeginGood, StepGood DEF Good, Device!Next
  <2>3. CASE AppsEnvironment
    BY <2>3, EnvironmentLeaves DEF Op, Served, Device!vars
  <2> QED
    BY <2>1, <2>2, <2>3 DEF AppsNext
<1> QED
  BY <1>1, <1>2, TypeInvInit, TypeInvStep, PTL
     DEF AppsSpec, ImplementsDevice, Device!Spec

-----------------------------------------------------------------------------
\* What a client was served still stands, unless another process has changed the
\* app since; and uninstall-app answers after a listing without the app, or none.
Stands(c) ==
  /\ c \in Served => interfered[c] \/ Device!Promise(c)
  /\ pc[c] = "okay" /\ cmd[c] = "uninstall"
       => interfered[c] \/ (ghost[target[c]] => unheard[c])

AnswerInv == TypeInv /\ \A c \in Clients : Stands(c)

\* Served and not yet answered: the listing is asked for, and the simulator is
\* rebooted for it.
LEMMA ServedStays ==
  ASSUME TypeInv, NEW c \in Clients, AppStep(c), c \in Served, c \in Served'
  PROVE  /\ cmd[c] = "uninstall" /\ UNCHANGED device
         /\ interfered'[c] = interfered[c] \/ ~Listed(c)
<1>0. Flow(c) /\ interfered \in [Clients -> BOOLEAN] /\ pc \in [Clients -> Points \cup AppPoints]
  BY DEF TypeInv, ControlTypes, AppTypes
<1>1. pc[c] \notin {"okay", "erased"}
  <2>1. ~Ends(c, "EverythingOkay")
    BY EndsServes
  <2>2. ASSUME pc[c] \in {"okay", "erased"} PROVE FALSE
    <3>1. ~Procedure(c)
      BY <2>2, ProcedureInside DEF Procedure, Inside, Points
    <3>2. Okay(c) \/ (Erased(c) /\ UNCHANGED appVars)
      BY <1>0, <2>2, <3>1 DEF AppStep, LifecycleEnds, LaunchEnds, KillEnds, EraseAfterKill,
           EraseWait, IssueErase, Uninstall, UninstallKilled, UninstallBooted,
           UninstallListed, IssueUninstall, UninstallChecked, Reboot, UninstallRebooted,
           Install, InstallBooted, Lookup, Resign, NotAtThisTime, TryInstall, LaunchApp,
           LaunchListed, LaunchBooted, StartApp, QueryApp, IsInstalledBooted, IsInstalled,
           LocationBooted, AskSimulator, At
    <3>3. \/ Exit(c, "EverythingOkay")
          \/ Answer(c, "EverythingOkay") /\ UNCHANGED locals /\ stage[c] = "none"
      BY <1>0, <2>2, <3>2 DEF Okay, Erased, appVars, Flow, At
    <3> QED
      BY <2>1, <2>2, <3>3, Shapes DEF Asleep
  <2> QED
    BY <2>2
<1>2. /\ cmd[c] = "uninstall"
      /\ pc[c] \notin {"issueErase", "issueUninstall", "try", "lookup", "resign", "startApp",
                       "launchListed", "isInstalled", "setLocation", "killApp"}
  BY <1>0, <1>1 DEF Flow, Served
<1>3. Locally \/ (\E yes \in BOOLEAN : Asks(c, yes)) \/ UNCHANGED appVars
  <2>1. CASE Procedure(c)
    BY <2>1 DEF Procedure
  <2>2. CASE LifecycleEnds(c)
    BY <1>2, <2>2 DEF LifecycleEnds, IssueErase, At
  <2>3. CASE Uninstall(c)
    BY <1>2, <2>3 DEF Uninstall, UninstallKilled, UninstallBooted, UninstallListed,
                      IssueUninstall, UninstallChecked, Reboot, UninstallRebooted, At
  <2>4. CASE Install(c)
    BY <1>2, <2>4 DEF Install, InstallBooted, Lookup, Resign, NotAtThisTime, TryInstall, At
  <2>5. CASE LaunchApp(c) \/ QueryApp(c) \/ Okay(c)
    BY <1>2, <2>5 DEF LaunchApp, QueryApp, LaunchListed, LaunchBooted, StartApp, Okay,
                IsInstalledBooted, IsInstalled, LocationBooted, AskSimulator, At
  <2> QED
    BY <2>1, <2>2, <2>3, <2>4, <2>5 DEF AppStep
<1>4. UNCHANGED device
  BY <1>3 DEF Locally, Asks, appVars
<1>5. CASE Locally \/ UNCHANGED appVars
  BY <1>2, <1>4, <1>5 DEF Locally, appVars, history
<1>6. ASSUME NEW yes \in BOOLEAN, Asks(c, yes)
      PROVE  interfered'[c] = interfered[c] \/ ~Listed(c)
  <2>1. CASE HearsNothing(c)
    BY <2>1 DEF HearsNothing
  <2>2. CASE Hears(c, yes) /\ yes
    <3>1. interfered' = [interfered EXCEPT ![c] = interfered[c]]
      BY <1>0, <2>2 DEF Hears
    <3> QED
      BY <1>0, <3>1
  <2>3. CASE Hears(c, yes) /\ ~yes
    BY <2>3 DEF Hears
  <2> QED
    BY <1>6, <2>1, <2>2, <2>3 DEF Asks
<1> QED
  BY <1>2, <1>3, <1>4, <1>5, <1>6

\* uninstallApp: is done when it has asked, and was told of nothing.
LEMMA UninstallAnswers ==
  ASSUME TypeInv, NEW c \in Clients, AppStep(c), cmd[c] = "uninstall", pc'[c] = "okay"
  PROVE  c \in Served /\ Asks(c, FALSE)
<1>0. /\ Flow(c) /\ pc \in [Clients -> Points \cup AppPoints]
  BY DEF TypeInv, ControlTypes
<1>1. /\ \A there : Continue(c, there) \/ Goes(c, there) => there = "okay"
      /\ \A p, from : Call(c, p, from) => p = "okay"
      /\ \A code : ~Exit(c, code) /\ ~Answer(c, code)
      /\ \A code : Uninstalled(c, code) => code = "EverythingOkay"
  BY <1>0 DEF Continue, Goes, Goto, Call, Exit, Answer, Uninstalled
<1>2. ~Procedure(c)
  BY <1>0, ProcedureInside DEF Procedure, Inside, Points
<1>3. ~LifecycleEnds(c)
  BY <1>0, <1>1 DEF LifecycleEnds, LaunchEnds, KillEnds, EraseAfterKill, EraseWait, IssueErase,
                    Erased, At, Await, Goto, Flow
<1>4. ~Install(c)
  BY <1>0 DEF Install, InstallBooted, Lookup, Resign, NotAtThisTime, TryInstall, At, Flow
<1>5. ~(LaunchApp(c) \/ QueryApp(c) \/ Okay(c))
  BY <1>0, <1>1 DEF LaunchApp, QueryApp, LaunchListed, LaunchBooted, StartApp,
                    IsInstalledBooted, IsInstalled, LocationBooted, AskSimulator, Okay, At,
                    Flow
<1>6. Uninstall(c)
  BY <1>2, <1>3, <1>4, <1>5 DEF AppStep
<1>7. pc[c] \in {"stillListed", "listedAgain"} /\ Asks(c, FALSE)
  BY <1>1, <1>6 DEF Uninstall, UninstallKilled, UninstallBooted, UninstallListed,
                    IssueUninstall, UninstallChecked, Reboot, UninstallRebooted, At
<1> QED
  BY <1>7 DEF Served

LEMMA OthersStand ==
  ASSUME TypeInv, NEW c \in Clients, AppStep(c), NEW x \in Clients, x # c, Stands(x)
  PROVE  Stands(x)'
<1>0. /\ Device!Work(c) /\ pc'[x] = pc[x] /\ target[x] \in Sims
  BY StepGood DEF Good, TypeInv, ControlTypes
<1>1. UNCHANGED <<Op, target, version>> /\ (x \in Served' <=> x \in Served)
  <2>1. UNCHANGED <<Op, target, version>>
    BY <1>0 DEF Device!Work
  <2>2. Device!Works(c) \/ Device!Serves(c) \/ Device!Replies(c)
    BY <1>0 DEF Device!Work
  <2> QED
    BY <2>1, <2>2 DEF Device!Works, Device!Serves, Device!Replies
<1>2. cmd'[x] = "uninstall" <=> cmd[x] = "uninstall"
  <2>1. \A y \in Clients : Op[y] = "uninstall" <=> cmd[y] = "uninstall"
    BY DEF Op
  <2>2. Op'[x] = "uninstall" <=> cmd'[x] = "uninstall"
    BY DEF Op
  <2> QED
    BY <1>1, <2>1, <2>2
<1>3. CASE Quiet(c)
  BY <1>0, <1>1, <1>2, <1>3 DEF Quiet, device, Stands, Device!Promise
<1>4. ASSUME NEW v \in Versions \cup {None}, NEW listed \in BOOLEAN, Change(c, v, listed)
      PROVE  Stands(x)'
  <2>1. x \in Served => pc[x] \notin {"idle", "done"}
    BY DEF TypeInv, Flow, Served
  <2>2. CASE target[x] = target[c]
    <3>1. x \in Served => interfered'[x]
      BY <1>4, <2>1, <2>2 DEF Change
    <3>2. pc[x] = "okay" => x \in Served
      BY DEF Served
    <3> QED
      BY <1>0, <1>1, <3>1, <3>2 DEF Stands
  <2>3. CASE target[x] # target[c]
    <3>1. /\ bundle'[target[x]] = bundle[target[x]] /\ ghost'[target[x]] = ghost[target[x]]
          /\ UNCHANGED unheard
      BY <1>0, <1>4, <2>3 DEF Change, TypeInv, AppTypes
    <3>2. x \in Served => (interfered'[x] <=> interfered[x])
      BY <1>4, <2>1, <2>3 DEF Change
    <3>3. pc[x] = "okay" => x \in Served
      BY DEF Served
    <3> QED
      BY <1>0, <1>1, <1>2, <3>1, <3>2, <3>3 DEF Stands, Device!Promise
  <2> QED
    BY <2>2, <2>3
<1> QED
  BY <1>3, <1>4, StepTouches

LEMMA OwnStands ==
  ASSUME TypeInv, NEW c \in Clients, AppStep(c), Stands(c)
  PROVE  Stands(c)'
<1>0. /\ Device!Work(c) /\ Flow(c) /\ Flow(c)'
      /\ UNCHANGED <<Op, target, version>>
  BY StepGood DEF Good, TypeInv, Device!Work
<1>1. ASSUME c \in Served' PROVE interfered'[c] \/ Device!Promise(c)'
  <2>1. CASE c \in Served
    <3>1. /\ cmd[c] = "uninstall" /\ UNCHANGED <<bundle, ghost>>
          /\ interfered'[c] = interfered[c] \/ ~Listed(c)
      BY <1>1, <2>1, ServedStays DEF device
    <3>2. ~Listed(c) => bundle[target[c]] = None
      BY DEF Listed
    <3>3. Op[c] = "uninstall"
      BY <3>1 DEF Op
    <3> QED
      BY <1>0, <2>1, <3>1, <3>2, <3>3 DEF Stands, Device!Promise
  <2>2. CASE c \notin Served
    <3>1. Device!Serves(c)
      BY <1>0, <1>1, <2>2 DEF Device!Work, Device!Works, Device!Replies
    <3> QED
      BY <3>1 DEF Device!Serves
  <2> QED
    BY <2>1, <2>2
<1>2. ASSUME pc'[c] = "okay", cmd'[c] = "uninstall"
      PROVE  ghost'[target'[c]] => unheard'[c]
  <2>1. cmd[c] = "uninstall"
    <3>1. Op'[c] = "uninstall"
      BY <1>2 DEF Op
    <3> QED
      BY <1>0, <3>1 DEF Op
  <2>2. Asks(c, FALSE)
    BY <1>2, <2>1, UninstallAnswers
  <2>3. unheard \in [Clients -> BOOLEAN] /\ UNCHANGED ghost
    BY <2>2 DEF Asks, device, TypeInv, AppTypes
  <2>4. CASE Hears(c, FALSE)
    BY <1>0, <2>3, <2>4 DEF Hears, Listed
  <2>5. CASE HearsNothing(c)
    <3>1. (cmd[c] = "uninstall") = TRUE
      BY <2>1
    <3> QED
      BY <2>3, <2>5, <3>1 DEF HearsNothing
  <2> QED
    BY <2>2, <2>4, <2>5 DEF Asks
<1> QED
  BY <1>1, <1>2 DEF Stands

LEMMA BeginStands ==
  ASSUME AnswerInv, NEW c \in Clients, AppsBegin(c), NEW x \in Clients
  PROVE  Stands(x)'
<1>0. TypeInv /\ Stands(x) /\ Device!Begin(c)
  BY BeginGood DEF AnswerInv
<1>1. UNCHANGED <<Served, bundle>> /\ Op[c] = "none"
  BY <1>0 DEF Device!Begin
<1>2. c \notin Served /\ (pc'[c] = "okay" => c \in Served')
  BY <1>0, <1>1 DEF Op, Served, TypeInv, Flow
<1>3. ASSUME x # c
      PROVE  /\ UNCHANGED <<pc[x], cmd[x], target[x], version[x], ghost, unheard[x]>>
             /\ interfered'[x] = interfered[x] /\ Op'[x] = Op[x]
  <2>1. CASE UNCHANGED appVars /\ Begin(c)
    BY <1>3, <2>1, <1>0 DEF appVars, locals, device, history, Begin, Start, Goto, TypeInv,
                            ControlTypes, Op
  <2>2. ASSUME NEW s \in Sims, NEW command \in AppCommands, StartAppCommand(c, command, s)
        PROVE  /\ UNCHANGED <<pc[x], cmd[x], target[x], version[x], ghost, unheard[x]>>
               /\ interfered'[x] = interfered[x] /\ Op'[x] = Op[x]
    <3>1. pc'[x] = pc[x] /\ cmd'[x] = cmd[x] /\ target'[x] = target[x]
          /\ unheard'[x] = unheard[x] /\ interfered'[x] = interfered[x] /\ UNCHANGED ghost
      BY <1>3, <2>2, <1>0 DEF StartAppCommand, Goto, device, TypeInv, ControlTypes, AppTypes
    <3>2. version'[x] = version[x]
      BY <1>3, <2>2, <1>0 DEF StartAppCommand, TypeInv, ControlTypes
    <3> QED
      BY <3>1, <3>2 DEF Op
  <2> QED
    BY <2>1, <2>2 DEF AppsBegin
<1>4. CASE x # c
  BY <1>0, <1>1, <1>3, <1>4 DEF Stands, Device!Promise
<1>5. CASE x = c
  BY <1>1, <1>2, <1>5 DEF Stands
<1> QED
  BY <1>4, <1>5

LEMMA AnswerInvStep == AnswerInv /\ [AppsNext]_allVars => AnswerInv'
<1> SUFFICES ASSUME AnswerInv, [AppsNext]_allVars PROVE AnswerInv'
  OBVIOUS
<1>1. TypeInv'
  BY TypeInvStep DEF AnswerInv
<1>2. CASE UNCHANGED allVars
  BY <1>1, <1>2 DEF AnswerInv, Stands, Served, Op, Device!Promise, allVars, vars, callVars,
                    appVars, device, locals, history
<1>3. ASSUME AppsEnvironment, NEW x \in Clients PROVE Stands(x)'
  <2>1. ghost'[target[x]] => ghost[target[x]]
    BY <1>3 DEF AppsEnvironment, AnswerInv, TypeInv, ControlTypes
  <2> QED
    BY <1>3, <2>1, EnvironmentLeaves DEF AnswerInv, Stands, Served, Op, Device!Promise
<1>4. ASSUME NEW c \in Clients, AppsBegin(c) \/ AppStep(c), NEW x \in Clients
      PROVE  Stands(x)'
  BY <1>4, OthersStand, OwnStands, BeginStands DEF AnswerInv
<1> QED
  BY <1>1, <1>2, <1>3, <1>4 DEF AppsNext, AnswerInv

\* EverythingOkay of install, uninstall and launch-app comes of Okay alone.
LEMMA OkayAnswers ==
  ASSUME TypeInv, NEW c \in Clients, AppStep(c),
         cmd[c] \in {"install", "uninstall", "launchApp"},
         result[c] # "EverythingOkay", result'[c] = "EverythingOkay"
  PROVE  Okay(c)
<1>0. Flow(c) /\ result \in [Clients -> Results]
  BY DEF TypeInv, ControlTypes
<1>1. /\ \A there : ~Continue(c, there) /\ ~Goes(c, there)
      /\ \A p, from : ~Call(c, p, from)
      /\ \A code : Exit(c, code) => code = "EverythingOkay"
      /\ \A code : ~Uninstalled(c, code)
  BY <1>0 DEF Continue, Goes, callVars, Call, Exit, Answer, Uninstalled
<1>2. ~Procedure(c)
  BY ProcedureInside DEF Procedure
<1>3. ~LifecycleEnds(c)
  BY <1>0 DEF LifecycleEnds, LaunchEnds, KillEnds, EraseAfterKill, EraseWait, IssueErase,
              Erased, At, Flow
<1>4. ~Install(c)
  BY <1>0, <1>1 DEF Install, InstallBooted, Lookup, Resign, NotAtThisTime, TryInstall,
                    Installs
<1>5. ~Uninstall(c)
  BY <1>0, <1>1 DEF Uninstall, UninstallKilled, UninstallBooted, UninstallListed,
                    IssueUninstall, UninstallChecked, Reboot, UninstallRebooted
<1>6. ~LaunchApp(c)
  BY <1>0, <1>1 DEF LaunchApp, LaunchListed, LaunchBooted, StartApp
<1>7. ~QueryApp(c)
  BY <1>0, <1>1 DEF QueryApp, IsInstalledBooted, IsInstalled, LocationBooted, AskSimulator,
                    At, Flow
<1> QED
  BY <1>2, <1>3, <1>4, <1>5, <1>6, <1>7 DEF AppStep

\* Install, uninstall and launch-app tell the truth about the app: what they were
\* served still stands when they answer.
LEMMA AnswersHoldNow ==
  ASSUME AnswerInv, NEW c \in Clients, NEW d \in Clients, AppStep(d),
         result[c] # result'[c], result'[c] = "EverythingOkay"
  PROVE  interfered[c] \/ AppPromise(c)
<1>0. TypeInv /\ Stands(c) /\ Device!Work(d)
  BY StepGood DEF AnswerInv, Good
<1>1. Device!Replies(d)
  BY <1>0 DEF Device!Work, Device!Works, Device!Serves
<1>2. c = d
  BY <1>0, <1>1 DEF Device!Replies, TypeInv, ControlTypes
<1>3. CASE cmd[c] \in {"install", "uninstall", "launchApp"}
  <2>1. pc[c] = "okay"
    BY <1>0, <1>2, <1>3, OkayAnswers DEF Okay, At
  <2>2. c \in Served /\ Op[c] = cmd[c]
    BY <1>3, <2>1 DEF Served, Op
  <2> QED
    BY <1>0, <2>1, <2>2 DEF Stands, Device!Promise, AppPromise
<1>4. CASE cmd[c] \notin {"install", "uninstall", "launchApp"}
  BY <1>4 DEF AppPromise
<1> QED
  BY <1>3, <1>4

\* EverythingOkay of install, uninstall and launch-app is true of the app, for any
\* number of processes and simulators, unless another process has changed the app
\* since this one changed it or saw it: whatever the others do between the request
\* and the answer, through the reboot whose results nobody looks at, and with a
\* listing that may fail, which only uninstall's "not listed" suffers from.
THEOREM AppAnswersAreTrue == AppsSpec => AppAnswersHold
<1>1. AppsInit => AnswerInv
  BY TypeInvInit DEF AppsInit, Init, AnswerInv, Stands, Served
<1>2. AnswerInv /\ [AppsNext]_allVars
      => [\A c \in Clients : result[c] # result'[c] /\ result'[c] = "EverythingOkay"
            => interfered[c] \/ AppPromise(c)]_allVars
  <2> SUFFICES ASSUME AnswerInv, AppsNext, NEW c \in Clients,
                      result[c] # result'[c], result'[c] = "EverythingOkay"
               PROVE  interfered[c] \/ AppPromise(c)
    OBVIOUS
  <2>1. ASSUME NEW d \in Clients, AppsBegin(d) PROVE FALSE
    BY <2>1, BeginGood DEF AnswerInv, Device!Begin
  <2>2. CASE AppsEnvironment
    BY <2>2, EnvironmentLeaves
  <2>3. ASSUME NEW d \in Clients, AppStep(d) PROVE interfered[c] \/ AppPromise(c)
    BY <2>3, AnswersHoldNow
  <2> QED
    BY <2>1, <2>2, <2>3 DEF AppsNext
<1> QED
  BY <1>1, <1>2, AnswerInvStep, PTL DEF AppsSpec, AppAnswersHold

-----------------------------------------------------------------------------
(***************************************************************************)
(* The life cycle once more, now with the commands on apps calling into    *)
(* it: what a process relies on is the same, but that uninstallApp: shuts  *)
(* its simulator down outside the loop of killSimulatorApp, where nothing  *)
(* has been swept.                                                         *)
(***************************************************************************)
AppRelies(c) == Seen(c) /\ OnTarget(c) /\ (stage[c] # "rebootDown" => Swept(c))

LifeInv == TypeInv /\ \A c \in Clients : AppRelies(c)

LEMMA AppShape == TypeInv => Shape
  BY DEF TypeInv, ControlTypes, Shape

\* Where a step of a command on apps leads: out of the life cycle, or to the
\* first line of one of its procedures.
Entrances == AppPoints \cup {"done", "boot", "kill", "shutdown"}

Enters(c) ==
  /\ \E there \in Entrances : /\ pc' = [pc EXCEPT ![c] = there]
                              /\ there = "shutdown" => stage'[c] = "rebootDown"
  /\ UNCHANGED <<state, disturbed, todo>>
  /\ cmd'[c] \in AppCommands
  /\ cmd[c] \in AppCommands \/ UNCHANGED result
  /\ \A x \in Clients \ {c} :
       UNCHANGED <<cmd[x], target[x], sim[x], result[x], stage[x]>>

LEMMA HelpersEnter ==
  ASSUME TypeInv, NEW c \in Clients, cmd[c] \in AppCommands,
         UNCHANGED <<state, disturbed>>
  PROVE  /\ \A there \in AppPoints : Continue(c, there) => Enters(c)
         /\ \A procedure, from : /\ Call(c, procedure, from)
                                 /\ procedure \in {"boot", "kill", "shutdown"}
                                 /\ procedure = "shutdown" => from = "rebootDown"
                                 => Enters(c)
         /\ \A code : Exit(c, code) => Enters(c)
<1> USE DEF TypeInv, ControlTypes, LifeTypes, Goto, Entrances
<1>1. ASSUME NEW there \in AppPoints, Continue(c, there) PROVE Enters(c)
  <2>1. there \in Entrances /\ there # "shutdown"
    BY DEF AppPoints
  <2>2. pc' = [pc EXCEPT ![c] = there] /\ UNCHANGED <<cmd, target, sim, todo, result, stage>>
    BY <1>1 DEF Continue, Goes, callVars, locals
  <2> QED
    BY <2>1, <2>2 DEF Enters
<1>2. ASSUME NEW procedure \in {"boot", "kill", "shutdown"}, NEW from,
             Call(c, procedure, from), procedure = "shutdown" => from = "rebootDown"
      PROVE  Enters(c)
  <2>1. procedure \in Entrances
    OBVIOUS
  <2>2. /\ UNCHANGED <<cmd, target, todo, result>> /\ pc' = [pc EXCEPT ![c] = procedure]
        /\ sim' = [sim EXCEPT ![c] = target[c]] /\ stage' = [stage EXCEPT ![c] = from]
    BY <1>2 DEF Call
  <2> QED
    BY <1>2, <2>1, <2>2 DEF Enters
<1>3. ASSUME NEW code, Exit(c, code) PROVE Enters(c)
  <2>1. /\ UNCHANGED <<cmd, target, sim, todo>> /\ pc' = [pc EXCEPT ![c] = "done"]
        /\ result' = [result EXCEPT ![c] = code] /\ stage' = [stage EXCEPT ![c] = "none"]
    BY <1>3 DEF Exit, Answer
  <2>2. "done" \in Entrances
    OBVIOUS
  <2> QED
    BY <2>1, <2>2 DEF Enters
<1> QED
  BY <1>1, <1>2, <1>3

LEMMA TriesEnter ==
  ASSUME TypeInv, NEW c \in Clients, cmd[c] \in AppCommands,
         UNCHANGED <<state, disturbed>>, Goes(c, "try"), UNCHANGED stage
  PROVE  Enters(c)
  BY DEF Goes, Goto, callVars, Enters, Entrances, AppPoints

LEMMA UninstallEnters ==
  ASSUME TypeInv, NEW c \in Clients, Uninstall(c)
  PROVE  Enters(c)
<1>1. cmd[c] \in AppCommands /\ UNCHANGED <<state, disturbed>>
  <2>1. cmd[c] \in AppCommands
    BY DEF TypeInv, Flow, AppCommands, At, Uninstall, UninstallKilled, UninstallBooted,
           UninstallListed, IssueUninstall, UninstallChecked, Reboot, UninstallRebooted
  <2>2. UNCHANGED <<state, disturbed>>
    BY DEF Uninstall, UninstallKilled, UninstallBooted, UninstallListed, IssueUninstall,
           UninstallChecked, Reboot, UninstallRebooted, Asks, Locally, devVars
  <2> QED
    BY <2>1, <2>2
<1>2. \/ \E there \in AppPoints : Continue(c, there)
      \/ \E procedure, from : /\ Call(c, procedure, from)
                              /\ procedure \in {"boot", "kill", "shutdown"}
                              /\ procedure = "shutdown" => from = "rebootDown"
      \/ \E code : Exit(c, code)
  <2>1. \A code : Uninstalled(c, code) => \/ Exit(c, code)
                                          \/ \E there \in AppPoints : Continue(c, there)
    BY DEF Uninstalled, AppPoints
  <2>2. CASE UninstallKilled(c)
    BY <2>2 DEF UninstallKilled
  <2>3. CASE UninstallBooted(c) \/ UninstallListed(c)
    BY <2>1, <2>3 DEF UninstallBooted, UninstallListed, AppPoints
  <2>4. CASE IssueUninstall(c)
    BY <2>1, <2>4 DEF IssueUninstall, AppPoints
  <2>5. CASE UninstallChecked(c)
    BY <2>1, <2>5 DEF UninstallChecked, AppPoints
  <2>6. CASE Reboot(c)
    <3>1. Call(c, "boot", "rebootUp") \/ Continue(c, "listedAgain")
      BY <2>6 DEF Reboot
    <3> QED
      BY <3>1 DEF AppPoints
  <2>7. CASE UninstallRebooted(c)
    BY <2>1, <2>7 DEF UninstallRebooted, AppPoints
  <2> QED
    BY <2>2, <2>3, <2>4, <2>5, <2>6, <2>7 DEF Uninstall
<1> QED
  BY <1>1, <1>2, HelpersEnter

LEMMA InstallEnters ==
  ASSUME TypeInv, NEW c \in Clients, Install(c)
  PROVE  Enters(c)
<1>1. cmd[c] \in AppCommands /\ UNCHANGED <<state, disturbed>>
  <2>1. cmd[c] \in AppCommands
    BY DEF TypeInv, Flow, AppCommands, At, Install, InstallBooted, Lookup, Resign,
           NotAtThisTime, TryInstall
  <2>2. UNCHANGED <<state, disturbed>>
    BY DEF Install, InstallBooted, Lookup, Resign, NotAtThisTime, TryInstall, Installs,
           Sees, Locally, devVars
  <2> QED
    BY <2>1, <2>2
<1>2. \/ \E there \in AppPoints : Continue(c, there)
      \/ Call(c, "kill", "uninstallKill")
      \/ \E code : Exit(c, code)
      \/ Goes(c, "try") /\ UNCHANGED stage
  BY DEF Install, InstallBooted, Lookup, Resign, NotAtThisTime, TryInstall, Installs,
         AppPoints
<1> QED
  BY <1>1, <1>2, HelpersEnter, TriesEnter

LEMMA QueryEnters ==
  ASSUME TypeInv, NEW c \in Clients, LaunchApp(c) \/ QueryApp(c) \/ Okay(c)
  PROVE  Enters(c)
<1>1. cmd[c] \in AppCommands /\ UNCHANGED <<state, disturbed>>
  <2>1. cmd[c] \in AppCommands
    BY DEF TypeInv, Flow, AppCommands, At, LaunchApp, QueryApp, LaunchListed,
           LaunchBooted, StartApp, IsInstalledBooted, IsInstalled, LocationBooted,
           AskSimulator, Okay
  <2>2. UNCHANGED <<state, disturbed>>
    BY DEF LaunchApp, QueryApp, LaunchListed, LaunchBooted, StartApp,
           IsInstalledBooted, IsInstalled, LocationBooted, AskSimulator, Okay, Asks,
           Sees, Locally, devVars
  <2> QED
    BY <2>1, <2>2
<1>2. \/ \E there \in AppPoints : Continue(c, there)
      \/ Call(c, "boot", "firstBoot")
      \/ \E code : Exit(c, code)
  BY DEF LaunchApp, QueryApp, LaunchListed, LaunchBooted, StartApp, IsInstalledBooted,
         IsInstalled, LocationBooted, AskSimulator, Okay, AppPoints
<1> QED
  BY <1>1, <1>2, HelpersEnter

LEMMA StartEnters ==
  ASSUME TypeInv, NEW c \in Clients, NEW s \in Sims, NEW command \in AppCommands,
         StartAppCommand(c, command, s)
  PROVE  Enters(c)
<1> DEFINE there == CASE command = "uninstall" -> "kill"
                      [] command = "launchApp" -> "launchListed"
                      [] command = "killApp"   -> "killApp"
                      [] OTHER                 -> "boot"
<1>1. there \in Entrances /\ there # "shutdown"
  BY DEF Entrances, AppPoints
<1>2. pc' = [pc EXCEPT ![c] = there]
  BY DEF StartAppCommand, Goto
<1> HIDE DEF there
<1>3. /\ UNCHANGED <<state, disturbed, todo, result>>
      /\ cmd' = [cmd EXCEPT ![c] = command] /\ target' = [target EXCEPT ![c] = s]
      /\ sim' = [sim EXCEPT ![c] = s]
      /\ \A x \in Clients \ {c} : stage'[x] = stage[x]
  BY DEF StartAppCommand, devVars, TypeInv, ControlTypes
<1> QED
  BY <1>1, <1>2, <1>3 DEF Enters, TypeInv, ControlTypes, LifeTypes

\* A step of a client is one of the life cycle, which is then called by the same
\* caller as before, or enters it.
LEMMA StepIs ==
  ASSUME TypeInv, NEW c \in Clients, AppsBegin(c) \/ AppStep(c)
  PROVE  \/ /\ Begin(c) \/ ClientStep(c)
            /\ UNCHANGED stage
         \/ Enters(c)
<1>1. CASE AppsBegin(c)
  BY <1>1, StartEnters DEF AppsBegin, appVars, locals
<1>2. CASE Procedure(c) \/ LifecycleEnds(c)
  BY <1>2 DEF Procedure, LifecycleEnds, ClientStep, Command, appVars, locals
<1>3. CASE Uninstall(c) \/ Install(c) \/ LaunchApp(c) \/ QueryApp(c) \/ Okay(c)
  BY <1>3, UninstallEnters, InstallEnters, QueryEnters
<1> QED
  BY <1>1, <1>2, <1>3 DEF AppStep

\* The others are not disturbed, and a client's own step keeps what it relies on.
LEMMA AppOthersRely ==
  ASSUME LifeInv, NEW c \in Clients, NEW d \in Clients, d # c,
         AppsBegin(d) \/ AppStep(d)
  PROVE  Kept(c) /\ AppRelies(c)'
<1>1. TypeInv /\ Shape /\ AppRelies(c)
  BY AppShape DEF LifeInv
<1>2. Kept(c) /\ stage'[c] = stage[c]
  <2>1. CASE (Begin(d) \/ ClientStep(d)) /\ UNCHANGED stage
    BY <1>1, <2>1, OthersKept
  <2>2. CASE Enters(d)
    <3>1. UNCHANGED <<state, disturbed, todo, cmd[c], target[c], sim[c], result[c], stage[c]>>
      BY <2>2 DEF Enters
    <3>2. pc'[c] = pc[c]
      BY <1>1, <2>2 DEF Enters, Shape
    <3> QED
      BY <3>1, <3>2 DEF Kept, Still
  <2> QED
    BY <1>1, <2>1, <2>2, StepIs
<1> QED
  BY <1>1, <1>2, KeptInv DEF AppRelies

LEMMA AppOwnRelies ==
  ASSUME LifeInv, NEW c \in Clients, AppsBegin(c) \/ AppStep(c)
  PROVE  AppRelies(c)'
<1>1. TypeInv /\ Shape /\ AppRelies(c)
  BY AppShape DEF LifeInv
<1>2. CASE (Begin(c) \/ ClientStep(c)) /\ UNCHANGED stage
  BY <1>1, <1>2, OwnSeen, OwnSwept DEF AppRelies
<1>3. CASE Enters(c)
  <2>1. PICK there \in Entrances : /\ pc' = [pc EXCEPT ![c] = there]
                                   /\ there = "shutdown" => stage'[c] = "rebootDown"
    BY <1>3 DEF Enters
  <2>2. pc'[c] = there /\ cmd'[c] \in AppCommands
    BY <1>1, <1>3, <2>1 DEF Shape, Enters
  <2>3. Seen(c)' /\ OnTarget(c)'
    BY <2>2 DEF Seen, OnTarget, Entrances, AppPoints, AppCommands
  <2>4. stage'[c] # "rebootDown" => Swept(c)'
    BY <2>1, <2>2 DEF Swept, Entrances, AppPoints, ShutdownPoints
  <2> QED
    BY <2>3, <2>4 DEF AppRelies
<1> QED
  BY <1>1, <1>2, <1>3, StepIs

LEMMA LifeInvStep == LifeInv /\ [AppsNext]_allVars => LifeInv'
<1> SUFFICES ASSUME LifeInv, [AppsNext]_allVars PROVE LifeInv'
  OBVIOUS
<1>1. TypeInv /\ Shape /\ TypeInv'
  BY TypeInvStep, AppShape DEF LifeInv
<1>2. ASSUME NEW c \in Clients PROVE AppRelies(c)'
  <2>1. AppRelies(c)
    BY DEF LifeInv
  <2>2. CASE UNCHANGED allVars
    BY <2>1, <2>2 DEF allVars, vars, devVars, callVars, appVars, locals, AppRelies, Seen,
                      OnTarget, Swept, Still
  <2>3. CASE AppsEnvironment
    <3>1. Kept(c) /\ UNCHANGED stage
      BY <1>1, <2>3, EnvironmentKept, EnvironmentLeaves DEF AppsEnvironment
    <3> QED
      BY <1>1, <2>1, <3>1, KeptInv DEF AppRelies
  <2>4. ASSUME NEW d \in Clients, AppsBegin(d) \/ AppStep(d) PROVE AppRelies(c)'
    BY <2>4, AppOthersRely, AppOwnRelies
  <2> QED
    BY <2>2, <2>3, <2>4 DEF AppsNext
<1> QED
  BY <1>1, <1>2 DEF LifeInv

LEMMA LifeInvAlways == AppsSpec => []LifeInv
<1>1. AppsInit => LifeInv
  <2>1. AppsInit => TypeInv /\ IInv
    BY TypeInvInit, IInvInit DEF AppsInit
  <2>2. (TypeInv /\ IInv) => LifeInv
    BY DEF IInv, Inv, LifeInv, AppRelies
  <2> QED
    BY <2>1, <2>2
<1> QED
  BY <1>1, LifeInvStep, PTL DEF AppsSpec

\* With install, uninstall and the other commands on apps calling boot, shutdown
\* and killSimulatorApp too, CoreSimulator is still only asked for a boot or an
\* erase of what the process has seen to be Shutdown.
THEOREM AppsFreshRequests == AppsSpec => []RequestsAreFresh
<1>1. LifeInv => RequestsAreFresh
  BY DEF LifeInv, AppRelies, Seen, RequestsAreFresh
<1> QED
  BY <1>1, LifeInvAlways, PTL

\* And launch-simulator, kill-simulator and erase-simulator still answer
\* EverythingOkay only of what is so, whatever commands on apps other processes
\* run on the same simulators.
THEOREM AppsAnswersAreTrue == AppsSpec => AnswersHold
<1>1. ASSUME LifeInv, AppsNext, NEW c \in Clients,
             result[c] # result'[c], result'[c] = "EverythingOkay"
      PROVE  Promise(c)
  <2>1. TypeInv /\ Shape /\ AppRelies(c) /\ Flow(c)
    BY <1>1, AppShape DEF LifeInv, TypeInv
  <2>2. AppsBegin(c) \/ AppStep(c)
    <3>1. ASSUME NEW d \in Clients, d # c, AppsBegin(d) \/ AppStep(d) PROVE FALSE
      BY <1>1, <3>1, AppOthersRely DEF Kept
    <3>2. ASSUME AppsEnvironment PROVE FALSE
      BY <1>1, <3>2, EnvironmentLeaves
    <3> QED
      BY <1>1, <3>1, <3>2 DEF AppsNext
  <2>3. CASE cmd[c] \notin {"launch", "kill", "erase"}
    BY <2>3 DEF Promise
  <2>4. CASE cmd[c] \in {"launch", "kill", "erase"}
    <3>1. stage[c] # "rebootDown" /\ cmd[c] \notin AppCommands
      BY <2>1, <2>4 DEF Flow, AppCommands
    <3>2. Inv(c)
      BY <2>1, <3>1 DEF AppRelies, Inv
    <3>3. Begin(c) \/ ClientStep(c)
      BY <1>1, <2>1, <2>2, <3>1, StepIs DEF Enters
    <3> QED
      BY <1>1, <2>1, <3>2, <3>3, StepAnswers
  <2> QED
    BY <2>3, <2>4
<1>2. LifeInv /\ [AppsNext]_allVars =>
        [\A c \in Clients : result[c] # result'[c] /\ result'[c] = "EverythingOkay"
                               => Promise(c)]_vars
  BY <1>1 DEF allVars
<1> QED
  BY <1>2, LifeInvAlways, PTL DEF AppsSpec, AnswersHold
=============================================================================
