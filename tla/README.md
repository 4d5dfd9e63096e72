# iOSDeviceManager in TLA+

iOSDeviceManager is a command-line tool, in Objective-C, that drives iOS
simulators and physical devices: it launches, stops and erases simulators,
signs, installs, launches and removes applications, and moves data in and out of
their containers.  Each command is a process of its own that ends with an exit
code (`iOSReturnStatusCode`).  Test runners start many of them, often at the
same time, and believe the exit code.  Nothing locks a device: what one process
has learnt may be wrong by the time it acts, the simulators belong to a
service, CoreSimulator, and to a user who both move them on their own, and a
device can be unplugged.  Inside one process the concurrency is in the choice of
a provisioning profile and in the runner of child processes.

This directory models the parts of the tool where that matters, checks them with
TLC on small instances and proves the most important results with TLAPS.

## Modules

| module | what it is |
|---|---|
| `SimulatorLifecycle` | boot, shutdown, kill-simulator and erase-simulator of `Devices/Simulator.m` |
| `SimulatorApps` | install, uninstall, launch-app, kill-app, is-installed and set-location on simulators; extends the life cycle |
| `DeviceApps` | the abstract specification: what class `Device` promises of the commands on an app, on whatever device |
| `PhysicalDeviceApps` | install (with the choice of a profile and signing), uninstall, launch-app, kill-app and is-installed of `Devices/PhysicalDevice.m` |
| `DataContainers` | generating, uploading and downloading bundles of app data, uploading files and clearing, on simulators |
| `DeviceContainers` | uploading files and moving containers on physical devices, with the DVT calls of `FBLegacy.m` |
| `ProfileRanking` | the choice of a signing identity and of a profile, by concurrent blocks |
| `EntitlementRank` | the score of a profile for an app |
| `ResignBundle` | signing an app with its libraries, frameworks and plug-ins, several times over |
| `ShellRunner` | the runner of child processes: pipes, timeout, SIGTERM |
| `*Proofs` | the theorems about the module of that name; `SimulatorProofs` about both simulator modules |
| `MC*` | the instances that TLC checks |

`SimulatorApps` and `PhysicalDeviceApps` are each shown to implement `DeviceApps`.
`ProfileRanking` takes what `EntitlementRank` computes as a number; `PhysicalDeviceApps`
takes what `ProfileRanking` and `ResignBundle` do as one choice and two steps;
`ResignBundle`, like everything that calls `codesign` or `security`, takes what
`ShellRunner` answers as success or failure at any call.

A run is `tlc -config MCX.cfg MCX` for the module `MCX` that `PROJECT.json` names for it, a
proof `tlapm XProofs.tla`.

## The system: components

For each: the state it keeps, its operations, what it interacts with, what is
hard about it and what makes it correct.  Paths are under
`src/iOSDeviceManager/`.

**Simulator life cycle** (`Devices/Simulator.m` 82-277).  State: none of its own;
each simulator's state is CoreSimulator's and is read through `self.state`.
Operations: `boot`, `shutdown`, `waitForSimulatorState:timeout:`,
`killSimulatorApp`, `eraseSimulator`, `launchSimulator`.  `killSimulatorApp` also
works on the running instances of Simulator.app.  Hard: a state read long before
it is acted on, two reads of one state, results ignored by callers, a loop over
all simulators that fails in the middle, waits that time out.  Correct: requests
are made only of simulators learnt to be in the right state; `EverythingOkay` is
true; a command that does not end is waiting for a request without a timeout.

**Apps on simulators** (`Devices/Simulator.m` 279-562, `Devices/Device.m` 62-84).
State: which version is installed on each simulator, and CoreSimulator's list of
apps, which may lag behind.  Operations: `installApp:` (boots, looks the app up,
uninstalls, signs ad hoc, tries to install several times), `uninstallApp:` (kills
Simulator.app, boots, asks, uninstalls, asks again, reboots, asks once more),
`launchApp:`, `killApp:`, `isInstalled:`, `simulateLocationWithLat:lng:`.  Calls all
of the life cycle.  Hard: the nested calls whose results are ignored, the stale
listing, retries, another process on the same app.  Correct: the app is as
`EverythingOkay` says it is.

**Physical devices** (`Devices/PhysicalDevice.m`).  State: the apps, profiles and
processes of a device, and the `.app` directory on the host, which is signed where
it is.  Install uninstalls first, then picks a profile, signs, installs the
profile and the app.  Hard: a failure after the uninstallation, a pid that is gone
when it is used, two processes signing one directory, a reply that is lost.
Correct: what is sent is signed with a profile the device has; apps are stopped
before they are removed; `EverythingOkay` is true.

**Data containers** (`Devices/Simulator.m` 564-677, 805-835,
`Utilities/XCAppDataBundle.m`, `Commands/ClearAppDataCommand.m`, ...).  State: the
directories Documents, Library and tmp of a container, and bundles on disk, one of
which, `Empty.xcappdata`, every process shares.  Hard: sequences of file operations
none of which is undone when a later one fails, results ignored, a shared
temporary path, a copy that is not atomic.  On a device there are no files to
reach: a container is downloaded whole, changed, and uploaded whole over what was
written in between.  Correct: a command that answers `EverythingOkay` has moved the
data it says it has, and no other.

**Profile and identity selection** (`Resigning/MobileProfile.m` 57-330,
`Resigning/CodesignIdentity.m` 25-63).  State: the shared array of ranked profiles.
Operations: listing the profiles on disk and ranking them, both by concurrent
blocks; picking an identity.  Hard: a search of the shared array outside the lock
under which it is changed; profiles listed again between two uses.  Correct: no
profile lost, no index out of range, the best profile chosen.

**Entitlement comparison** (`Resigning/Entitlement.m`, `Entitlements.m`).  Pure: the
score of a profile against an app.  Hard: sums of -1, 0, 1, 100 and 1000 in which a
rejection must win, over the keys of a dictionary in no order.  Correct: the score
does not depend on the order, and an exact match is never beaten.

**Resigning** (`Resigning/Codesigner.m`).  State: the files of an app bundle and who
has signed each.  Hard: a signature covers what is in a bundle, so contents are
signed first; plug-ins are bundles themselves, with libraries that the app's own
loop has seen already; resources are injected; a run that fails leaves its half.
Correct: what a finished run has signed is unchanged since, and all of one team.

**Shell runner** (`Utilities/ShellRunner.m`, `ShellResult.m`).  State: a child process
and two pipes.  Hard: pipes that fill while nobody reads, the race between the
exit and the timeout, a child that ignores SIGTERM, a helper that keeps the pipe
open.  Correct: success is success, output is whole, the call returns.

**Legacy DVT bridge** (`Utilities/FBLegacy/FBLegacy.m`): a poll for the apps of a
device without a timeout, and downloads and uploads with handshakes.  **Command
line** (`Commands/CLI.m`, `Command.m`, `CommandOption.m`): pure parsing, with rules on
repeated and positional arguments.  **Device look-up** (`Utilities/DeviceUtils.m`):
which device a name, an ID or nothing means.  **Log files**
(`Utilities/Logging/IDMLogger.m`): several processes creating, linking and deleting
logs.  **XCTest staging**, **applications and files**: conversions and I/O.

## SimulatorLifecycle

State: `state` (of each simulator, as CoreSimulator has it), `app` (each instance of
Simulator.app), and for each process `pc`, its command and simulator, what
`killSimulatorApp` still has to visit, and its exit code.  `boot`, `shutdown` and
`killSimulatorApp` are procedures: they end at a `pc` named for what they return
(`bootYES`, `shutdownNO`, ...) and the caller's own action goes on from there.  Every
read of `self.state`, every wait and every request is one action, named in
`PROJECT.json` with its lines.  Abstractions:

- Time.  A wait ends when the state is the wanted one, or at any moment when it is
  not; the length of a timeout plays no part.
- CoreSimulator.  Transitions under way complete by `Arrives`, or do not; a request
  may always be refused; a boot request needs Shutdown, a shutdown request Booting or
  Booted, an erasure Shutdown.  `await:` on a request has no timeout
  (`FBFuture+Sync.h` 46): the answer may come at any time, or never.
- The set of simulators is fixed: simulators are not created or deleted meanwhile.
- `terminate`, two seconds of waiting, `forceTerminate`, two seconds of waiting are one
  action with the two outcomes they have together.

`disturbed[c]` is a history variable: the simulators that someone other than `c` has
moved since `c` last learnt their state.  Nothing the tool does could make an answer
true of such a simulator, so the properties speak of the others.

| run | instance | shows |
|---|---|---|
| `MCSimulatorLifecycle.cfg` | 2 simulators, 2 processes, 1 Simulator.app, 1 act of the user | `TypeOK`, `RequestsAreFresh`, `AnswersHold` |

Two simulators are what the loop of `killSimulatorApp` needs to fail in the middle
and to be overtaken; two processes are what it takes for one to move what the other
has read.  Each process runs one command, any of the three on any simulator, from
any initial state of the simulators, so that a command begins wherever an earlier
one may have left off.  `EverythingOkay` from kill-simulator is a promise about all
simulators, made although they are visited one after the other.

An observation: `shutdown` (258, 260) reads `self.state` twice; a simulator that stops
in between is asked to shut down, which the first read is there to avoid, and
kill-simulator fails for it.

Fairness: weak, on the steps of each process except at the places in `Awaits`, where it
waits for the answer to a request: to boot, to come to the front, to shut down, to
erase.  A running process is scheduled and a wait with a timeout runs out; CoreSimulator
and the user owe nothing.  What comes of that is `EveryCommandAnswers`, checked below with
the commands on apps.

Between the success of an erasure and the exit code of erase-simulator there is a place,
`erased`: a simulator that another actor moves there is `disturbed` like any other.

## SimulatorApps

Extends the life cycle.  Adds `bundle` (the version on each simulator), `ghost` (the
list still shows an app that was removed), the arguments of install, the attempt,
and `stage`, the caller of the procedure that is running.  All processes work on one
bundle ID.  What comes from the repository about the listing is the comment at
`Simulator.m` 397-399 and the reboot at 422-424: an app removed while Simulator.app
runs may stay listed, until the simulator comes up again.  A listing may fail at any
time, which `isInstalled:withError:` (522-531) reads as NO.  The success of a request and
the answer to it are two steps: a process is at `okay` in between.  Apps are taken to have a bundle that can be read;
`Codesigner` signs or raises, and a raise ends the process (`main.m` catches nothing).
Whether an app runs is not modelled: kill-app and set-location succeed or fail.

Two variables are history.  `interfered[c]`: another process changed the app on `c`'s
simulator since `c` began, or last changed it or saw it to be as asked.  `unheard[c]`: the
listing that uninstall asked for last failed.

| run | instance | shows |
|---|---|---|
| `MCSimulatorApps.cfg` | 1 simulator, 2 processes, 2 versions, 1 act of the user | `AppsTypeOK`, `RequestsAreFresh`, `AppAnswersHold`, `AnswersHold`, `ImplementsDevice` |
| `MCSimulatorAppsUser.cfg` | 2 simulators, 1 process, 2 versions, 1 act of the user | `EveryCommandAnswers` |

Two processes on one simulator meet on the same app and on the same reboot; a second
simulator matters only for kill-simulator, which the second run has.  Two versions
are one to find and one to install.  `MaxMeddling` bounds the user; one act is enough
to pull the simulator or Simulator.app from under any step.  `RequestsAreFresh` and
`AnswersHold`, checked of the life cycle above, are checked again where install and
uninstall call into it, with `shutdown` outside the loop of `killSimulatorApp`.  The first run takes
processes and versions to be interchangeable; the second, of a liveness property,
does not.

Fairness: as above, and none where CoreSimulator is asked about the app or to do something
with it, or where `codesign` signs it (`AppAwaits`).  `EveryCommandAnswers` says exactly what
that leaves: a command ends, or stands still for ever in one request without a timeout.
Waits with a timeout, the walk over all simulators, the attempts, the nested uninstall
and the reboot end although a simulator may be Booting for ever, and no command goes
round.  A request without an answer does hang the command (231, 241, 267, 142 and the
requests on apps), and the property does not say otherwise.

Observations.  Simulator.app, closed so that the uninstallation is seen, may be open
again when it happens, because the failure to close it is ignored and because `boot`
itself opens it.  `tries` is 5 and the loop condition is `++try < tries`: four attempts
are made.  What `uninstallApp:` returned is ignored by `installApp:`, which may then
install a version onto another.  `AppAnswersHold` holds in spite of all that: the last
look, or the success of the installation itself, is what the answer rests on.  The one
look it does not survive is a listing that fails: `uninstallApp:` passes no error at 421 and
does not use it at 426, so that a failed listing is taken for an app that is gone, and
uninstall answers `EverythingOkay` while the simulator may still list it.  That the bundle
is gone even then is part of what is checked and proved; of the listing the property
claims nothing then (`unheard`).

## DeviceApps

What `Devices/Device.h` declares and both kinds of device override, as one atomic
step or more for each command.  A command may be refused, fail or raise at any time,
having done as much to the app as such a command may; `EverythingOkay` means that at
some moment between the call and the answer what the command promises was so
(`served`), and that the command has not touched the app since.  "Installs or leaves
the device as it was" would be the better promise, and neither class keeps it: both
uninstall the old version before they know that they can install the new one.

The two refinement mappings have the same form: `Op` names the command or `other`,
`Served` are the processes for which the deed is done and the answer is due: an
uninstallation whose simulator is being asked, and rebooted, for its listing; a
request to a device whose reply is under way.  Every step of either module maps to a
step of `DeviceApps` or to none, which both runs check and TLAPS proves.

## PhysicalDeviceApps

State: `bundle`, `running` and `granted` of each device (version, whether it runs,
profiles), `seal` (who signed each `.app` directory of the host), and for each process
its place, command and arguments, and the profile chosen.  Every request to the device
is a step; where the device may have done what was asked and the reply be lost, or the
device change in between, the reply is a step of its own.  Abstractions: a look-up that
fails is an app that is not installed, a pid not found is an app that does not run,
as in the code; signing begins by breaking what was there and ends with the profile's
seal, with a raise possible at both steps; what is chosen among profiles is any of
them, or the one named (`ProfileRanking` has the rest).  The user opens, quits and
deletes the app.

`foreign[c]`: another process has signed the directory since `c` began to, which
nothing prevents.  `excused[c]`: nobody told `c` that the app runs (the pid look-up
failed, or it was started afterwards).

| run | instance | shows |
|---|---|---|
| `MCPhysicalDeviceApps.cfg` | 1 device, 2 processes, 2 versions, 2 profiles | `TypeOK`, `SealedForDevice`, `StoppedFirst`, `ImplementsDevice` |

Two processes share a device, a directory or both; two profiles are one named and
another found.  Devices share nothing but the directories, so that one of them is
enough.  All constants but the device are interchangeable.

## DataContainers

State: `tree`, what is in each container and at each path, as a tree of the three
directories that are moved, each of which is `Absent` or has a value or `None` for each
file name; `there`, the paths at which there is a directory; and for each process `pc`,
the command and its arguments, the index of the loop it is in, and its exit code.
`generateBundleSkeleton:` and `uploadXCAppDataBundle:` are commands of their own and
the two halves of clear-app-data: `Generated` and `Uploaded` say where each goes on.
Every call of `NSFileManager` that changes something, or whose answer is acted on, is a
step.  Abstractions:

- The copy or removal of one directory is one step, but one that fails may leave any
  part of its work behind (`Parts`).
- `isValid:` reads the bundle at once; `Library/Preferences` stands or falls with `Library`;
  the directory a bundle is in exists.
- A container belongs to one bundle ID, and does not move while a command runs.
- `isInstalled:` may answer either way.
- The message for a removal that failed (`ClearAppDataCommand.m` 86, `Simulator.m` 658)
  passes a C string where its format has an object.  What comes of it is undefined: the
  process goes on, or it crashes and no `@finally` is run.

`failed[c]` (a call of `c` failed although nothing stood in its way) and `touched[c]` (the
trees of `c` that others changed while it ran) are history: what the code can promise
is about commands that met neither.  It is not about commands that nobody preceded:
processes are killed at any point, and their leavings are what the next one finds.

| run | instance | shows |
|---|---|---|
| `MCDataContainers.cfg` | 2 processes, 1 container, 1 bundle, 2 contents, 1 act | `TypeOK`, `LeftoverIsReported`, `DataAnswersHold`, `NeverOverwritten` |
| `MCClearShared.cfg` | 2 processes, 2 containers | `ClearsOwnContainer` is violated |

Two processes are enough for one to be at work and the other to have been killed, or to
pull the bundle from under it.  Two contents are an old and a new one.  `MaxActs` bounds
what the app writes and what the disk fails by itself together; one is enough, as each
property forgives the first failure it sees.  Every initial content of container
and bundle is tried, also with directories missing.

*Finding.*  Two clear-app-data at once, of whichever apps, share `Empty.xcappdata`; one
that finds it gone clears nothing and answers `EverythingOkay`.

An observation: download-xcappdata removes what is at the path before it copies, and
returns when the removal fails; at a path where there is nothing it fails, nothing is
downloaded, and the command, which does not look at the result, answers
`EverythingOkay`.

## DeviceContainers

The same commands where the container is on a device.  State: `container`, `bundle` (at
each path), whether the device is `attached`, and for each process its place and
arguments, the temporary bundle it works on (`temp`), whether `FBLegacy`'s search has
found the device (`dvtDevice`) and whether that has listed its apps (`listing`).  The
search ends after two seconds, with or without a device that is attached; a list of
apps may be asked for and never come, and nobody looks at the errors (`FBLegacy.m`
234-250).  A download or upload that fails may have moved any part
(`Kept`).  The app writes files by itself, `MaxActs` times; the cable is pulled and
plugged in at any time.  `touched[c]`: another actor has changed the container since
`c` last downloaded or uploaded it.

| run | instance | shows |
|---|---|---|
| `MCDeviceContainers.cfg` | 2 processes, 1 bundle, 2 files, 1 value, 1 act of the app | `TypeOK`, `UploadsOneFile`, `OverwritesOnlyWhenAsked`, `CommandsEnd` |

Two files are the one uploaded and one to leave alone; two processes are what it takes
for one upload to be lost in another.

Fairness: weak, on the steps of each process except where it waits for the device without
a timeout (`Awaits`: the look-up of the app, `installedApplications`, downloads and
uploads); the device, the app and the user owe nothing.  `CommandsEnd` says of each command
that it ends, or is left for ever in one of those calls or in the loop of
`fetchApplications`, waiting for a list that has not come.  That loop has no timeout and
does not look for the device again, so that a command that has missed the device, or
whose device was gone or did not list its apps, never ends, and the check for nil at
`FBLegacy.m` 259 is never reached.  What the property excludes is anything else without
an end.

Observations.  What the app or another process writes between the download and the
upload of the container is overwritten by upload, without -o.  "Remove the temporary
data bundle" (`PhysicalDevice.m` 458-459) removes only its Documents.

## ProfileRanking

State: `valid` and `score` are facts of the machine (which identities a profile admits
on the device, and the sum its entitlements get against the app's), `expired` grows
with time, `phase` is where the caller is, and each block of a concurrent
enumeration has a `pc` and the bounds `lo`, `hi` of its binary search.  `Judge` reads
the count of the shared array, each `Probe` reads one element, `Insert` is under the
lock.  Every reading of a profile is a child process that may fail or run out of time,
which drops the profile from that listing and no other: the profiles an identity is
considered with (`Consider`), those listed for another, and those that are ranked (`Load`)
may all differ.  The app's entitlements are read by a child, too: when that fails no
identity is found (`Unpicked`), or nothing is ranked (`Loaded`).  A reader and the
writer of the array are interleaved slot by slot; that NSMutableArray might move its
storage under a reader is outside the model.  `raced` is history: some insertion
happened while another block was between its count and its own insertion.  `pickedFor` is
history: the profile for whose sake the identity was picked.

| run | instance | shows |
|---|---|---|
| `MCProfileRanking.cfg` | 3 profiles, 2 identities, scores -1..1 | `TypeOK`, `NothingLost`, `IndexInBounds`, `SortedUnlessRaced`, `MatchSuits`, `IdentityFindsProfile`, `ChoiceEnds` |
| `MCProfileRankingOrder.cfg` | 2 profiles, 1 identity | `MostPreferredFirst` is violated |

Three profiles give a search of more than one probe beside an insertion; two
identities are enough for the second to replace or not to replace the first; scores
are a rejection, a tie and a difference.  Which name a profile has plays no part:
`NamedSpec` begins only where profiles are named by rising score and the identity the
user gives, if any, is the first.  Every other beginning is one of these with the
names exchanged, and no fairness condition or property tells names apart.

*Finding.*  The search is outside the lock.  Two blocks that both find index 0 insert
in the order they get the lock, and the profile chosen need not be the best: the
choice differs from run to run on the same machine.  What remains true is what is
proved: nothing is lost, no insertion raises, and the order holds without a race.

Fairness: the caller and every block are scheduled, and every child ends, be it by its
timeout; a child that ignores SIGTERM holds its block for ever (see `ShellRunner`), and
`ChoiceEnds` does not speak of it.

Observations.  A profile whose child was too slow is not there for that listing, without
a word: an identity picked with one profile may be left with a worse one or none, and
what is chosen is the best of those that were read.  When the app cannot be read the
second time, no profile is chosen though there may be one; `MatchSuits` and
`IdentityFindsProfile` say exactly that (`Refused`), and no more.

## EntitlementRank

`Compare` is `+compareProfileEntitlement:appEntitlement:` on the type of two values and
the strings in them, `Next` the loop that adds the results over the keys of the app,
taken in any order.

| run | instance | shows |
|---|---|---|
| `MCEntitlementRank.cfg` | 2 keys; values with strings, wildcards, numbers and arrays of up to two | `TypeOK`, `RankIsOfNoOrder`, `ExactRanksFirst` |

Every pair of entitlements over two keys is an initial state; `SomeValues` names one
value for each branch of the comparison.  Two keys are what a rejection needs to come
before or after something else.

Observations.  `ProfileHasUnRequiredKey` (1000) is never added: the loop is over the
app's keys, so that a profile with more entitlements than the app has keys for does not
rank behind one without.  An array of the profile that is longer than the app's is scored
by its count alone: its items are not compared.

## ResignBundle

State: `within` (which bundles and frameworks each item is in), `present`, `team` (who
signed it), `grants` (the profile whose entitlements a bundle has), `sealed` (nothing in
it has changed since it was signed), and `stack`, the calls of `resignAppDir:`, which
recurses into plug-ins.  A run is `resign`, `install` or one round of `resign-all` over
the bundle of the profile before; it may stop at any step, and the next, with the
same profile or another, works on what it finds.  Abstractions:

- Plug-ins are in the `Plugins` directory of a bundle, not in a framework; injected
  resources are at the root of the app and have nothing in them.
- Unsigned and signed ad hoc are one, `None`, as `shouldResign:` sees them: no team.
- `codesign --deep` on an object signs what is in it; it may fail having done part.
- `codesign --display` may fail, and the decision be made without a team.

History: `signed` (by this run), `misjudged` (items decided on without knowing the
signature), `kin` (items that began with the app's team, or with any when the app had
none), `begun` and `mixed` (a run stopped half way, and one of another profile came
after it).

| run | instance | shows |
|---|---|---|
| `MCResignBundle.cfg` | 1 plug-in, 3 objects of which one may be injected, 3 profiles of 2 teams, 2 runs, 1 misjudgement | `TypeOK`, `SealsHold`, `OneTeamThroughout` |

Every nesting of two objects and a plug-in is tried: side by side, one in the other,
each in the plug-in.  Two runs are one that stops and one that repairs; one blind
decision is enough to see that the properties forgive only what rests on it.  The two
objects that are not injected are interchangeable.

Observations.  "Objects resigned above won't be resigned again" (`Codesigner.m` 429-430)
holds only when the app is signed and its team is not that of the profile: an object of
a plug-in in an unsigned app, or in one of the profile's own team, is signed twice, which
`SealsHold` shows to be harmless.  `calabash.dylib` is signed again in any case (278), and
there it is not: a framework in a plug-in that has `calabash.dylib` in it is signed in the
loop of the app, and in the loop of the plug-in only what is in it is signed again, so that
its seal is broken when the run is done.  This came out of the proof of `SealsHold`, which
does not go through without the exception `Excused` makes of it, and TLC confirms it when
`calabash.dylib` may be anywhere; the injected one is at the root of the app, where no such
thing can happen, and the run has it there.  In a signed app an unsigned object is never
resigned.
`shouldResign:` compares a team with "not set" (285), which its expression never
matches, having no lower case.  A run with another profile after one that stopped half
way leaves objects of the first team alone (`mixed`).

## ShellRunner

State: the child (what it has to write, its status, whether it heeds SIGTERM), a
`helper` that has inherited the pipes, the two pipes with a capacity, the clock, and the
runner with its `ShellResult`.  Output is counted in pieces.  The poll, the clock and the
status are read one after the other; stdout is read to its end before stderr.

| run | instance | shows |
|---|---|---|
| `MCShellRunner.cfg` | pipes of 1 piece, up to 2 pieces of output each | `TypeOK`, `SuccessIsTrue`, `NothingDropped`, `RunnerReturns` |

A pipe smaller than the output is all that matters: the child blocks.

Fairness: weak, on the runner, on the death of a child that was sent SIGTERM and heeds
it, and on the clock.  A command and its helper owe nothing: `RunnerReturns` assumes
that the child heeds SIGTERM and that a helper does not hold the pipes for ever, and
both assumptions are needed, as there is no SIGKILL and no bound on the reading.

An observation: "NSTask will only capture the first 65535 bytes" (`ShellResult.m` 32) is
not what happens.  A child with more output blocks until the timeout ends it, and is
reported as timed out; what it wrote is not cut (`NothingDropped`).

## Proofs

Each module has its own; none assumes more than the `ASSUME` of the module it is about.

`SimulatorProofs`, from `LifecycleAssumption` (there are simulators and processes, and none
is called `Nobody`) and `AppsAssumption` (`None` is no version), for any numbers of
processes, simulators, versions and instances of Simulator.app.  Of the life cycle alone:

- `TypeCorrect`: `Spec => []TypeOK`.
- `FreshRequests`: `Spec => []RequestsAreFresh`.  Not inductive alone: what holds where
  a request is made must hold at the places that lead there.  `IInv` adds to `TypeOK`
  what each `pc` knows (`Seen`: a process at `bootYES` has its simulator Booted or
  disturbed, and so on), that a process works on the simulator its command names
  wherever that matters (`OnTarget`), and that `killSimulatorApp` has every simulator
  it no longer has to visit Shutdown or disturbed (`Swept`).  `MoveKeepsOthers` is the
  heart of it: a move by one process either is not of a simulator another knows
  about, or disturbs that other.
- `AnswersAreTrue`: the action property `AnswersHold`, by `IInv` before the step.

With the commands on apps:

- `AppsTypes`, by `TypeInv`: `ControlTypes`, `AppTypes` and `LifeTypes`, and `Flow`, which
  says which command is at which place on behalf of which caller; without it the
  procedures of the life cycle could return to anybody.
- `SimulatorImplements`: `AppsSpec => ImplementsDevice`.  Every step has one of two shapes, a
  process moves on (`Moves`) or ends (`Ends`); `MovesGood` and `EndsGood` say once what
  each needs to be a step of `DeviceApps`, and the lemma of each action names the shape.
- `AppAnswersAreTrue`: `AppsSpec => AppAnswersHold`.  The answer comes after the deed, so
  what the deed achieved must last until then.  `Stands` has it of every process that is
  served, unless another has interfered, and of an uninstallation about to answer that
  its last listing had no such app, or failed.  It is inductive because a process does not touch
  the app once it is served (`ServedStays`, `OwnStands`), one that changes it says so to all
  others on that simulator (`OthersStand`), and uninstall answers after a look
  (`UninstallAnswers`).
- `AppsFreshRequests` and `AppsAnswersAreTrue`: the first two results are still so when
  install and uninstall call `boot`, `shutdown` and `killSimulatorApp`, and act beside the
  life-cycle commands of other processes.  The lemmas on single steps serve both: a step
  is one of the life cycle, by the same caller as before, or enters it at the first line of
  a procedure or leaves it (`StepIs`).  What is weaker is `Swept`: the `shutdown` of the
  reboot in `uninstallApp:` is outside the loop and has swept nothing, so `AppRelies` claims
  it of every stage but `rebootDown`, and `Flow` says that no life-cycle command is there.

`PhysicalDeviceAppsProofs`, from `PhysicalAssumption` (`None`, `Unsigned` and `Broken` are no
profiles), for any devices, processes, versions and profiles: `PhysicalTypes`;
`PhysicalSeals`, from what each place between signing and installing knows of the seal and
of the profiles on the device; `PhysicalStops`, the same of the app's process;
`PhysicalImplements`, as above.

`DataContainersProofs`, from `DataAssumption` (containers, bundles and download paths are
distinct and there are some of each; `None` and `Absent` are no contents; no process is
called `app`), for any
numbers of processes, containers, bundles and files:

- `TypeCorrect`, by `TypeInv`, which adds that the index is in range where it is used.
- `DataAnswersAreTrue` and `UploadNeverOverwrites`, two action properties, by `Known`: what
  each place has achieved so far (`Generating`: the first directories of the skeleton are
  blank and the others absent; `Uploading`: the first directories of the container are
  those of the bundle), claimed only of a process that is `Clean`; which command each
  place belongs to (`Placed`); and that nothing is in a directory that is not there
  (`Nowhere`).  The argument is in two halves: every step changes one tree at most and
  tells whoever works on it (`Effect`, `OthersKeepKnowing`), and every step of a process's own
  takes what it knows to what it knows next (`GenerateKnows`, `UploadKnows`).
- `LeftoversAreTold`: `Spec => []LeftoverIsReported`.  It speaks of the end only; `LeftInv`
  says who accounts for the shared bundle while it is there: a clear-app-data between
  its generation and `@finally` (`Minding`), one that has warned, or one that was cut short.

`DeviceContainersProofs`, from `DeviceDataAssumption` (there are bundles, files and values,
`None` and `Absent` are none of them): `DeviceDataTypes`, `UploadChangesOneFile` and
`DeviceUploadNeverOverwrites`, from what the temporary bundle is at each place compared
with a container that nobody has touched.

`ProfileRankingProofs`, from `RankingAssumption` (`MaxScore \in Nat`) and the distinctness
of `Nil` and `Raised`, for any set of profiles, also an infinite one:

- `TypeCorrect` and `InsertionNeverRaises` by one induction (`TypeInv`): bounds stay within
  the array because it only grows.
- `NothingIsLost`, on top of it.
- `SortedWithoutRaces`: `Bracketed` says that, without a race, what is left of `lo` is not
  greater and what is right of `hi` not less than the profile being placed.
- `ChosenSuits` and `PickedIdentityServes`: `Progress` and `PickedBest` relate the identity's
  rank to the profiles not yet judged, in the array or skipped, and to the profile it was
  picked for.

`EntitlementRankProofs`, from `RankAssumption` (the keys are finitely many, values have a type
and strings): `RankTypes`, and `ExactFirst`, for which the invariant compares the sum with
the number of keys done: each adds at least 1, and exactly 1 only if it agrees.
`OrderOfKeysIsIrrelevant`: `Spec => []RankIsOfNoOrder`.  The rank so far is the sum over the
keys compared (`Tallied`), for whichever function sums up the scores of subsets by taking
out one element at a time (`Sums`).  That there is one, that the fold of the community
modules is one (`FoldIsSum`) and that it makes no difference which element goes first
(`SumsTakeAny`) are inductions over the size of a set.  The library's induction theorems
cannot be used for that, as they take an operator; `SetInduction` does without, by a set
of numbers that would lack a least one (`WFMin`).

`ResignBundleProofs`, from `ResignAssumption` (the app is no item, plug-ins are not objects,
resources are objects, `calabash.dylib` is no plug-in, `None` is no team and no profile, and
so on), for any items, teams, profiles and numbers of runs and misjudgements:

- `ResignTypes`: `Spec => []TypeOK`, by `Types` and `Calls` below.
- `SealsKept`: `Spec => []SealsHold`.  The property speaks of the end of a run; in between
  seals are broken, and the invariant must say who will mend them.  `Calls` has the
  shape of the stack: each call is for a plug-in within its caller's, made from the
  loop over plug-ins (`Chain`), and what is still to be looked at includes, with an item,
  all that is around it (`Listing`), because paths are walked contents first.
  `Repaired`: what has been signed is sealed, excused, or waits for a call on the stack
  (`Waits`), and all signed around the bundle of a call waits for a call further out.
  It is inductive only with what the decisions rest on, as an inner call asks
  `shouldResign:` anew: what it finds signed in this run has the team of the run
  (`SignedSoFar`), and what it does not sign had another team than its plug-in (`Judged`),
  as the call for the app has decided on it before.
- `OneTeamKept`: `Spec => []OneTeamThroughout`.  Across runs, `Halfway`: as long as all
  unfinished runs were for one profile, what went with the app still has the app's
  team or has that of the profile already.

`ShellRunnerProofs`, from `ShellAssumption` (a pipe holds something): `RunnerTypes`,
`SuccessMeansSuccess` and `OutputIsKept`, which rests on the count of pieces: what is in a
pipe and what was read from it is what was written.

Only model-checked: liveness (`EveryCommandAnswers`, `ChoiceEnds`, `CommandsEnd`,
`RunnerReturns`), which is out of the prover's reach.  Every invariant and every action
property of the passing runs, and both refinements, are theorems.

## Plan

Done: the modules above, and a theorem for each safety property.  What is left, in this
order:

1. For each liveness property, the part of its argument that is about single steps: a
   measure that every step of a process lowers, as an action property with a proof.
2. `CommandLine` with device look-up: parsing as a pure function, against what the
   comments in `CLI.m` say.
3. `LogFiles`: creation, deletion and the link `current.log` by several processes.

## Not modelled

- Command line, device look-up and log files: as planned above.  `resign-all` around
  `ResignBundle` never allocates its array of profiles (`ResignAllCommand.m` 85), so that for
  a directory of profiles it signs nothing and answers `EverythingOkay`.
- Set-location and stop-simulating-location of a physical device are one request each;
  stop-simulating-location of a simulator answers `EverythingOkay` and does nothing (465-467).  clear-app-data on a
  device is upload-xcappdata of the shared bundle of `DataContainers`.
- Ad hoc signing for simulators is one call of `codesign --deep`, `resign-object` another.
- XCTest staging and JSON, plist and zip handling are data conversions and private
  files; console output is text; code vendored from other projects is external and
  appears as what CoreSimulator, a device, the disk or `codesign` answer.

`PROJECT.json` lists every component with its status and every hazard with the property
that covers it.
