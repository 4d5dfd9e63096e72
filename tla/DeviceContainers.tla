-------------------------- MODULE DeviceContainers --------------------------
(***************************************************************************)
(* Moving data in and out of the container of an app on a physical device: *)
(* upload, download-xcappdata and upload-xcappdata of PhysicalDevice.m, run*)
(* by several processes at once, with the DVT calls of FBLegacy.m.         *)
(*                                                                         *)
(* A device has no files to reach: a container is downloaded and uploaded  *)
(* whole.  To upload one file a process downloads the container to a       *)
(* temporary bundle of its own, changes that, and uploads it, over whatever*)
(* the app and other processes have written in between.  Before any of it  *)
(* FBLegacy waits, without a timeout, for the device to list its apps.     *)
(***************************************************************************)
EXTENDS Naturals

CONSTANTS Clients,   \* iOSDeviceManager processes
          Bundles,   \* paths of .xcappdata bundles
          Files,     \* file names
          Values,    \* contents of a file
          MaxActs,   \* bound on what the app writes by itself
          None,      \* no such file
          Absent     \* no bundle at a path

ASSUME DeviceDataAssumption ==
  /\ Bundles # {} /\ Files # {} /\ Values # {}
  /\ None \notin Values /\ Absent \notin [Files -> Values \cup {None}]
  /\ MaxActs \in Nat /\ "app" \notin Clients

Contents == [Files -> Values \cup {None}]

VARIABLES container,   \* what the app has in Documents
          bundle,      \* what is at each path
          attached,    \* the device is there
          acts,        \* of the app so far
          pc, cmd,     \* where each client is, and its command
          path,        \* the bundle it names
          file, value, \* what upload uploads
          overwrite,   \* --overwrite
          dvtDevice,   \* clients whose search has found the device
          listing,     \* clients that DVT device has listed the apps to
          temp,        \* the temporary bundle of each client
          result,      \* the exit code
          touched      \* history: another actor has changed the container
                       \* since the client last downloaded or uploaded it

world == <<container, bundle, attached, acts>>
args == <<cmd, path, file, value, overwrite>>
dvt == <<dvtDevice, listing>>
vars == <<world, pc, args, dvt, temp, result, touched>>

Init ==
  /\ container \in Contents
  /\ bundle \in [Bundles -> Contents \cup {Absent}]
  /\ attached = TRUE /\ acts = 0
  /\ pc = [c \in Clients |-> "idle"]
  /\ cmd = [c \in Clients |-> "none"]
  /\ path = [c \in Clients |-> CHOOSE b \in Bundles : TRUE]
  /\ file = [c \in Clients |-> CHOOSE f \in Files : TRUE]
  /\ value = [c \in Clients |-> CHOOSE v \in Values : TRUE]
  /\ overwrite = [c \in Clients |-> FALSE]
  /\ dvtDevice = {} /\ listing = {}
  /\ temp = [c \in Clients |-> Absent]
  /\ result = [c \in Clients |-> "none"]
  /\ touched = [c \in Clients |-> FALSE]

-----------------------------------------------------------------------------
At(c, here) == pc[c] = here
Goto(c, there) == pc' = [pc EXCEPT ![c] = there] /\ UNCHANGED <<args, result>>
Exit(c, code) == /\ pc' = [pc EXCEPT ![c] = "done"]
                 /\ result' = [result EXCEPT ![c] = code]
                 /\ UNCHANGED args
Looks == UNCHANGED <<world, dvt, temp, touched>>

\* The actor knows the container, or has just written it.
Writes(actor, content) ==
  /\ container' = content
  /\ touched' = [c \in Clients |-> c # actor]

Begin(c, command) ==
  /\ At(c, "idle")
  /\ pc' = [pc EXCEPT ![c] = "ask"]
  /\ cmd' = [cmd EXCEPT ![c] = command]
  /\ \E b \in Bundles : path' = [path EXCEPT ![c] = b]
  /\ \/ /\ command = "uploadFile"
        /\ \E f \in Files : file' = [file EXCEPT ![c] = f]
        /\ \E v \in Values : value' = [value EXCEPT ![c] = v]
        /\ \E o \in BOOLEAN : overwrite' = [overwrite EXCEPT ![c] = o]
     \/ command # "uploadFile" /\ UNCHANGED <<file, value, overwrite>>
  /\ UNCHANGED <<world, dvt, temp, result, touched>>

\* isInstalled:withError: NO, too, when the device does not answer.
NotInstalled == [uploadFile |-> "False", download |-> "False", upload |-> "GenericFailure"]

Ask(c) ==
  /\ At(c, "ask") /\ Looks
  /\ \/ attached /\ Goto(c, "prepare")
     \/ Exit(c, NotInstalled[cmd[c]])

\* What comes before fetchApplications: the file is there and a temporary
\* directory can be made, the bundle is valid.
Prepare(c) ==
  /\ At(c, "prepare") /\ Looks
  /\ \/ /\ cmd[c] = "upload" => bundle[path[c]] # Absent
        /\ Goto(c, "search")
     \/ /\ cmd[c] = "upload" /\ bundle[path[c]] = Absent
        /\ Exit(c, "GenericFailure")
     \/ /\ cmd[c] = "uploadFile"
        /\ \E code \in {"InvalidArguments", "GenericFailure"} : Exit(c, code)

-----------------------------------------------------------------------------
(***************************************************************************)
(* fetchApplications:                                                      *)
(***************************************************************************)
\* The search ends after two seconds, with what it has found.
Search(c) ==
  /\ At(c, "search") /\ Goto(c, "fetch")
  /\ \/ attached /\ dvtDevice' = dvtDevice \cup {c}
     \/ dvtDevice' = dvtDevice \ {c}
  /\ UNCHANGED <<world, listing, temp, touched>>

\* await: of installedApplications, however it ends.
Fetch(c) == At(c, "fetch") /\ Goto(c, "poll") /\ Looks

\* The device lists its apps to the DVT device, asked from here or beside the
\* await; nobody looks whether that failed.
Lists(c) ==
  /\ pc[c] \in {"fetch", "poll"} /\ attached /\ c \in dvtDevice \ listing
  /\ listing' = listing \cup {c}
  /\ UNCHANGED <<world, pc, args, dvtDevice, temp, result, touched>>

\* while (!self.dvtDevice.applications)
Listed(c) ==
  /\ At(c, "poll") /\ c \in listing
  /\ Goto(c, IF cmd[c] = "upload" THEN "upload" ELSE "download")
  /\ Looks

-----------------------------------------------------------------------------
(***************************************************************************)
(* downloadApplicationDataToPath:bundleID:error:                           *)
(***************************************************************************)
Kept(old, new) == {e \in Contents : \A f \in Files : e[f] \in {old[f], new[f], None}}

DownloadNothing(c) == \* variant: the temporary bundle begins empty
  /\ At(c, "download") /\ cmd[c] = "uploadFile"
  /\ attached /\ temp' = [temp EXCEPT ![c] = [f \in Files |-> None]]
  /\ touched' = [touched EXCEPT ![c] = FALSE] /\ Goto(c, "look")
  /\ UNCHANGED <<world, dvt>>

DownloadAgain(c) == \* variant: a download that fails is tried again from the start
  /\ At(c, "download") /\ cmd[c] = "uploadFile"
  /\ \/ /\ attached /\ temp' = [temp EXCEPT ![c] = container]
        /\ touched' = [touched EXCEPT ![c] = FALSE] /\ Goto(c, "look")
     \/ Goto(c, "search") /\ UNCHANGED <<temp, touched>>
  /\ UNCHANGED <<world, dvt>>

\* To the temporary bundle; what is there when it fails is never looked at.
Download(c) ==
  /\ At(c, "download") /\ cmd[c] = "uploadFile"
  /\ \/ /\ attached /\ temp' = [temp EXCEPT ![c] = container]
        /\ touched' = [touched EXCEPT ![c] = FALSE] /\ Goto(c, "look")
     \/ Exit(c, "InternalError") /\ UNCHANGED <<temp, touched>>
  /\ UNCHANGED <<world, dvt>>

\* The command does not look at what is returned.
DownloadBundle(c) ==
  /\ At(c, "download") /\ cmd[c] = "download"
  /\ \/ /\ attached /\ bundle' = [bundle EXCEPT ![path[c]] = container]
        /\ touched' = [touched EXCEPT ![c] = FALSE]
     \/ /\ \E part \in {bundle[path[c]], Absent} \cup Kept(container, container) :
             bundle' = [bundle EXCEPT ![path[c]] = part]
        /\ UNCHANGED touched
  /\ Exit(c, "EverythingOkay")
  /\ UNCHANGED <<container, attached, acts, dvt, temp>>

-----------------------------------------------------------------------------
(***************************************************************************)
(* uploadFile:forApplication:overwrite: in the temporary bundle.           *)
(***************************************************************************)
LookAway(c) == \* variant: what is there is removed unasked
  /\ At(c, "look") /\ Looks
  /\ Goto(c, IF temp[c][file[c]] = None THEN "copy" ELSE "remove")

Look(c) ==
  /\ At(c, "look") /\ Looks
  /\ \/ temp[c][file[c]] = None /\ Goto(c, "copy")
     \/ temp[c][file[c]] # None /\ overwrite[c] /\ Goto(c, "remove")
     \/ temp[c][file[c]] # None /\ ~overwrite[c] /\ Exit(c, "GenericFailure")

Remove(c) ==
  /\ At(c, "remove")
  /\ \/ /\ temp' = [temp EXCEPT ![c][file[c]] = None] /\ Goto(c, "copy")
        /\ UNCHANGED <<world, dvt, touched>>
     \/ Exit(c, "GenericFailure") /\ Looks

Copy(c) ==
  /\ At(c, "copy")
  /\ \/ /\ temp' = [temp EXCEPT ![c][file[c]] = value[c]] /\ Goto(c, "upload")
        /\ UNCHANGED <<world, dvt, touched>>
     \/ Exit(c, "GenericFailure") /\ Looks

\* uploadApplicationDataAtPath:bundleID:error: replaces the container, or
\* stops in the middle; a bundle may be gone by now.
Sent(c) == IF cmd[c] = "upload" THEN bundle[path[c]] ELSE temp[c]

UploadAnything(c) == \* variant: a bundle that is gone is sent all the same
  /\ At(c, "upload") /\ attached /\ Writes(c, Sent(c))
  /\ IF cmd[c] = "upload" THEN Exit(c, "EverythingOkay") ELSE Goto(c, "tidy")
  /\ UNCHANGED <<bundle, attached, acts, dvt, temp>>

Upload(c) ==
  /\ At(c, "upload")
  /\ \/ /\ attached /\ Sent(c) # Absent /\ Writes(c, Sent(c))
        /\ IF cmd[c] = "upload" THEN Exit(c, "EverythingOkay") ELSE Goto(c, "tidy")
     \/ /\ \E part \in IF attached /\ Sent(c) # Absent
                       THEN Kept(container, Sent(c)) ELSE {container} :
             Writes(c, part)
        /\ Exit(c, "InternalError")
  /\ UNCHANGED <<bundle, attached, acts, dvt, temp>>

\* The bundle's Documents are removed, or that fails with a message.
Tidy(c) ==
  /\ At(c, "tidy") /\ Exit(c, "EverythingOkay")
  /\ \E left \in {[f \in Files |-> None], temp[c]} : temp' = [temp EXCEPT ![c] = left]
  /\ UNCHANGED <<world, dvt, touched>>

Step(c) == \/ Ask(c) \/ Prepare(c) \/ Search(c) \/ Fetch(c) \/ Listed(c)
           \/ Download(c) \/ DownloadBundle(c)
           \/ Look(c) \/ Remove(c) \/ Copy(c) \/ Upload(c) \/ Tidy(c)

-----------------------------------------------------------------------------
\* The app writes a file of its own.
AppWrites(f) ==
  /\ acts < MaxActs /\ acts' = acts + 1
  /\ \E v \in Values \cup {None} : Writes("app", [container EXCEPT ![f] = v])
  /\ UNCHANGED <<bundle, attached, pc, args, dvt, temp, result>>

\* The cable is pulled and plugged in.
Plug ==
  /\ attached' = ~attached
  /\ UNCHANGED <<container, bundle, acts, pc, args, dvt, temp, result, touched>>

Next == \/ \E c \in Clients :
             (\E command \in {"uploadFile", "download", "upload"} : Begin(c, command))
             \/ Step(c) \/ Lists(c)
        \/ \E f \in Files : AppWrites(f)
        \/ Plug

\* Where a client waits for the device, with no timeout: await: of what the device
\* has installed, and the transfers of DVT.
Awaits == {"ask", "fetch", "download", "upload"}

\* A running process is scheduled; the device, the app and the user owe nothing.
Fairness == \A c \in Clients : WF_vars(pc[c] \notin Awaits /\ Step(c))

Spec == Init /\ [][Next]_vars /\ Fairness
-----------------------------------------------------------------------------
\* The values the variables range over; what is on its way to the device is a
\* whole bundle.
TypeOK ==
  /\ container \in Contents /\ bundle \in [Bundles -> Contents \cup {Absent}]
  /\ attached \in BOOLEAN /\ acts \in 0..MaxActs
  /\ pc \in [Clients -> {"idle", "ask", "prepare", "search", "fetch", "poll", "download",
                         "look", "remove", "copy", "upload", "tidy", "done"}]
  /\ cmd \in [Clients -> {"none", "uploadFile", "download", "upload"}]
  /\ path \in [Clients -> Bundles] /\ file \in [Clients -> Files]
  /\ value \in [Clients -> Values] /\ overwrite \in [Clients -> BOOLEAN]
  /\ dvtDevice \subseteq Clients /\ listing \subseteq Clients
  /\ temp \in [Clients -> Contents \cup {Absent}]
  /\ result \in [Clients -> {"none", "EverythingOkay", "GenericFailure", "False",
                             "InternalError", "InvalidArguments"}]
  /\ touched \in [Clients -> BOOLEAN]

\* The container has been replaced by upload, and nobody else has changed it since
\* the download.
Replaced(c) == Upload(c) /\ pc'[c] = "tidy" /\ ~touched[c]

\* upload sends the whole container back and yet changes one file of it, to the
\* contents asked for, and leaves every other as it was on the device, as long
\* as neither the app nor another process has written there since the download.
UploadsOneFile ==
  [][\A c \in Clients :
       Replaced(c) => container' = [container EXCEPT ![file[c]] = value[c]]]_vars

\* "Specify `-o true` to overwrite": without it a file that is there stays as it is,
\* through the download, the copy and the upload, of whatever is in the way.
OverwritesOnlyWhenAsked ==
  [][\A c \in Clients :
       Replaced(c) /\ ~overwrite[c] => container[file[c]] = None]_vars

\* The client is left waiting: for the device, or for a list of apps that never comes.
Hangs(c) == pc[c] \in Awaits \/ (At(c, "poll") /\ c \notin listing)

\* Every command comes to an end, unless it is left for ever in a call without a
\* timeout or in the poll for a list that the device does not give it (FBLegacy.m,
\* 251): nothing that fails is tried again for ever, and no other step waits.
CommandsEnd ==
  \A c \in Clients : ((pc[c] = "ask") ~> (pc[c] = "done")) \/ <>[]Hangs(c)
=============================================================================
