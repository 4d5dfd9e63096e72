----------------------- MODULE DeviceContainersProofs -----------------------
(***************************************************************************)
(* What upload does to a container on a physical device, for any number of *)
(* processes, bundles, files and contents.                                 *)
(*                                                                         *)
(* Between the download and the upload the temporary bundle is the         *)
(* container of the device but for the one file, unless the app or another *)
(* process has written there meanwhile: Holds says how far each client is  *)
(* on that way.                                                            *)
(***************************************************************************)
EXTENDS DeviceContainers, TLAPS

WorldOK == /\ container \in Contents /\ bundle \in [Bundles -> Contents \cup {Absent}]
           /\ attached \in BOOLEAN /\ acts \in 0..MaxActs

Steps == {"idle", "ask", "prepare", "search", "fetch", "poll", "download",
          "look", "remove", "copy", "upload", "tidy", "done"}
ExitCodes == {"none", "EverythingOkay", "GenericFailure", "False",
              "InternalError", "InvalidArguments"}
Commands == {"none", "uploadFile", "download", "upload"}

ControlOK == pc \in [Clients -> Steps] /\ result \in [Clients -> ExitCodes]

ArgsOK == /\ cmd \in [Clients -> Commands] /\ path \in [Clients -> Bundles]
          /\ file \in [Clients -> Files] /\ value \in [Clients -> Values]
          /\ overwrite \in [Clients -> BOOLEAN]

CopiesOK == /\ dvtDevice \subseteq Clients /\ listing \subseteq Clients
            /\ temp \in [Clients -> Contents \cup {Absent}]
            /\ touched \in [Clients -> BOOLEAN]

Typed == WorldOK /\ ControlOK /\ ArgsOK /\ CopiesOK

Sending(c) == pc[c] = "upload" /\ cmd[c] = "uploadFile"

Bound(c) == /\ pc[c] = "ask" => cmd[c] # "none"
            /\ pc[c] \in {"look", "remove", "copy"} => cmd[c] = "uploadFile"
            /\ pc[c] = "upload" => cmd[c] \in {"uploadFile", "upload"}
            /\ pc[c] \in {"look", "remove", "copy"} \/ Sending(c) => temp[c] \in Contents

Faithful(c) ==
  /\ pc[c] = "look" => temp[c] = container
  /\ pc[c] = "remove" => temp[c] = container /\ overwrite[c]
  /\ pc[c] = "copy" => temp[c] = [container EXCEPT ![file[c]] = None]
  /\ Sending(c) => temp[c] = [container EXCEPT ![file[c]] = value[c]]
  /\ pc[c] = "copy" \/ Sending(c) => overwrite[c] \/ container[file[c]] = None

Holds(c) == Bound(c) /\ (touched[c] \/ Faithful(c))

Inv == Typed /\ \A c \in Clients : Holds(c)

-----------------------------------------------------------------------------
\* A client whose own variables do not move keeps what it holds, if nobody
\* writes to the container or it takes note of that.
Unmoved(d) ==
  /\ pc'[d] = pc[d] /\ cmd'[d] = cmd[d] /\ file'[d] = file[d] /\ value'[d] = value[d]
  /\ overwrite'[d] = overwrite[d] /\ temp'[d] = temp[d]
  /\ \/ container' = container /\ touched'[d] = touched[d]
     \/ touched'[d]

LEMMA HoldsOn ==
  ASSUME NEW d \in Clients, Holds(d), Unmoved(d)
  PROVE  Holds(d)'
<1>1. Bound(d)' BY DEF Holds, Unmoved, Bound, Sending
<1>2. touched'[d] \/ Faithful(d)' BY DEF Holds, Unmoved, Faithful, Sending
<1> QED BY <1>1, <1>2 DEF Holds

\* Nothing is held at the other places.
Elsewhere(c) == pc'[c] \notin {"ask", "look", "remove", "copy", "upload"}

LEMMA NothingHeld == ASSUME NEW c \in Clients, Elsewhere(c) PROVE Holds(c)'
BY DEF Elsewhere, Holds, Bound, Faithful, Sending

\* Writing one file to a container that is of the right kind.
LEMMA PutTyped ==
  ASSUME NEW e \in Contents, NEW f \in Files, NEW v \in Values \cup {None}
  PROVE  [e EXCEPT ![f] = v] \in Contents
BY DEF Contents

LEMMA GotoTyped ==
  ASSUME ControlOK, ArgsOK, NEW c \in Clients, NEW there \in Steps, Goto(c, there)
  PROVE  ControlOK' /\ ArgsOK' /\ pc'[c] = there
BY DEF ControlOK, ArgsOK, Goto, args

LEMMA ExitTyped ==
  ASSUME ControlOK, ArgsOK, NEW c \in Clients, NEW code \in ExitCodes, Exit(c, code)
  PROVE  ControlOK' /\ ArgsOK' /\ Elsewhere(c)
BY DEF ControlOK, ArgsOK, Exit, args, Elsewhere, Steps

LEMMA LooksTyped == ASSUME WorldOK, CopiesOK, Looks PROVE WorldOK' /\ CopiesOK'
BY DEF WorldOK, CopiesOK, Looks, world, dvt

\* The arguments and the place of the others are untouched by Goto and Exit.
LEMMA OthersStay ==
  ASSUME ControlOK, NEW c \in Clients, NEW d \in Clients, d # c,
         \/ \E there : Goto(c, there)
         \/ \E code : Exit(c, code)
  PROVE  /\ pc'[d] = pc[d] /\ cmd'[d] = cmd[d] /\ file'[d] = file[d]
         /\ value'[d] = value[d] /\ overwrite'[d] = overwrite[d]
BY DEF ControlOK, Goto, Exit, args

LEMMA OwnArgs ==
  ASSUME NEW c \in Clients,
         \/ \E there : Goto(c, there)
         \/ \E code : Exit(c, code)
  PROVE  UNCHANGED args
BY DEF Goto, Exit
-----------------------------------------------------------------------------
LEMMA InitHolds == Init => Inv
<1> SUFFICES ASSUME Init PROVE Inv OBVIOUS
<1>1. WorldOK BY DeviceDataAssumption DEF Init, WorldOK
<1>2. ControlOK BY DEF Init, ControlOK, Steps, ExitCodes
<1>3. ArgsOK
  <2>1. (CHOOSE b \in Bundles : TRUE) \in Bundles BY DeviceDataAssumption
  <2>2. (CHOOSE f \in Files : TRUE) \in Files BY DeviceDataAssumption
  <2>3. (CHOOSE v \in Values : TRUE) \in Values BY DeviceDataAssumption
  <2> QED BY <2>1, <2>2, <2>3 DEF Init, ArgsOK, Commands
<1>4. CopiesOK BY DEF Init, CopiesOK
<1>5. ASSUME NEW c \in Clients PROVE Holds(c)
  BY DEF Init, Holds, Bound, Faithful, Sending
<1> QED BY <1>1, <1>2, <1>3, <1>4, <1>5 DEF Inv, Typed

\* A step that only looks and goes where nothing is held.
LEMMA LookingKeeps ==
  ASSUME Inv, NEW c \in Clients, Looks,
         \/ \E there \in Steps \ {"ask", "look", "remove", "copy", "upload"} : Goto(c, there)
         \/ \E code \in ExitCodes : Exit(c, code)
  PROVE  Inv'
<1> USE DEF Inv, Typed
<1>1. ControlOK' /\ ArgsOK' /\ Elsewhere(c)
  BY GotoTyped, ExitTyped DEF Elsewhere
<1>2. WorldOK' /\ CopiesOK' BY LooksTyped
<1>3. ASSUME NEW d \in Clients PROVE Holds(d)'
  <2>1. CASE d = c BY <1>1, <2>1, NothingHeld
  <2>2. CASE d # c
    <3>1. Unmoved(d) BY <2>2, OthersStay DEF Unmoved, Looks, world
    <3> QED BY <3>1, HoldsOn
  <2> QED BY <2>1, <2>2
<1> QED BY <1>1, <1>2, <1>3

LEMMA BeginKeeps ==
  ASSUME Inv, NEW c \in Clients, NEW command \in {"uploadFile", "download", "upload"},
         Begin(c, command)
  PROVE  Inv'
<1> USE DEF Inv, Typed
<1>1. WorldOK' /\ CopiesOK' BY DEF Begin, WorldOK, CopiesOK, dvt, world
<1>2. ControlOK' /\ pc'[c] = "ask" BY DEF Begin, ControlOK, Steps
<1>3. ArgsOK' /\ cmd'[c] # "none"
  <2>1. /\ cmd' \in [Clients -> Commands] /\ path' \in [Clients -> Bundles]
        /\ cmd'[c] # "none"
    BY DEF Begin, ArgsOK, Commands
  <2>2. /\ file' \in [Clients -> Files] /\ value' \in [Clients -> Values]
        /\ overwrite' \in [Clients -> BOOLEAN]
    BY DEF Begin, ArgsOK
  <2> QED BY <2>1, <2>2 DEF ArgsOK
<1>4. ASSUME NEW d \in Clients PROVE Holds(d)'
  <2>1. CASE d = c
    BY <1>2, <1>3, <2>1 DEF Holds, Bound, Faithful, Sending
  <2>2. CASE d # c
    <3>1. /\ pc'[d] = pc[d] /\ cmd'[d] = cmd[d] /\ file'[d] = file[d]
          /\ value'[d] = value[d] /\ overwrite'[d] = overwrite[d]
      BY <2>2 DEF Begin, ControlOK, ArgsOK
    <3>2. Unmoved(d) BY <3>1 DEF Begin, Unmoved, world
    <3> QED BY <3>2, HoldsOn
  <2> QED BY <2>1, <2>2
<1> QED BY <1>1, <1>2, <1>3, <1>4

LEMMA AskKeeps == ASSUME Inv, NEW c \in Clients, Ask(c) PROVE Inv'
<1>1. CASE Goto(c, "prepare") BY <1>1, LookingKeeps DEF Ask, Steps
<1>2. CASE Exit(c, NotInstalled[cmd[c]])
  <2>1. cmd[c] \in {"uploadFile", "download", "upload"}
    BY DEF Ask, At, Inv, Typed, ArgsOK, Commands, Holds, Bound
  <2>2. NotInstalled[cmd[c]] \in ExitCodes BY <2>1 DEF NotInstalled, ExitCodes
  <2> QED BY <1>2, <2>2, LookingKeeps DEF Ask
<1> QED BY <1>1, <1>2 DEF Ask

LEMMA PrepareKeeps == ASSUME Inv, NEW c \in Clients, Prepare(c) PROVE Inv'
BY LookingKeeps DEF Prepare, Steps, ExitCodes

\* A step of c that leaves the container alone, as the others see it.
LEMMA OthersHold ==
  ASSUME Inv, NEW c \in Clients,
         \/ \E there : Goto(c, there)
         \/ \E code : Exit(c, code),
         \A d \in Clients \ {c} :
            /\ temp'[d] = temp[d]
            /\ \/ container' = container /\ touched'[d] = touched[d]
               \/ touched'[d]
  PROVE  \A d \in Clients \ {c} : Holds(d)'
<1> SUFFICES ASSUME NEW d \in Clients \ {c} PROVE Holds(d)' OBVIOUS
<1>1. Unmoved(d) BY OthersStay DEF Unmoved, Inv, Typed
<1> QED BY <1>1, HoldsOn DEF Inv

LEMMA SearchKeeps == ASSUME Inv, NEW c \in Clients, Search(c) PROVE Inv'
<1> USE DEF Inv, Typed
<1>1. ControlOK' /\ ArgsOK' /\ Elsewhere(c) BY GotoTyped DEF Search, Elsewhere, Steps
<1>2. WorldOK' /\ CopiesOK' BY DEF Search, WorldOK, CopiesOK, world
<1>3. \A d \in Clients \ {c} : Holds(d)' BY OthersHold DEF Search, world
<1> QED BY <1>1, <1>2, <1>3, NothingHeld

LEMMA FetchKeeps == ASSUME Inv, NEW c \in Clients, Fetch(c) PROVE Inv'
BY LookingKeeps DEF Fetch, Steps

LEMMA ListsKeeps == ASSUME Inv, NEW c \in Clients, Lists(c) PROVE Inv'
<1> USE DEF Inv, Typed
<1>1. WorldOK' /\ ControlOK' /\ ArgsOK' /\ CopiesOK'
  BY DEF Lists, WorldOK, ControlOK, ArgsOK, CopiesOK, world, args
<1>2. ASSUME NEW d \in Clients PROVE Holds(d)'
  <2>1. Unmoved(d) BY DEF Lists, Unmoved, world, args
  <2> QED BY <2>1, HoldsOn
<1> QED BY <1>1, <1>2

LEMMA ListedKeeps == ASSUME Inv, NEW c \in Clients, Listed(c) PROVE Inv'
<1> USE DEF Inv, Typed
<1>1. CASE cmd[c] = "upload"
  <2>1. Goto(c, "upload") BY <1>1 DEF Listed
  <2>2. ControlOK' /\ ArgsOK' /\ pc'[c] = "upload" BY <2>1, GotoTyped DEF Steps
  <2>3. WorldOK' /\ CopiesOK' BY LooksTyped DEF Listed
  <2>4. cmd'[c] = "upload" BY <1>1, <2>1, OwnArgs DEF args
  <2>5. Holds(c)' BY <2>2, <2>4 DEF Holds, Bound, Faithful, Sending
  <2>6. \A d \in Clients \ {c} : Holds(d)' BY <2>1, OthersHold DEF Listed, Looks, world
  <2> QED BY <2>2, <2>3, <2>5, <2>6
<1>2. CASE cmd[c] # "upload"
  BY <1>2, LookingKeeps DEF Listed, Steps
<1> QED BY <1>1, <1>2

LEMMA DownloadKeeps == ASSUME Inv, NEW c \in Clients, Download(c) PROVE Inv'
<1> USE DEF Inv, Typed
<1>1. CASE Exit(c, "InternalError") /\ UNCHANGED <<temp, touched>>
  BY <1>1, LookingKeeps DEF Download, Looks, ExitCodes
<1>2. CASE /\ temp' = [temp EXCEPT ![c] = container]
           /\ touched' = [touched EXCEPT ![c] = FALSE] /\ Goto(c, "look")
  <2>1. ControlOK' /\ ArgsOK' /\ pc'[c] = "look" BY <1>2, GotoTyped DEF Steps
  <2>2. WorldOK' /\ CopiesOK' /\ temp'[c] = container /\ container' = container
    BY <1>2 DEF Download, WorldOK, CopiesOK, dvt, world
  <2>3. cmd'[c] = "uploadFile" BY <1>2, OwnArgs DEF Download, args
  <2>4. Holds(c)' BY <2>1, <2>2, <2>3 DEF Holds, Bound, Faithful, Sending, WorldOK
  <2>5. \A d \in Clients \ {c} : Holds(d)'
    <3>1. \A d \in Clients \ {c} : temp'[d] = temp[d] /\ touched'[d] = touched[d]
      BY <1>2 DEF CopiesOK
    <3> QED BY <1>2, <2>2, <3>1, OthersHold
  <2> QED BY <2>1, <2>2, <2>4, <2>5
<1> QED BY <1>1, <1>2 DEF Download

LEMMA DownloadBundleKeeps == ASSUME Inv, NEW c \in Clients, DownloadBundle(c) PROVE Inv'
<1> USE DEF Inv, Typed
<1>1. ControlOK' /\ ArgsOK' /\ Elsewhere(c) BY ExitTyped DEF DownloadBundle, ExitCodes
<1>2. WorldOK'
  <2>1. path[c] \in Bundles BY DEF ArgsOK
  <2>2. Kept(container, container) \subseteq Contents BY DEF Kept
  <2>3. bundle[path[c]] \in Contents \cup {Absent} BY <2>1 DEF WorldOK
  <2>4. \E new \in Contents \cup {Absent} : bundle' = [bundle EXCEPT ![path[c]] = new]
    BY <2>2, <2>3 DEF DownloadBundle, WorldOK
  <2> QED BY <2>4 DEF DownloadBundle, WorldOK
<1>3. CopiesOK' BY DEF DownloadBundle, CopiesOK, dvt
<1>4. \A d \in Clients \ {c} : Holds(d)'
  <2>1. \A d \in Clients \ {c} : touched'[d] = touched[d] BY DEF DownloadBundle, CopiesOK
  <2> QED BY <2>1, OthersHold DEF DownloadBundle
<1> QED BY <1>1, <1>2, <1>3, <1>4, NothingHeld

\* A container without a file is the container with None put there.
LEMMA NoneThere ==
  ASSUME NEW e \in Contents, NEW f \in Files, e[f] = None
  PROVE  e = [e EXCEPT ![f] = None]
BY DEF Contents

\* Putting twice in one place is putting once.
LEMMA PutTwice ==
  ASSUME NEW e \in Contents, NEW f \in Files, NEW u, NEW v
  PROVE  [[e EXCEPT ![f] = u] EXCEPT ![f] = v] = [e EXCEPT ![f] = v]
BY DEF Contents

LEMMA LookKeeps == ASSUME Inv, NEW c \in Clients, Look(c) PROVE Inv'
<1> USE DEF Inv, Typed
<1>1. ASSUME NEW there \in {"copy", "remove"}, Goto(c, there),
             there = "copy" => temp[c][file[c]] = None,
             there = "remove" => overwrite[c]
      PROVE  Inv'
  <2>1. ControlOK' /\ ArgsOK' /\ pc'[c] = there BY <1>1, GotoTyped DEF Steps
  <2>2. WorldOK' /\ CopiesOK' BY LooksTyped DEF Look
  <2>3. UNCHANGED args BY <1>1, OwnArgs
  <2>4. UNCHANGED <<container, temp, touched>> BY DEF Look, Looks, world
  <2>5. file[c] \in Files /\ container \in Contents BY DEF ArgsOK, WorldOK
  <2>6. cmd[c] = "uploadFile" /\ temp[c] \in Contents BY DEF Holds, Bound, Look, At
  <2>7. Bound(c)' BY <2>1, <2>3, <2>4, <2>6 DEF Bound, Sending, args
  <2>8. ASSUME ~touched[c] PROVE Faithful(c)'
    <3>1. temp[c] = container BY <2>8 DEF Holds, Faithful, Look, At
    <3>2. there = "copy" => container = [container EXCEPT ![file[c]] = None]
                            /\ container[file[c]] = None
      BY <1>1, <2>5, <3>1, NoneThere
    <3> QED BY <1>1, <2>1, <2>3, <2>4, <3>1, <3>2 DEF Faithful, Sending, args
  <2>9. Holds(c)' BY <2>4, <2>7, <2>8 DEF Holds
  <2>10. \A d \in Clients \ {c} : Holds(d)' BY <1>1, <2>4, OthersHold
  <2> QED BY <2>1, <2>2, <2>9, <2>10
<1>2. CASE Exit(c, "GenericFailure") BY <1>2, LookingKeeps DEF Look, ExitCodes
<1> QED BY <1>1, <1>2 DEF Look

\* One file of the temporary bundle of c is changed.
LEMMA OneChanged ==
  ASSUME CopiesOK, ArgsOK, NEW c \in Clients, temp[c] \in Contents,
         NEW new \in Values \cup {None},
         temp' = [temp EXCEPT ![c][file[c]] = new],
         UNCHANGED <<world, dvt, touched>>
  PROVE  /\ CopiesOK'
         /\ temp'[c] = [temp[c] EXCEPT ![file[c]] = new] /\ temp'[c] \in Contents
         /\ \A d \in Clients \ {c} : temp'[d] = temp[d]
<1>1. [temp[c] EXCEPT ![file[c]] = new] \in Contents BY PutTyped DEF ArgsOK
<1> QED BY <1>1 DEF CopiesOK, dvt

LEMMA RemoveKeeps == ASSUME Inv, NEW c \in Clients, Remove(c) PROVE Inv'
<1> USE DEF Inv, Typed
<1>1. CASE /\ temp' = [temp EXCEPT ![c][file[c]] = None] /\ Goto(c, "copy")
           /\ UNCHANGED <<world, dvt, touched>>
  <2>1. ControlOK' /\ ArgsOK' /\ pc'[c] = "copy" BY <1>1, GotoTyped DEF Steps
  <2>2. cmd[c] = "uploadFile" /\ temp[c] \in Contents BY DEF Holds, Bound, Remove, At
  <2>3. /\ CopiesOK' /\ temp'[c] = [temp[c] EXCEPT ![file[c]] = None]
        /\ temp'[c] \in Contents /\ \A d \in Clients \ {c} : temp'[d] = temp[d]
    BY <1>1, <2>2, OneChanged
  <2>4. WorldOK' /\ container' = container /\ touched' = touched
    BY <1>1 DEF WorldOK, world
  <2>5. UNCHANGED args BY <1>1, OwnArgs
  <2>6. Bound(c)' BY <2>1, <2>2, <2>3, <2>5 DEF Bound, Sending, args
  <2>7. ASSUME ~touched[c] PROVE Faithful(c)'
    <3>1. temp[c] = container /\ overwrite[c]
      BY <2>7 DEF Holds, Faithful, Remove, At
    <3> QED BY <2>1, <2>3, <2>4, <2>5, <3>1 DEF Faithful, Sending, args
  <2>8. Holds(c)' BY <2>4, <2>6, <2>7 DEF Holds
  <2>9. \A d \in Clients \ {c} : Holds(d)' BY <1>1, <2>3, <2>4, OthersHold
  <2> QED BY <2>1, <2>3, <2>4, <2>8, <2>9
<1>2. CASE Exit(c, "GenericFailure") /\ Looks BY <1>2, LookingKeeps DEF ExitCodes
<1> QED BY <1>1, <1>2 DEF Remove

LEMMA CopyKeeps == ASSUME Inv, NEW c \in Clients, Copy(c) PROVE Inv'
<1> USE DEF Inv, Typed
<1>1. CASE /\ temp' = [temp EXCEPT ![c][file[c]] = value[c]] /\ Goto(c, "upload")
           /\ UNCHANGED <<world, dvt, touched>>
  <2>1. ControlOK' /\ ArgsOK' /\ pc'[c] = "upload" BY <1>1, GotoTyped DEF Steps
  <2>2. cmd[c] = "uploadFile" /\ temp[c] \in Contents BY DEF Holds, Bound, Copy, At
  <2>0. value[c] \in Values \cup {None} BY DEF ArgsOK
  <2>3. /\ CopiesOK' /\ temp'[c] = [temp[c] EXCEPT ![file[c]] = value[c]]
        /\ temp'[c] \in Contents /\ \A d \in Clients \ {c} : temp'[d] = temp[d]
    BY <1>1, <2>2, <2>0, OneChanged
  <2>4. WorldOK' /\ container' = container /\ touched' = touched
    BY <1>1 DEF WorldOK, world
  <2>5. UNCHANGED args BY <1>1, OwnArgs
  <2>6. Bound(c)' BY <2>1, <2>2, <2>3, <2>5 DEF Bound, Sending, args
  <2>7. ASSUME ~touched[c] PROVE Faithful(c)'
    <3>1. /\ temp[c] = [container EXCEPT ![file[c]] = None]
          /\ overwrite[c] \/ container[file[c]] = None
      BY <2>7 DEF Holds, Faithful, Copy, At
    <3>2. temp'[c] = [container EXCEPT ![file[c]] = value[c]]
      BY <2>3, <3>1, PutTwice DEF ArgsOK, WorldOK
    <3> QED BY <2>1, <2>4, <2>5, <3>1, <3>2 DEF Faithful, Sending, args
  <2>8. Holds(c)' BY <2>4, <2>6, <2>7 DEF Holds
  <2>9. \A d \in Clients \ {c} : Holds(d)' BY <1>1, <2>3, <2>4, OthersHold
  <2> QED BY <2>1, <2>3, <2>4, <2>8, <2>9
<1>2. CASE Exit(c, "GenericFailure") /\ Looks BY <1>2, LookingKeeps DEF ExitCodes
<1> QED BY <1>1, <1>2 DEF Copy

\* What is sent is a bundle, and so is what is left of a sending that fails.
LEMMA SentTyped ==
  ASSUME Typed, NEW c \in Clients, Sent(c) # Absent PROVE Sent(c) \in Contents
BY DEF Sent, Typed, WorldOK, ArgsOK, CopiesOK

LEMMA UploadKeeps == ASSUME Inv, NEW c \in Clients, Upload(c) PROVE Inv'
<1> USE DEF Inv, Typed
<1>1. \E new \in Contents : Writes(c, new)
  <2>1. Sent(c) # Absent => Sent(c) \in Contents BY SentTyped
  <2>2. container \in Contents BY DEF WorldOK
  <2>3. Kept(container, Sent(c)) \subseteq Contents BY DEF Kept
  <2> QED BY <2>1, <2>2, <2>3 DEF Upload
<1>2. WorldOK' /\ CopiesOK' BY <1>1 DEF Upload, WorldOK, CopiesOK, dvt, Writes
<1>3. ControlOK' /\ ArgsOK' /\ Elsewhere(c)
  BY GotoTyped, ExitTyped DEF Upload, Elsewhere, Steps, ExitCodes
<1>4. \A d \in Clients \ {c} : Holds(d)'
  <2>1. \A d \in Clients \ {c} : temp'[d] = temp[d] /\ touched'[d]
    BY <1>1 DEF Upload, Writes
  <2>2. (\E there : Goto(c, there)) \/ \E code : Exit(c, code) BY DEF Upload
  <2> QED BY <2>1, <2>2, OthersHold
<1> QED BY <1>2, <1>3, <1>4, NothingHeld

LEMMA TidyKeeps == ASSUME Inv, NEW c \in Clients, Tidy(c) PROVE Inv'
<1> USE DEF Inv, Typed
<1>1. WorldOK' /\ ControlOK' /\ ArgsOK' /\ Elsewhere(c)
  BY ExitTyped DEF Tidy, ExitCodes, WorldOK, world
<1>2. CopiesOK'
  <2>1. [f \in Files |-> None] \in Contents BY DEF Contents
  <2> QED BY <2>1 DEF Tidy, CopiesOK, dvt
<1>3. \A d \in Clients \ {c} : Holds(d)'
  <2>1. \A d \in Clients \ {c} : temp'[d] = temp[d] /\ touched'[d] = touched[d]
    BY DEF Tidy, CopiesOK
  <2> QED BY <2>1, OthersHold DEF Tidy, world
<1> QED BY <1>1, <1>2, <1>3, NothingHeld

LEMMA AppWritesKeeps == ASSUME Inv, NEW f \in Files, AppWrites(f) PROVE Inv'
<1> USE DEF Inv, Typed
<1>1. \E new \in Contents : Writes("app", new)
  <2>1. PICK v \in Values \cup {None} : Writes("app", [container EXCEPT ![f] = v])
    BY DEF AppWrites
  <2>2. [container EXCEPT ![f] = v] \in Contents BY PutTyped DEF WorldOK
  <2> QED BY <2>1, <2>2
<1>2. WorldOK'
  <2>1. container' \in Contents BY <1>1 DEF Writes
  <2>2. acts < MaxActs /\ acts' = acts + 1 /\ UNCHANGED <<bundle, attached>>
    BY DEF AppWrites
  <2>3. acts' \in 0..MaxActs BY <2>2, DeviceDataAssumption DEF WorldOK
  <2> QED BY <2>1, <2>2, <2>3 DEF WorldOK
<1>3. ControlOK' /\ ArgsOK' /\ CopiesOK'
  BY <1>1 DEF AppWrites, ControlOK, ArgsOK, CopiesOK, dvt, Writes, args
<1>4. ASSUME NEW d \in Clients PROVE Holds(d)'
  <2>1. touched'[d] BY <1>1, DeviceDataAssumption DEF Writes
  <2>2. Unmoved(d) BY <2>1 DEF AppWrites, Unmoved, args
  <2> QED BY <2>2, HoldsOn
<1> QED BY <1>2, <1>3, <1>4

LEMMA PlugKeeps == ASSUME Inv, Plug PROVE Inv'
<1> USE DEF Inv, Typed
<1>1. WorldOK' /\ ControlOK' /\ ArgsOK' /\ CopiesOK'
  BY DEF Plug, WorldOK, ControlOK, ArgsOK, CopiesOK, dvt, args
<1>2. ASSUME NEW d \in Clients PROVE Holds(d)'
  <2>1. Unmoved(d) BY DEF Plug, Unmoved, args
  <2> QED BY <2>1, HoldsOn
<1> QED BY <1>1, <1>2

LEMMA StepKeeps == Inv /\ [Next]_vars => Inv'
<1> SUFFICES ASSUME Inv, [Next]_vars PROVE Inv' OBVIOUS
<1>1. ASSUME NEW c \in Clients, Step(c) PROVE Inv'
  BY <1>1, AskKeeps, PrepareKeeps, SearchKeeps, FetchKeeps, ListedKeeps, DownloadKeeps,
     DownloadBundleKeeps, LookKeeps, RemoveKeeps, CopyKeeps, UploadKeeps, TidyKeeps
     DEF Step
<1>2. CASE UNCHANGED vars
  BY <1>2 DEF vars, world, args, Inv, Typed, WorldOK, ControlOK, ArgsOK, CopiesOK, dvt,
              Holds, Bound, Faithful, Sending
<1> QED BY <1>1, <1>2, BeginKeeps, ListsKeeps, AppWritesKeeps, PlugKeeps DEF Next

LEMMA AlwaysInv == Spec => []Inv
BY InitHolds, StepKeeps, PTL DEF Spec
-----------------------------------------------------------------------------
\* Every variable keeps its type, and what is sent to a device is a whole bundle:
\* no failed copy, no vanished .xcappdata gets as far (PhysicalDevice.m, 391-498).
THEOREM DeviceDataTypes == Spec => []TypeOK
<1>1. Inv => TypeOK
  BY DEF Inv, Typed, WorldOK, ControlOK, ArgsOK, CopiesOK, TypeOK, Steps, ExitCodes, Commands
<1> QED BY <1>1, AlwaysInv, PTL

\* What a client holds when its upload has replaced the container untouched.
LEMMA Replacing ==
  ASSUME Inv, NEW c \in Clients, Replaced(c)
  PROVE  /\ container' = [container EXCEPT ![file[c]] = value[c]]
         /\ overwrite[c] \/ container[file[c]] = None
<1> USE DEF Inv, Typed
<1>1. Goto(c, "tidy") /\ cmd[c] # "upload" /\ container' = Sent(c)
  <2>1. ASSUME NEW code, Exit(c, code) PROVE FALSE
    BY <2>1 DEF Replaced, Exit, ControlOK
  <2> QED BY <2>1 DEF Replaced, Upload, Writes
<1>2. Sending(c) BY <1>1 DEF Replaced, Upload, At, Sending, Holds, Bound
<1>3. Faithful(c) BY DEF Replaced, Holds
<1> QED BY <1>1, <1>2, <1>3 DEF Sent, Faithful

\* The upload of one file changes that file of the container and no other, if nobody
\* else has written there since the download (uploadFile:forApplication:overwrite:).
THEOREM UploadChangesOneFile == Spec => UploadsOneFile
<1>1. Inv /\ [Next]_vars =>
        [\A c \in Clients :
           Replaced(c) => container' = [container EXCEPT ![file[c]] = value[c]]]_vars
  BY Replacing
<1> QED BY <1>1, AlwaysInv, PTL DEF Spec, UploadsOneFile

\* Without --overwrite the file was not there (PhysicalDevice.m, 434-446).
THEOREM DeviceUploadNeverOverwrites == Spec => OverwritesOnlyWhenAsked
<1>1. Inv /\ [Next]_vars =>
        [\A c \in Clients :
           Replaced(c) /\ ~overwrite[c] => container[file[c]] = None]_vars
  BY Replacing
<1> QED BY <1>1, AlwaysInv, PTL DEF Spec, OverwritesOnlyWhenAsked
=============================================================================
