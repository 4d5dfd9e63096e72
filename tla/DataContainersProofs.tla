------------------------ MODULE DataContainersProofs ------------------------
(***************************************************************************)
(* For any number of processes, containers, bundles and files: type        *)
(* correctness, that upload replaces no file it was not told to, and that  *)
(* EverythingOkay is true of what nobody else touched.                     *)
(***************************************************************************)
EXTENDS DataContainers, TLAPS

\* TypeOK in two halves; the index is in range wherever it is used.
DiskOK == /\ tree \in [Trees -> Tree] /\ there \in SUBSET Paths
          /\ acts \in 0..MaxActs
          /\ failed \in [Clients -> BOOLEAN] /\ touched \in [Clients -> SUBSET Trees]

ControlOK ==
  /\ pc \in [Clients -> Places] /\ cmd \in [Clients -> Commands]
  /\ box \in [Clients -> Containers] /\ path \in [Clients -> Paths]
  /\ file \in [Clients -> Files] /\ value \in [Clients -> Values \cup {None}]
  /\ overwrite \in [Clients -> BOOLEAN]
  /\ index \in [Clients -> 1..4]
  /\ result \in [Clients -> Codes] /\ warned \in [Clients -> BOOLEAN]

InRange == \A c \in Clients : pc[c] \in {"remove", "copy"} => index[c] \in 1..3

TypeInv == DiskOK /\ ControlOK /\ InRange

LEMMA TypeInvTypes == TypeInv => TypeOK
  BY DEF TypeInv, DiskOK, ControlOK, TypeOK

\* The three directories, in the two orders.
LEMMA Orders ==
  /\ Len(Targets) = 3 /\ Len(Skeleton) = 3
  /\ \A i \in 1..3 : Targets[i] \in Directories /\ Skeleton[i] \in Directories
  /\ \A d \in Directories : (\E i \in 1..3 : Targets[i] = d) /\ (\E i \in 1..3 : Skeleton[i] = d)
  /\ \A i, j \in 1..3 : i # j => Targets[i] # Targets[j] /\ Skeleton[i] # Skeleton[j]
  BY DEF Targets, Skeleton, Directories

\* What a directory may hold.
LEMMA ContentTypes ==
  /\ Blank \in Contents /\ Absent \notin Contents
  /\ NoTree \in Tree /\ BlankTree \in Tree
  /\ \A content \in Contents : Parts(content) \subseteq Contents
<1>1. Blank \in Contents /\ Absent \notin Contents
  BY DataAssumption DEF Blank, Contents
<1>2. NoTree \in Tree /\ BlankTree \in Tree
  BY <1>1 DEF NoTree, BlankTree, Tree
<1>3. \A content \in Contents : Parts(content) \subseteq Contents
  BY DEF Parts
<1> QED
  BY <1>1, <1>2, <1>3

LEMMA TypeInvInit == Init => TypeInv
<1> SUFFICES ASSUME Init PROVE TypeInv
  OBVIOUS
<1>1. (CHOOSE b \in Containers : TRUE) \in Containers /\ (CHOOSE f \in Files : TRUE) \in Files
  BY DataAssumption
<1>2. box \in [Clients -> Containers] /\ file \in [Clients -> Files]
  <2> DEFINE someBox == CHOOSE b \in Containers : TRUE
             someFile == CHOOSE f \in Files : TRUE
  <2>1. box = [c \in Clients |-> someBox] /\ file = [c \in Clients |-> someFile]
    BY DEF Init
  <2>2. someBox \in Containers /\ someFile \in Files
    BY <1>1
  <2> HIDE DEF someBox, someFile
  <2> QED
    BY <2>1, <2>2
<1>3. tree \in [Trees -> Tree]
  BY ContentTypes DEF Init, Uniform, Tree
<1>4. /\ there \in SUBSET Paths /\ acts \in 0..MaxActs
      /\ failed \in [Clients -> BOOLEAN] /\ touched \in [Clients -> SUBSET Trees]
  BY DataAssumption DEF Init, Paths
<1>5. /\ pc \in [Clients -> Places] /\ cmd \in [Clients -> Commands]
      /\ path \in [Clients -> Paths] /\ value \in [Clients -> Values \cup {None}]
      /\ overwrite \in [Clients -> BOOLEAN] /\ index \in [Clients -> 1..4]
      /\ result \in [Clients -> Codes] /\ warned \in [Clients -> BOOLEAN]
  BY DEF Init, Places, Commands, Paths, Codes
<1>6. InRange
  BY DEF Init, InRange
<1> QED
  BY <1>2, <1>3, <1>4, <1>5, <1>6 DEF TypeInv, DiskOK, ControlOK

-----------------------------------------------------------------------------
(* How a client goes on.                                                   *)

LEMMA Going ==
  ASSUME TypeInv, NEW c \in Clients, NEW next \in Places,
         \/ Goes(c, next) /\ (next \in {"remove", "copy"} => index[c] \in 1..3)
         \/ Loops(c, next)
         \/ Again(c, next) /\ index[c] \in 1..3 /\ next \notin {"remove", "copy"}
  PROVE  ControlOK' /\ InRange'
<1> USE DEF TypeInv, ControlOK, InRange, args, Goto
<1>1. CASE Goes(c, next) /\ (next \in {"remove", "copy"} => index[c] \in 1..3)
  BY <1>1 DEF Goes
<1>2. CASE Loops(c, next)
  BY <1>2 DEF Loops
<1>3. CASE Again(c, next) /\ index[c] \in 1..3 /\ next \notin {"remove", "copy"}
  BY <1>3 DEF Again
<1> QED
  BY <1>1, <1>2, <1>3

LEMMA Exiting ==
  ASSUME TypeInv, NEW c \in Clients, NEW code \in Codes, Exit(c, code)
  PROVE  ControlOK' /\ InRange'
  BY DEF TypeInv, ControlOK, InRange, args, Goto, Exit, Places

LEMMA Returning ==
  ASSUME TypeInv, NEW c \in Clients, NEW code \in Codes,
         Generated(c, code) \/ Uploaded(c, code)
  PROVE  ControlOK' /\ InRange'
<1>1. "validate" \in Places /\ "finally" \in Places
  BY DEF Places
<1> QED
  BY <1>1, Going, Exiting DEF Generated, Uploaded

(* What becomes of the disk.                                               *)

LEMMA Looking == ASSUME TypeInv, Looks PROVE DiskOK'
  BY DEF TypeInv, DiskOK, Looks, disk

LEMMA Failing ==
  ASSUME TypeInv, NEW c \in Clients, Fails(c)
  PROVE  acts' \in 0..MaxActs /\ failed' \in [Clients -> BOOLEAN]
  BY DataAssumption DEF TypeInv, DiskOK, Fails

LEMMA Putting ==
  ASSUME TypeInv, NEW actor, NEW t \in Trees, NEW contents \in Tree, Put(actor, t, contents)
  PROVE  tree' \in [Trees -> Tree] /\ touched' \in [Clients -> SUBSET Trees]
  BY DEF TypeInv, DiskOK, Put, Touches

LEMMA DirectoryPutting ==
  ASSUME TypeInv, NEW t \in Trees, NEW d \in Directories, NEW e \in Contents \cup {Absent}
  PROVE  [tree[t] EXCEPT ![d] = e] \in Tree
  BY DEF TypeInv, DiskOK, Tree

LEMMA FailedOnly ==
  ASSUME TypeInv, NEW c \in Clients, Fails(c), UNCHANGED <<tree, there, touched>>
  PROVE  DiskOK'
  BY Failing DEF TypeInv, DiskOK

\* Every path and container is a tree.
LEMMA TreesOfClients ==
  ASSUME TypeInv, NEW c \in Clients
  PROVE  /\ path[c] \in Trees /\ box[c] \in Trees /\ path[c] # box[c]
         /\ \A t \in Trees, d \in Directories : tree[t][d] \in Contents \cup {Absent}
  BY DataAssumption DEF TypeInv, DiskOK, ControlOK, Trees, Tree

-----------------------------------------------------------------------------
(* Type correctness, command by command.                                   *)

LEMMA StartKeeps ==
  ASSUME TypeInv, NEW c \in Clients, NEW command \in Commands,
         NEW b \in Containers, NEW p \in Paths, NEW f \in Files,
         NEW v \in Values \cup {None}, NEW over \in BOOLEAN, Start(c, command, b, p, f, v, over)
  PROVE  TypeInv'
<1> USE DEF TypeInv, DiskOK, ControlOK, InRange, disk, history, Goto, Start
<1>1. DiskOK'
  OBVIOUS
<1>2. /\ cmd' \in [Clients -> Commands] /\ box' \in [Clients -> Containers]
      /\ path' \in [Clients -> Paths] /\ file' \in [Clients -> Files]
      /\ value' \in [Clients -> Values \cup {None}] /\ overwrite' \in [Clients -> BOOLEAN]
  OBVIOUS
<1>3. /\ pc' \in [Clients -> Places] /\ index' \in [Clients -> 1..4]
      /\ result' \in [Clients -> Codes] /\ warned' \in [Clients -> BOOLEAN]
      /\ InRange'
  BY DEF Places
<1> QED
  BY <1>1, <1>2, <1>3

LEMMA BeginKeeps ==
  ASSUME TypeInv, NEW c \in Clients, Begin(c)
  PROVE  TypeInv'
<1>1. /\ box[c] \in Containers /\ file[c] \in Files /\ path[c] \in Paths
      /\ Bundles \subseteq Paths /\ Downloads \subseteq Paths /\ Empty \in Paths
      /\ {"generate", "upload", "download", "clear", "uploadFile"} \subseteq Commands
  BY DEF TypeInv, ControlOK, Paths, Commands
<1>2. ASSUME NEW p \in Bundles, NEW over \in BOOLEAN,
             Start(c, "generate", box[c], p, file[c], None, over)
      PROVE  TypeInv'
  BY <1>1, <1>2, StartKeeps
<1>3. ASSUME NEW b \in Containers,
             \/ \E p \in Bundles : Start(c, "upload", b, p, file[c], None, FALSE)
             \/ \E p \in Downloads : Start(c, "download", b, p, file[c], None, FALSE)
             \/ Start(c, "clear", b, Empty, file[c], None, TRUE)
      PROVE  TypeInv'
  BY <1>1, <1>3, StartKeeps
<1>4. ASSUME NEW b \in Containers, NEW f \in Files, NEW v \in Values, NEW over \in BOOLEAN,
             Start(c, "uploadFile", b, path[c], f, v, over)
      PROVE  TypeInv'
  BY <1>1, <1>4, StartKeeps
<1> QED
  BY <1>2, <1>3, <1>4 DEF Begin

LEMMA AskKeeps ==
  ASSUME TypeInv, NEW c \in Clients, Ask(c)
  PROVE  TypeInv'
<1>1. DiskOK'
  BY Looking DEF Ask
<1>2. \A next \in {"generate", "validate", "downloadRemove", "fileLook"} :
        Goes(c, next) => ControlOK' /\ InRange'
  BY Going DEF Places
<1>3. \A code \in {"GenericFailure", "False"} : Exit(c, code) => ControlOK' /\ InRange'
  BY Exiting DEF Codes
<1> QED
  BY <1>1, <1>2, <1>3 DEF Ask, TypeInv

LEMMA RemovalTypes ==
  ASSUME TypeInv, NEW c \in Clients, NEW p \in Paths, Removed(c, p) \/ NotRemoved(c, p)
  PROVE  DiskOK'
<1>1. p \in Trees
  BY DEF Trees
<1>2. CASE Removed(c, p)
  BY <1>1, <1>2, ContentTypes, Putting DEF Removed, TypeInv, DiskOK
<1>3. ASSUME NEW gone \in SUBSET Directories
      PROVE  [d \in Directories |-> IF d \in gone THEN Absent ELSE tree[p][d]] \in Tree
  BY <1>1 DEF TypeInv, DiskOK, Tree
<1>4. CASE NotRemoved(c, p)
  BY <1>1, <1>3, <1>4, Looking, Failing, Putting DEF NotRemoved, TypeInv, DiskOK
<1> QED
  BY <1>2, <1>4

LEMMA GenerateKeeps ==
  ASSUME TypeInv, NEW c \in Clients, GenerateBundle(c)
  PROVE  TypeInv'
<1> USE DEF TypeInv
<1>1. path[c] \in Paths /\ path[c] \in Trees
  BY DEF ControlOK, Trees
<1>2. \A next \in {"make", "drop", "fill", "validate"} : Goes(c, next) \/ Loops(c, next)
        => ControlOK' /\ InRange'
  BY Going DEF Places
<1>3. \A code \in {"EverythingOkay", "GenericFailure"} : Generated(c, code)
        => ControlOK' /\ InRange'
  BY Returning DEF Codes
<1>4. CASE Generate(c)
  BY <1>2, <1>3, <1>4, Looking DEF Generate
<1>5. CASE Drop(c)
  BY <1>1, <1>2, <1>3, <1>5, RemovalTypes DEF Drop
<1>6. ASSUME CreateFails(c) PROVE TypeInv'
  BY <1>3, <1>6, FailedOnly DEF CreateFails
<1>7. CASE Make(c)
  <2>1. Touches(c, path[c]) => touched' \in [Clients -> SUBSET Trees]
    BY <1>1 DEF Touches, DiskOK
  <2> QED
    BY <1>1, <1>2, <1>6, <1>7, <2>1 DEF Make, DiskOK
<1>8. CASE Fill(c)
  <2> DEFINE d == Skeleton[index[c]]
  <2>1. CASE CreateFails(c)
    BY <1>6, <2>1
  <2>2. CASE ~CreateFails(c)
    <3>1. index[c] \in 1..3 /\ d \in Directories
      BY <1>8, Orders DEF Fill, ControlOK
    <3>2. (IF tree[path[c]][d] = Absent
           THEN [tree[path[c]] EXCEPT ![d] = Blank] ELSE tree[path[c]]) \in Tree
      BY <1>1, <3>1, ContentTypes, DirectoryPutting DEF DiskOK
    <3>3. Again(c, "fill") => ControlOK' /\ InRange'
      BY <3>1, Going DEF Places
    <3>4. DiskOK'
      BY <1>1, <1>8, <2>2, <3>2, Putting DEF Fill, DiskOK
    <3> QED
      BY <1>8, <2>2, <3>3, <3>4 DEF Fill
  <2> QED
    BY <2>1, <2>2
<1>9. CASE CheckSkeleton(c)
  BY <1>3, <1>9, Looking DEF CheckSkeleton
<1> QED
  BY <1>4, <1>5, <1>7, <1>8, <1>9 DEF GenerateBundle

LEMMA UploadKeeps ==
  ASSUME TypeInv, NEW c \in Clients, UploadBundle(c)
  PROVE  TypeInv'
<1> USE DEF TypeInv
<1> DEFINE d == Targets[index[c]]
<1>1. /\ box[c] \in Trees /\ path[c] \in Trees
      /\ \A t \in Trees, e \in Directories : tree[t][e] \in Contents \cup {Absent}
  BY TreesOfClients
<1>2. \A code \in {"EverythingOkay", "GenericFailure"} : Uploaded(c, code)
        => ControlOK' /\ InRange'
  BY Returning DEF Codes
<1>3. ASSUME NEW e \in Contents \cup {Absent},
             Put(c, box[c], [tree[box[c]] EXCEPT ![d] = e]), index[c] \in 1..3
      PROVE  tree' \in [Trees -> Tree] /\ touched' \in [Clients -> SUBSET Trees]
  BY <1>1, <1>3, Orders, DirectoryPutting, Putting
<1>4. CASE Validate(c)
  <2>1. Loops(c, "target") => ControlOK' /\ InRange'
    BY Going DEF Places
  <2> QED
    BY <1>2, <1>4, <2>1, Looking, FailedOnly DEF Validate
<1>5. CASE Look(c)
  <2>1. index[c] \in 1..3
    BY <1>5, Orders DEF Look, ControlOK
  <2>2. Goes(c, "copy") \/ Goes(c, "remove") => ControlOK' /\ InRange'
    BY <2>1, Going DEF Places
  <2> QED
    BY <1>5, <2>2, Looking DEF Look
<1>6. CASE Remove(c)
  <2>1. index[c] \in 1..3 /\ d \in Directories
    BY <1>6, Orders DEF Remove, At, InRange
  <2>2. ControlOK' /\ InRange'
    <3>1. Goes(c, "copy") => ControlOK' /\ InRange'
      BY <2>1, Going DEF Places
    <3>2. Exit(c, "Crashed") => ControlOK' /\ InRange'
      BY Exiting DEF Codes
    <3> QED
      BY <1>2, <1>6, <3>1, <3>2 DEF Remove
  <2>3. CASE DirectoryRemoved(c, box[c], d)
    <3>1. DiskOK'
      BY <1>3, <2>1, <2>3 DEF DirectoryRemoved, DiskOK
    <3> QED
      BY <2>2, <3>1
  <2>4. CASE DirectoryNotRemoved(c, box[c], d)
    <3>1. tree[box[c]][d] # Absent => Parts(tree[box[c]][d]) \subseteq Contents
      BY <1>1, <2>1, ContentTypes
    <3>2. DiskOK'
      BY <1>3, <2>1, <2>4, <3>1, Looking, Failing DEF DirectoryNotRemoved, DiskOK
    <3> QED
      BY <2>2, <3>2
  <2> QED
    BY <1>6, <2>3, <2>4 DEF Remove
<1>7. CASE Copy(c)
  <2>1. index[c] \in 1..3 /\ d \in Directories
    BY <1>7, Orders DEF Copy, At, InRange
  <2>2. ControlOK' /\ InRange'
    BY <1>7, <2>1, Going DEF Copy, Places
  <2>3. CASE Copied(c, d)
    <3>1. DiskOK'
      BY <1>1, <1>3, <2>1, <2>3 DEF Copied, DiskOK
    <3> QED
      BY <2>2, <3>1
  <2>4. CASE NotCopied(c, d)
    <3>1. tree[path[c]][d] # Absent => Parts(tree[path[c]][d]) \subseteq Contents
      BY <1>1, <2>1, ContentTypes
    <3>2. DiskOK'
      BY <1>3, <2>1, <2>4, <3>1, Looking, Failing DEF NotCopied, DiskOK
    <3> QED
      BY <2>2, <3>2
  <2> QED
    BY <1>7, <2>3, <2>4 DEF Copy
<1>8. CASE AllCopied(c)
  BY <1>2, <1>8, Looking DEF AllCopied
<1> QED
  BY <1>4, <1>5, <1>6, <1>7, <1>8 DEF UploadBundle

LEMMA FinallyKeeps ==
  ASSUME TypeInv, NEW c \in Clients, Finally(c)
  PROVE  TypeInv'
<1>1. DiskOK'
  BY RemovalTypes DEF Finally, Paths
<1>2. CASE Exit(c, "EverythingOkay")
  BY <1>1, <1>2, Exiting DEF TypeInv, Codes
<1>3. ASSUME NotRemoved(c, Empty), NEW code \in {"EverythingOkay", "Crashed"},
             warned' = [warned EXCEPT ![c] = TRUE], Goto(c, "done"),
             index' = [index EXCEPT ![c] = 1], result' = [result EXCEPT ![c] = code],
             UNCHANGED args
      PROVE  ControlOK' /\ InRange'
  BY <1>3 DEF TypeInv, ControlOK, InRange, args, Goto, Codes, Places
<1> QED
  BY <1>1, <1>2, <1>3 DEF Finally, TypeInv

LEMMA DownloadKeeps ==
  ASSUME TypeInv, NEW c \in Clients, DownloadBundle(c)
  PROVE  TypeInv'
<1> USE DEF TypeInv
<1>1. path[c] \in Paths /\ path[c] \in Trees /\ box[c] \in Trees
  BY TreesOfClients DEF ControlOK
<1>2. Exit(c, "EverythingOkay") => ControlOK' /\ InRange'
  BY Exiting DEF Codes
<1>3. Goes(c, "downloadCopy") => ControlOK' /\ InRange'
  BY Going DEF Places
<1>4. CASE DownloadRemove(c)
  BY <1>1, <1>2, <1>3, <1>4, RemovalTypes, FailedOnly DEF DownloadRemove
<1>5. CASE DownloadCopy(c)
  <2>1. ASSUME NEW gone \in SUBSET Directories
        PROVE  [e \in Directories |-> IF e \in gone THEN Absent ELSE tree[box[c]][e]] \in Tree
    BY <1>1 DEF DiskOK, Tree
  <2>2. tree[box[c]] \in Tree
    BY <1>1 DEF DiskOK
  <2>3. DiskOK'
    BY <1>1, <1>5, <2>1, <2>2, Looking, Failing, Putting DEF DownloadCopy, DiskOK
  <2> QED
    BY <1>2, <1>5, <2>3 DEF DownloadCopy
<1> QED
  BY <1>4, <1>5 DEF DownloadBundle

LEMMA WriteTypes ==
  ASSUME TypeInv, NEW actor, NEW b \in Containers, NEW d \in Directories, NEW f \in Files,
         NEW v \in Values \cup {None}, Write(actor, b, d, f, v)
  PROVE  /\ tree' \in [Trees -> Tree] /\ touched' \in [Clients -> SUBSET Trees]
         /\ there' = there
<1>1. b \in Trees /\ tree[b][d] \in Contents
  BY DEF TypeInv, DiskOK, Trees, Tree, Write
<1>2. [tree[b][d] EXCEPT ![f] = v] \in Contents
  BY <1>1 DEF Contents
<1>3. [tree[b] EXCEPT ![d] = [tree[b][d] EXCEPT ![f] = v]] \in Tree
  BY <1>1, <1>2, DirectoryPutting
<1> QED
  BY <1>1, <1>3, Putting DEF Write

LEMMA UploadFileKeeps ==
  ASSUME TypeInv, NEW c \in Clients, UploadFile(c)
  PROVE  TypeInv'
<1> USE DEF TypeInv
<1>1. /\ box[c] \in Containers /\ file[c] \in Files /\ value[c] \in Values \cup {None}
      /\ "Documents" \in Directories
  BY DEF ControlOK, Directories
<1>2. \A next \in {"fileRemove", "fileCopy"} : Goes(c, next) => ControlOK' /\ InRange'
  BY Going DEF Places
<1>3. \A code \in {"EverythingOkay", "GenericFailure", "InvalidArguments"} :
        Exit(c, code) => ControlOK' /\ InRange'
  BY Exiting DEF Codes
<1>4. \A code \in {"GenericFailure", "InvalidArguments"} : FileFails(c, code) => TypeInv'
  BY <1>3, FailedOnly DEF FileFails
<1>5. ASSUME NEW v \in Values \cup {None}, Write(c, box[c], "Documents", file[c], v),
             UNCHANGED <<acts, failed>>
      PROVE  DiskOK'
  BY <1>1, <1>5, WriteTypes DEF DiskOK
<1>6. CASE FileLook(c)
  BY <1>2, <1>3, <1>4, <1>6, Looking DEF FileLook
<1>7. CASE FileRemove(c)
  BY <1>2, <1>3, <1>4, <1>5, <1>7, Looking DEF FileRemove
<1>8. CASE FileCopy(c)
  BY <1>1, <1>3, <1>4, <1>5, <1>8, Looking DEF FileCopy
<1> QED
  BY <1>6, <1>7, <1>8 DEF UploadFile

LEMMA AppKeeps ==
  ASSUME TypeInv, NEW b \in Containers, AppWrites(b)
  PROVE  TypeInv'
<1>1. PICK d \in Directories, f \in Files, v \in Values : Write("app", b, d, f, v)
  BY DEF AppWrites
<1>2. DiskOK'
  BY <1>1, WriteTypes, DataAssumption DEF AppWrites, TypeInv, DiskOK
<1> QED
  BY <1>2 DEF AppWrites, TypeInv, ControlOK, InRange, args

LEMMA TypeInvStep == TypeInv /\ [Next]_vars => TypeInv'
<1> SUFFICES ASSUME TypeInv, [Next]_vars PROVE TypeInv'
  OBVIOUS
<1>1. ASSUME NEW c \in Clients, Begin(c) \/ ClientStep(c) PROVE TypeInv'
  BY <1>1, BeginKeeps, AskKeeps, GenerateKeeps, UploadKeeps, FinallyKeeps, DownloadKeeps,
     UploadFileKeeps DEF ClientStep
<1>2. ASSUME NEW c \in Clients, Killed(c) PROVE TypeInv'
  BY <1>2, Looking, Exiting DEF Killed, TypeInv, Codes
<1>3. CASE UNCHANGED vars
  BY <1>3 DEF vars, disk, args, history, TypeInv, DiskOK, ControlOK, InRange
<1> QED
  BY <1>1, <1>2, <1>3, AppKeeps DEF Next

LEMMA TypeInvAlways == Spec => []TypeInv
  BY TypeInvInit, TypeInvStep, PTL DEF Spec

\* Every variable keeps its type, whatever fails and whoever is killed.
THEOREM TypeCorrect == Spec => []TypeOK
  BY TypeInvAlways, TypeInvTypes, PTL

-----------------------------------------------------------------------------
(***************************************************************************)
(* What each place of a command knows: the invariant the two action        *)
(* properties rest on.                                                     *)
(***************************************************************************)
\* Client c has met no failure of a call and no change by somebody else.
Clean(c) == ~failed[c] /\ touched[c] = {}

\* Each place belongs to its commands, and each command has its arguments.
Placed(c) ==
  /\ pc[c] \in {"generate", "drop", "make", "fill"} => cmd[c] \in {"generate", "clear"}
  /\ pc[c] \in {"validate", "target", "remove", "copy"} => cmd[c] \in {"upload", "clear"}
  /\ pc[c] = "finally" => cmd[c] = "clear"
  /\ pc[c] \in {"downloadRemove", "downloadCopy"} => cmd[c] = "download"
  /\ pc[c] \in {"fileLook", "fileRemove", "fileCopy"} => cmd[c] = "uploadFile"
  /\ pc[c] = "fileRemove" => overwrite[c]
  /\ pc[c] = "ask" => cmd[c] \in {"upload", "download", "clear", "uploadFile"}
  /\ cmd[c] = "clear" => path[c] = Empty /\ overwrite[c]
  /\ cmd[c] = "uploadFile" => value[c] \in Values

\* The bundle is blank as far as the generation has come, and stays so.
Generating(c) ==
  /\ pc[c] = "drop" => path[c] \in there
  /\ pc[c] = "make" => path[c] \notin there
  /\ pc[c] = "fill" =>
       /\ path[c] \in there
       /\ \A i \in 1..3 : tree[path[c]][Skeleton[i]] = IF i < index[c] THEN Blank ELSE Absent
  /\ pc[c] \in {"validate", "target", "remove", "copy"} /\ cmd[c] = "clear" =>
       path[c] \in there /\ tree[path[c]] = BlankTree

\* The container is what the bundle is as far as the upload has come.
Uploading(c) ==
  /\ pc[c] \in {"target", "remove", "copy"} =>
       /\ \A d \in Directories : tree[path[c]][d] # Absent
       /\ \A i \in 1..3 : i < index[c] => tree[box[c]][Targets[i]] = tree[path[c]][Targets[i]]
  /\ pc[c] = "remove" => tree[box[c]][Targets[index[c]]] # Absent
  /\ pc[c] = "copy" => tree[box[c]][Targets[index[c]]] = Absent
  /\ pc[c] = "finally" => tree[box[c]] = BlankTree

\* Where there is no directory there is nothing in it.
Nowhere == \A p \in Paths \ there : tree[p] = NoTree

\* Every place knows what it has done, as long as nothing has come in between.
Known ==
  /\ Nowhere
  /\ \A c \in Clients : Placed(c) /\ (Clean(c) => Generating(c) /\ Uploading(c))

LEMMA KnownInit == Init => Known
<1> SUFFICES ASSUME Init PROVE Known
  OBVIOUS
<1>1. Nowhere
  BY DEF Init, Nowhere
<1>2. \A c \in Clients : Placed(c) /\ Generating(c) /\ Uploading(c)
  BY DEF Init, Placed, Generating, Uploading
<1> QED
  BY <1>1, <1>2 DEF Known

-----------------------------------------------------------------------------
(* A step of one actor changes one tree at most, and whoever works on it   *)
(* is told.                                                                *)

Effect(actor) ==
  /\ \A c \in Clients : failed[c] => failed'[c]
  /\ \/ UNCHANGED <<tree, there, touched>>
     \/ \E t \in Trees :
          /\ Touches(actor, t)
          /\ \A s \in Trees : s # t => tree'[s] = tree[s] /\ (s \in there' <=> s \in there)

LEMMA QuietEffect == ASSUME Looks, NEW actor PROVE Effect(actor)
  BY DEF Looks, disk, Effect

LEMMA FailedEffect ==
  ASSUME TypeInv, NEW c \in Clients, Fails(c)
  PROVE  \A d \in Clients : failed[d] => failed'[d]
  BY DEF TypeInv, DiskOK, Fails

LEMMA FailedQuietEffect ==
  ASSUME TypeInv, NEW c \in Clients, Fails(c), UNCHANGED <<tree, there, touched>>
  PROVE  Effect(c)
  BY FailedEffect DEF Effect

LEMMA PutEffect ==
  ASSUME TypeInv, NEW actor, NEW t \in Trees, NEW contents, Put(actor, t, contents),
         \A d \in Clients : failed[d] => failed'[d],
         \A s \in Trees : s # t => (s \in there' <=> s \in there)
  PROVE  Effect(actor)
  BY DEF TypeInv, DiskOK, Put, Effect

LEMMA RemovalEffect ==
  ASSUME TypeInv, NEW c \in Clients, NEW p \in Paths, Removed(c, p) \/ NotRemoved(c, p)
  PROVE  Effect(c)
<1>1. p \in Trees
  BY DEF Trees
<1>2. CASE Removed(c, p)
  BY <1>1, <1>2, PutEffect DEF Removed
<1>3. CASE NotRemoved(c, p)
  BY <1>1, <1>3, PutEffect, QuietEffect, FailedEffect DEF NotRemoved
<1> QED
  BY <1>2, <1>3

LEMMA GenerateEffect ==
  ASSUME TypeInv, NEW c \in Clients, GenerateBundle(c)
  PROVE  Effect(c)
<1>1. path[c] \in Paths /\ path[c] \in Trees
  BY DEF TypeInv, ControlOK, Trees
<1>2. CASE Generate(c)
  BY <1>2, QuietEffect DEF Generate
<1>3. CASE Drop(c)
  BY <1>1, <1>3, RemovalEffect DEF Drop
<1>4. CASE Make(c)
  BY <1>1, <1>4, FailedQuietEffect DEF Make, CreateFails, Effect
<1>5. CASE Fill(c)
  BY <1>1, <1>5, FailedQuietEffect, PutEffect DEF Fill, CreateFails
<1>6. CASE CheckSkeleton(c)
  BY <1>6, QuietEffect DEF CheckSkeleton
<1> QED
  BY <1>2, <1>3, <1>4, <1>5, <1>6 DEF GenerateBundle

LEMMA UploadEffect ==
  ASSUME TypeInv, NEW c \in Clients, UploadBundle(c)
  PROVE  Effect(c)
<1>1. box[c] \in Trees
  BY TreesOfClients
<1>2. CASE Validate(c)
  BY <1>2, QuietEffect, FailedQuietEffect DEF Validate
<1>3. CASE Look(c)
  BY <1>3, QuietEffect DEF Look
<1>4. CASE Remove(c)
  BY <1>1, <1>4, QuietEffect, FailedEffect, PutEffect
     DEF Remove, DirectoryRemoved, DirectoryNotRemoved
<1>5. CASE Copy(c)
  BY <1>1, <1>5, QuietEffect, FailedEffect, PutEffect DEF Copy, Copied, NotCopied
<1>6. CASE AllCopied(c)
  BY <1>6, QuietEffect DEF AllCopied
<1> QED
  BY <1>2, <1>3, <1>4, <1>5, <1>6 DEF UploadBundle

LEMMA DownloadEffect ==
  ASSUME TypeInv, NEW c \in Clients, DownloadBundle(c)
  PROVE  Effect(c)
<1>1. path[c] \in Paths /\ path[c] \in Trees
  BY DEF TypeInv, ControlOK, Trees
<1>2. CASE DownloadRemove(c)
  BY <1>1, <1>2, RemovalEffect, FailedQuietEffect DEF DownloadRemove
<1>3. CASE DownloadCopy(c)
  BY <1>1, <1>3, QuietEffect, FailedEffect, FailedQuietEffect, PutEffect DEF DownloadCopy
<1> QED
  BY <1>2, <1>3 DEF DownloadBundle

LEMMA WriteEffect ==
  ASSUME TypeInv, NEW actor, NEW b \in Containers, NEW d, NEW f, NEW v,
         Write(actor, b, d, f, v), UNCHANGED failed
  PROVE  Effect(actor)
  BY PutEffect DEF Write, Trees

LEMMA UploadFileEffect ==
  ASSUME TypeInv, NEW c \in Clients, UploadFile(c)
  PROVE  Effect(c)
<1>1. box[c] \in Containers
  BY DEF TypeInv, ControlOK
<1>2. CASE FileLook(c)
  BY <1>2, QuietEffect, FailedQuietEffect DEF FileLook, FileFails
<1>3. CASE FileRemove(c)
  BY <1>1, <1>3, QuietEffect, FailedQuietEffect, WriteEffect DEF FileRemove, FileFails
<1>4. CASE FileCopy(c)
  BY <1>1, <1>4, QuietEffect, FailedQuietEffect, WriteEffect DEF FileCopy, FileFails
<1> QED
  BY <1>2, <1>3, <1>4 DEF UploadFile

\* Every step of a client has such an effect.
LEMMA ClientEffect ==
  ASSUME TypeInv, NEW c \in Clients, Begin(c) \/ ClientStep(c) \/ Killed(c)
  PROVE  Effect(c)
<1>1. CASE Begin(c)
  BY <1>1, QuietEffect DEF Begin, Start, history, Looks
<1>2. CASE Finally(c)
  BY <1>2, RemovalEffect DEF Finally, Paths
<1>3. CASE Ask(c) \/ Killed(c)
  BY <1>3, QuietEffect DEF Ask, Killed
<1> QED
  BY <1>1, <1>2, <1>3, GenerateEffect, UploadEffect, DownloadEffect, UploadFileEffect
     DEF ClientStep

\* A step of c leaves the others where they are, and keeps its own arguments.
Elsewhere(c) ==
  \A d \in Clients : d # c =>
    /\ pc'[d] = pc[d] /\ index'[d] = index[d] /\ cmd'[d] = cmd[d]
    /\ box'[d] = box[d] /\ path'[d] = path[d]
    /\ value'[d] = value[d] /\ overwrite'[d] = overwrite[d] /\ result'[d] = result[d]

LEMMA MovesElsewhere ==
  ASSUME TypeInv, NEW c \in Clients, NEW next, NEW code,
         Goes(c, next) \/ Loops(c, next) \/ Again(c, next) \/ Exit(c, code)
  PROVE  Elsewhere(c) /\ UNCHANGED args
  BY DEF TypeInv, ControlOK, Goes, Loops, Again, Exit, Goto, args, Elsewhere

LEMMA ReturnsElsewhere ==
  ASSUME TypeInv, NEW c \in Clients, NEW code, Generated(c, code) \/ Uploaded(c, code)
  PROVE  Elsewhere(c) /\ UNCHANGED args
  BY MovesElsewhere DEF Generated, Uploaded

LEMMA ClientElsewhere ==
  ASSUME TypeInv, NEW c \in Clients, ClientStep(c) \/ Killed(c)
  PROVE  Elsewhere(c) /\ UNCHANGED args
<1>1. CASE Ask(c) \/ Killed(c)
  BY <1>1, MovesElsewhere DEF Ask, Killed
<1>2. CASE GenerateBundle(c)
  BY <1>2, MovesElsewhere, ReturnsElsewhere
     DEF GenerateBundle, Generate, Drop, Make, Fill, CheckSkeleton, CreateFails
<1>3. CASE UploadBundle(c)
  BY <1>3, MovesElsewhere, ReturnsElsewhere
     DEF UploadBundle, Validate, Look, Remove, Copy, AllCopied
<1>4. CASE Finally(c)
  BY <1>4, MovesElsewhere DEF Finally, TypeInv, ControlOK, Goto, args, Elsewhere
<1>5. CASE DownloadBundle(c)
  BY <1>5, MovesElsewhere DEF DownloadBundle, DownloadRemove, DownloadCopy
<1>6. CASE UploadFile(c)
  BY <1>6, MovesElsewhere DEF UploadFile, FileLook, FileRemove, FileCopy, FileFails
<1> QED
  BY <1>1, <1>2, <1>3, <1>4, <1>5, <1>6 DEF ClientStep

\* What c knows is still true after a step of another actor that leaves c clean.
LEMMA OthersKeepKnowing ==
  ASSUME TypeInv, NEW actor, NEW c \in Clients, c # actor, Effect(actor),
         Placed(c), Clean(c) => Generating(c) /\ Uploading(c),
         pc'[c] = pc[c], index'[c] = index[c], cmd'[c] = cmd[c], box'[c] = box[c],
         path'[c] = path[c], value'[c] = value[c], overwrite'[c] = overwrite[c]
  PROVE  Placed(c)' /\ (Clean(c)' => Generating(c)' /\ Uploading(c)')
<1>1. Placed(c)'
  BY DEF Placed
<1>2. ASSUME Clean(c)', Running(c)
      PROVE  Generating(c)' /\ Uploading(c)'
  <2>1. path[c] \in Trees /\ box[c] \in Trees
    BY TreesOfClients
  <2>2. ~failed[c]
    BY <1>2 DEF Clean, Effect
  <2>3. /\ touched[c] = {}
        /\ tree'[box[c]] = tree[box[c]] /\ tree'[path[c]] = tree[path[c]]
        /\ path[c] \in there' <=> path[c] \in there
    <3>1. CASE UNCHANGED <<tree, there, touched>>
      BY <1>2, <3>1 DEF Clean
    <3>2. ASSUME NEW t \in Trees, Touches(actor, t),
                 \A s \in Trees : s # t => tree'[s] = tree[s] /\ (s \in there' <=> s \in there)
          PROVE  /\ touched[c] = {}
                 /\ tree'[box[c]] = tree[box[c]] /\ tree'[path[c]] = tree[path[c]]
                 /\ path[c] \in there' <=> path[c] \in there
      <4>1. t \notin {box[c], path[c]} /\ touched'[c] = touched[c]
        BY <1>2, <3>2 DEF Clean, Touches
      <4> QED
        BY <1>2, <2>1, <3>2, <4>1 DEF Clean
    <3> QED
      BY <3>1, <3>2 DEF Effect
  <2>4. Generating(c) /\ Uploading(c)
    BY <2>2, <2>3 DEF Clean
  <2>5. Generating(c)'
    BY <2>3, <2>4 DEF Generating
  <2>6. Uploading(c)'
    BY <2>3, <2>4 DEF Uploading
  <2> QED
    BY <2>5, <2>6
<1>3. CASE ~Running(c)
  BY <1>1, <1>3 DEF Running, Generating, Uploading
<1> QED
  BY <1>1, <1>2, <1>3

-----------------------------------------------------------------------------
(* What c knows after a step of its own.                                   *)

LEMMA StaysClean ==
  ASSUME TypeInv, NEW c \in Clients, Effect(c), Clean(c)'
  PROVE  Clean(c)
  BY DEF TypeInv, DiskOK, Effect, Touches, Clean

LEMMA Arrived ==
  ASSUME TypeInv, NEW c \in Clients
  PROVE  /\ \A next : Goes(c, next) => pc'[c] = next /\ index'[c] = index[c]
         /\ \A next : Loops(c, next) => pc'[c] = next /\ index'[c] = 1
         /\ \A next : Again(c, next) => pc'[c] = next /\ index'[c] = index[c] + 1
         /\ \A code : Exit(c, code) => pc'[c] = "done"
         /\ \A code : Generated(c, code)
              => pc'[c] = "done" \/ (cmd[c] = "clear" /\ pc'[c] = "validate")
         /\ \A code : Uploaded(c, code)
              => pc'[c] = "done" \/ (cmd[c] = "clear" /\ pc'[c] = "finally")
<1>1. /\ \A next : Goes(c, next) => pc'[c] = next /\ index'[c] = index[c]
      /\ \A next : Loops(c, next) => pc'[c] = next /\ index'[c] = 1
      /\ \A next : Again(c, next) => pc'[c] = next /\ index'[c] = index[c] + 1
      /\ \A code : Exit(c, code) => pc'[c] = "done"
  BY DEF TypeInv, ControlOK, Goes, Loops, Again, Exit, Goto
<1> QED
  BY <1>1 DEF Generated, Uploaded

\* A failure of its own leaves nobody clean; a removal fails by itself.
LEMMA FailureSeen ==
  ASSUME TypeInv, NEW c \in Clients, Fails(c)
  PROVE  ~Clean(c)'
  BY DEF TypeInv, DiskOK, Fails, Clean

LEMMA PlacedAt ==
  ASSUME TypeInv, NEW c \in Clients, Placed(c), UNCHANGED args,
         \/ pc'[c] = "done"
         \/ pc'[c] \in {"drop", "make", "fill"} /\ pc[c] \in {"generate", "drop", "make", "fill"}
         \/ pc'[c] \in {"target", "remove", "copy"}
            /\ pc[c] \in {"validate", "target", "remove", "copy"}
         \/ cmd[c] = "clear" /\ pc'[c] \in {"validate", "finally"}
         \/ pc[c] = "downloadRemove" /\ pc'[c] = "downloadCopy"
         \/ pc[c] \in {"fileLook", "fileRemove"} /\ pc'[c] = "fileCopy"
         \/ pc[c] = "fileLook" /\ pc'[c] = "fileRemove" /\ overwrite[c]
  PROVE  Placed(c)'
  BY DEF Placed, args

LEMMA BlankWhenFilled ==
  ASSUME TypeInv, NEW c \in Clients, Generating(c), At(c, "fill"), index[c] > Len(Skeleton)
  PROVE  path[c] \in there /\ tree[path[c]] = BlankTree
<1>1. tree[path[c]] \in Tree /\ index[c] \in 1..4
  BY TreesOfClients DEF TypeInv, DiskOK, ControlOK
<1>2. index[c] = 4
  BY <1>1, Orders
<1>3. path[c] \in there /\ \A i \in 1..3 : tree[path[c]][Skeleton[i]] = Blank
  BY <1>2 DEF At, Generating
<1> QED
  BY <1>1, <1>3, Orders DEF Tree, BlankTree

LEMMA SameWhenCopied ==
  ASSUME TypeInv, NEW c \in Clients, Uploading(c), At(c, "target"), index[c] > Len(Targets)
  PROVE  tree[box[c]] = tree[path[c]]
<1>1. tree[path[c]] \in Tree /\ tree[box[c]] \in Tree /\ index[c] \in 1..4
  BY TreesOfClients DEF TypeInv, DiskOK, ControlOK
<1>2. index[c] = 4
  BY <1>1, Orders
<1>3. \A i \in 1..3 : tree[box[c]][Targets[i]] = tree[path[c]][Targets[i]]
  BY <1>2 DEF At, Uploading
<1> QED
  BY <1>1, <1>3, Orders DEF Tree

LEMMA GenerateKnows ==
  ASSUME TypeInv, Known, NEW c \in Clients, GenerateBundle(c)
  PROVE  Placed(c)' /\ (Clean(c)' => Generating(c)' /\ Uploading(c)')
<1> DEFINE p == path[c]
<1>1. /\ p \in Paths /\ p \in Trees /\ tree[p] \in Tree /\ index[c] \in 1..4
      /\ Placed(c) /\ Nowhere
  BY TreesOfClients DEF TypeInv, DiskOK, ControlOK, Known
<1>2. /\ Effect(c) /\ UNCHANGED args /\ path'[c] = p /\ cmd'[c] = cmd[c]
  BY GenerateEffect, ClientElsewhere DEF ClientStep, args
<1>3. Clean(c)' => Clean(c) /\ Generating(c) /\ Uploading(c)
  BY <1>2, StaysClean DEF Known
<1>4. ASSUME CreateFails(c) PROVE ~Clean(c)'
  BY <1>4, FailureSeen DEF CreateFails
<1>5. Placed(c)'
  BY <1>1, <1>2, Arrived, PlacedAt
     DEF GenerateBundle, Generate, Drop, Make, Fill, CheckSkeleton, CreateFails, At
<1>6. ASSUME Clean(c)' PROVE Generating(c)'
  <2>1. CASE Generate(c)
    BY <1>1, <1>2, <2>1, Arrived DEF Generate, Looks, disk, At, Generating, Placed
  <2>2. CASE Drop(c)
    <3>1. Removed(c, p)
      BY <1>3, <1>6, <2>2, FailureSeen DEF Drop, NotRemoved, At, Generating
    <3>2. p \notin there'
      BY <3>1 DEF Removed
    <3>3. pc'[c] = "make"
      BY <2>2, <3>1, Arrived DEF Drop, NotRemoved, Removed, Looks, Put, Fails, disk, TypeInv, DiskOK
    <3> QED
      BY <1>2, <3>2, <3>3 DEF Generating
  <2>3. CASE Make(c)
    <3>1. p \notin there /\ tree[p] = NoTree
      BY <1>1, <1>3, <1>6, <2>3 DEF Make, At, Generating, Nowhere
    <3>2. p \in there' /\ tree' = tree /\ pc'[c] = "fill" /\ index'[c] = 1
      BY <1>4, <1>6, <2>3, Arrived DEF Make
    <3>3. \A i \in 1..3 : tree[p][Skeleton[i]] = Absent
      BY <3>1, Orders DEF NoTree
    <3> QED
      BY <1>2, <3>2, <3>3 DEF Generating
  <2>4. CASE Fill(c)
    <3> DEFINE d == Skeleton[index[c]]
    <3>1. /\ index[c] \in 1..3 /\ d \in Directories
          /\ pc'[c] = "fill" /\ index'[c] = index[c] + 1 /\ p \in there'
          /\ tree' = [tree EXCEPT ![p] = IF tree[p][d] = Absent
                                         THEN [tree[p] EXCEPT ![d] = Blank] ELSE tree[p]]
      BY <1>1, <1>4, <1>6, <2>4, Orders, Arrived DEF Fill, Put
    <3>2. \A i \in 1..3 : tree[p][Skeleton[i]] = IF i < index[c] THEN Blank ELSE Absent
      BY <1>3, <1>6, <2>4 DEF Fill, At, Generating
    <3>3. tree'[p] = [tree[p] EXCEPT ![d] = Blank]
      BY <1>1, <3>1, <3>2 DEF TypeInv, DiskOK
    <3>4. \A i \in 1..3 : tree'[p][Skeleton[i]] = IF i < index'[c] THEN Blank ELSE Absent
      BY <1>1, <3>1, <3>2, <3>3, Orders DEF Tree
    <3> QED
      BY <1>2, <3>1, <3>4 DEF Generating
  <2>5. CASE CheckSkeleton(c)
    <3>1. p \in there /\ tree[p] = BlankTree
      BY <1>3, <1>6, <2>5, BlankWhenFilled DEF CheckSkeleton
    <3> QED
      BY <1>2, <2>5, <3>1, Arrived DEF CheckSkeleton, Looks, disk, Generating
  <2> QED
    BY <2>1, <2>2, <2>3, <2>4, <2>5 DEF GenerateBundle
<1>7. Uploading(c)'
  BY Arrived DEF GenerateBundle, Generate, Drop, Make, Fill, CheckSkeleton, CreateFails, Uploading
<1> QED
  BY <1>5, <1>6, <1>7

LEMMA UploadKnows ==
  ASSUME TypeInv, Known, NEW c \in Clients, UploadBundle(c)
  PROVE  Placed(c)' /\ (Clean(c)' => Generating(c)' /\ Uploading(c)')
<1> DEFINE p == path[c]
           b == box[c]
           i == index[c]
           d == Targets[i]
<1>1. /\ p \in Trees /\ b \in Trees /\ p # b /\ i \in 1..4
      /\ tree[p] \in Tree /\ tree[b] \in Tree /\ Placed(c)
      /\ pc[c] \in {"remove", "copy"} => i \in 1..3
  BY TreesOfClients DEF TypeInv, DiskOK, ControlOK, InRange, Known
<1>2. /\ Effect(c) /\ UNCHANGED args /\ UNCHANGED there
      /\ path'[c] = p /\ box'[c] = b /\ cmd'[c] = cmd[c]
  BY UploadEffect, ClientElsewhere
     DEF ClientStep, args, UploadBundle, Validate, Look, Remove, Copy, AllCopied,
         DirectoryRemoved, DirectoryNotRemoved, Copied, NotCopied, Looks, disk
<1>3. Clean(c)' => Clean(c) /\ Generating(c) /\ Uploading(c)
  BY <1>2, StaysClean DEF Known
<1>4. Placed(c)'
  BY <1>1, <1>2, Arrived, PlacedAt
     DEF UploadBundle, Validate, Look, Remove, Copy, AllCopied, At
<1>5. ASSUME Clean(c)' PROVE Generating(c)' /\ Uploading(c)'
  <2>1. /\ cmd[c] = "clear" => p \in there /\ tree[p] = BlankTree
        /\ pc[c] # "validate" => \A e \in Directories : tree[p][e] # Absent
        /\ pc[c] # "validate" => \A j \in 1..3 : j < i => tree[b][Targets[j]] = tree[p][Targets[j]]
    BY <1>3, <1>5 DEF UploadBundle, Validate, Look, Remove, Copy, AllCopied, At,
                      Generating, Uploading
  <2>2. CASE Validate(c)
    <3>1. cmd[c] = "clear" => Valid(p)
      BY <2>1, ContentTypes DEF Valid, BlankTree
    <3>2. \/ pc'[c] = "target" /\ Valid(p) /\ index'[c] = 1 /\ tree' = tree
          \/ pc'[c] = "done"
      BY <1>1, <1>5, <2>2, <3>1, Arrived, FailureSeen
         DEF Validate, Uploaded, Looks, disk, At, Placed
    <3> QED
      BY <1>2, <2>1, <3>2 DEF Generating, Uploading, Valid
  <2>3. CASE Look(c)
    <3>1. i \in 1..3 /\ tree' = tree /\ index'[c] = i
          /\ pc'[c] = IF tree[b][d] = Absent THEN "copy" ELSE "remove"
      BY <1>1, <2>3, Orders, Arrived DEF Look, Looks, disk
    <3> QED
      BY <1>2, <2>1, <2>3, <3>1 DEF Look, At, Generating, Uploading
  <2>4. CASE Remove(c)
    <3>1. i \in 1..3 /\ d \in Directories /\ tree[b][d] # Absent
      BY <1>1, <1>3, <1>5, <2>4, Orders DEF Remove, At, Uploading
    <3>2. DirectoryRemoved(c, b, d) /\ Goes(c, "copy")
      BY <1>5, <2>4, <3>1, FailureSeen DEF Remove, DirectoryNotRemoved
    <3>3. /\ pc'[c] = "copy" /\ index'[c] = i
          /\ tree'[b] = [tree[b] EXCEPT ![d] = Absent] /\ tree'[p] = tree[p]
      BY <1>1, <3>2, Arrived DEF DirectoryRemoved, Put, TypeInv, DiskOK
    <3>4. /\ tree'[b][d] = Absent
          /\ \A j \in 1..3 : j < i => tree'[b][Targets[j]] = tree[b][Targets[j]]
      BY <1>1, <3>1, <3>3, Orders DEF Tree
    <3> QED
      BY <1>2, <2>1, <2>4, <3>3, <3>4 DEF Remove, At, Generating, Uploading
  <2>5. CASE Copy(c)
    <3>1. i \in 1..3 /\ d \in Directories /\ tree[b][d] = Absent /\ tree[p][d] # Absent
      BY <1>1, <1>3, <1>5, <2>1, <2>5, Orders DEF Copy, At, Uploading
    <3>2. Copied(c, d)
      BY <1>5, <2>5, <3>1, FailureSeen DEF Copy, NotCopied
    <3>3. /\ pc'[c] = "target" /\ index'[c] = i + 1
          /\ tree'[b] = [tree[b] EXCEPT ![d] = tree[p][d]] /\ tree'[p] = tree[p]
      BY <1>1, <2>5, <3>2, Arrived DEF Copy, Copied, Put, TypeInv, DiskOK
    <3>4. \A j \in 1..3 : j < i + 1 => tree'[b][Targets[j]] = tree[p][Targets[j]]
      BY <1>1, <2>1, <2>5, <3>1, <3>3, Orders DEF Copy, At, Tree
    <3> QED
      BY <1>2, <2>1, <2>5, <3>3, <3>4 DEF Copy, At, Generating, Uploading
  <2>6. CASE AllCopied(c)
    <3>1. tree[b] = tree[p]
      BY <1>3, <1>5, <2>6, SameWhenCopied DEF AllCopied
    <3> QED
      BY <1>2, <2>1, <2>6, <3>1, Arrived DEF AllCopied, Looks, disk, Generating, Uploading
  <2> QED
    BY <2>2, <2>3, <2>4, <2>5, <2>6 DEF UploadBundle
<1> QED
  BY <1>4, <1>5

LEMMA OthersKnow ==
  ASSUME TypeInv, Known, NEW c \in Clients,
         Ask(c) \/ Finally(c) \/ DownloadBundle(c) \/ UploadFile(c) \/ Killed(c)
  PROVE  Placed(c)' /\ (Clean(c)' => Generating(c)' /\ Uploading(c)')
<1>1. UNCHANGED args /\ Placed(c)
  BY ClientElsewhere DEF ClientStep, Known
<1>2. CASE Ask(c)
  <2>1. \/ /\ cmd[c] = "clear" /\ pc'[c] = "generate"
        \/ /\ cmd[c] = "upload" /\ pc'[c] = "validate"
        \/ /\ cmd[c] = "download" /\ pc'[c] = "downloadRemove"
        \/ /\ cmd[c] = "uploadFile" /\ pc'[c] = "fileLook"
        \/ pc'[c] = "done"
    BY <1>1, <1>2, Arrived DEF Ask, At, Placed
  <2> QED
    BY <1>1, <2>1 DEF args, Placed, Generating, Uploading
<1>3. CASE Finally(c) \/ Killed(c)
  <2>1. pc'[c] = "done"
    BY <1>3, Arrived DEF Finally, Killed, TypeInv, ControlOK, Goto
  <2> QED
    BY <1>1, <2>1, PlacedAt DEF Generating, Uploading
<1>4. CASE DownloadBundle(c)
  <2>1. pc'[c] = "done" \/ (pc[c] = "downloadRemove" /\ pc'[c] = "downloadCopy")
    BY <1>4, Arrived DEF DownloadBundle, DownloadRemove, DownloadCopy, At
  <2> QED
    BY <1>1, <2>1, PlacedAt DEF Generating, Uploading
<1>5. CASE UploadFile(c)
  <2>1. \/ pc'[c] = "done"
        \/ pc[c] \in {"fileLook", "fileRemove"} /\ pc'[c] = "fileCopy"
        \/ pc[c] = "fileLook" /\ pc'[c] = "fileRemove" /\ overwrite[c]
    BY <1>5, Arrived DEF UploadFile, FileLook, FileRemove, FileCopy, FileFails, At
  <2> QED
    BY <1>1, <2>1, PlacedAt DEF Generating, Uploading
<1> QED
  BY <1>2, <1>3, <1>4, <1>5

LEMMA BeginKnows ==
  ASSUME TypeInv, Known, NEW c \in Clients, Begin(c)
  PROVE  /\ Placed(c)' /\ (Clean(c)' => Generating(c)' /\ Uploading(c)')
         /\ Elsewhere(c)
<1>1. ASSUME NEW command \in Commands, NEW b, NEW p, NEW f, NEW v, NEW over,
             Start(c, command, b, p, f, v, over),
             command = "clear" => p = Empty /\ over, command = "uploadFile" => v \in Values,
             command # "none"
      PROVE  /\ Placed(c)' /\ (Clean(c)' => Generating(c)' /\ Uploading(c)')
             /\ Elsewhere(c)
  <2>1. /\ pc'[c] = (IF command = "generate" THEN "generate" ELSE "ask")
        /\ cmd'[c] = command /\ path'[c] = p /\ overwrite'[c] = over /\ value'[c] = v
        /\ Elsewhere(c)
    BY <1>1 DEF Start, Goto, TypeInv, ControlOK, Elsewhere
  <2> QED
    BY <1>1, <2>1 DEF Commands, Placed, Generating, Uploading
<1>2. {"generate", "upload", "download", "clear", "uploadFile"} \subseteq Commands
  BY DEF Commands
<1> QED
  BY <1>1, <1>2 DEF Begin

-----------------------------------------------------------------------------
(* Where there is no directory there is still nothing.                     *)

LEMMA NowhereKept ==
  ASSUME TypeInv, Nowhere, NEW t \in Trees,
         \A s \in Trees : s # t => tree'[s] = tree[s] /\ (s \in there' <=> s \in there),
         t \in Containers \/ t \in there' \/ tree'[t] = NoTree
  PROVE  Nowhere'
  BY DataAssumption DEF Nowhere, Trees

LEMMA PutNowhere ==
  ASSUME TypeInv, Nowhere, NEW actor, NEW t \in Trees, NEW contents, Put(actor, t, contents),
         \A s \in Trees : s # t => (s \in there' <=> s \in there),
         t \in Containers \/ t \in there' \/ contents = NoTree
  PROVE  Nowhere'
<1>1. /\ tree'[t] = contents
      /\ \A s \in Trees : s # t => tree'[s] = tree[s]
  BY DEF Put, TypeInv, DiskOK
<1> QED
  BY <1>1, NowhereKept

LEMMA QuietNowhere == ASSUME Nowhere, UNCHANGED <<tree, there>> PROVE Nowhere'
  BY DEF Nowhere

LEMMA RemovalNowhere ==
  ASSUME TypeInv, Nowhere, NEW c \in Clients, NEW p \in Paths, Removed(c, p) \/ NotRemoved(c, p)
  PROVE  Nowhere'
<1>1. p \in Trees
  BY DEF Trees
<1>2. CASE Removed(c, p)
  BY <1>1, <1>2, PutNowhere DEF Removed
<1>3. CASE NotRemoved(c, p)
  BY <1>1, <1>3, PutNowhere, QuietNowhere DEF NotRemoved, Looks, disk
<1> QED
  BY <1>2, <1>3

LEMMA StepNowhere ==
  ASSUME TypeInv, Nowhere, NEW c \in Clients, Begin(c) \/ ClientStep(c) \/ Killed(c)
  PROVE  Nowhere'
<1>1. /\ path[c] \in Paths /\ path[c] \in Trees /\ box[c] \in Containers /\ box[c] \in Trees
      /\ Empty \in Paths
  BY TreesOfClients DEF TypeInv, ControlOK, Paths
<1>2. CASE Begin(c) \/ Ask(c) \/ Killed(c)
  BY <1>2, QuietNowhere DEF Begin, Start, Ask, Killed, Looks, disk
<1>3. CASE Generate(c) \/ CheckSkeleton(c)
  BY <1>3, QuietNowhere DEF Generate, CheckSkeleton, Looks, disk
<1>4. CASE Drop(c) \/ Finally(c)
  BY <1>1, <1>4, RemovalNowhere DEF Drop, Finally
<1>5. CASE Make(c)
  <2>1. CASE CreateFails(c)
    BY <2>1, QuietNowhere DEF CreateFails
  <2>2. CASE tree' = tree /\ there' = there \cup {path[c]}
    BY <2>2 DEF Nowhere
  <2> QED
    BY <1>5, <2>1, <2>2 DEF Make
<1>6. CASE Fill(c)
  BY <1>1, <1>6, PutNowhere, QuietNowhere DEF Fill, CreateFails
<1>7. CASE UploadBundle(c)
  <2>1. CASE Validate(c) \/ Look(c) \/ AllCopied(c)
    BY <2>1, QuietNowhere DEF Validate, Look, AllCopied, Looks, disk
  <2>2. CASE Remove(c)
    BY <1>1, <2>2, PutNowhere, QuietNowhere
       DEF Remove, DirectoryRemoved, DirectoryNotRemoved, Looks, disk
  <2>3. CASE Copy(c)
    BY <1>1, <2>3, PutNowhere, QuietNowhere DEF Copy, Copied, NotCopied, Looks, disk
  <2> QED
    BY <1>7, <2>1, <2>2, <2>3 DEF UploadBundle
<1>8. CASE DownloadBundle(c)
  <2>1. CASE DownloadRemove(c)
    BY <1>1, <2>1, RemovalNowhere, QuietNowhere DEF DownloadRemove
  <2>2. CASE DownloadCopy(c)
    BY <1>1, <2>2, PutNowhere, QuietNowhere DEF DownloadCopy, Looks, disk
  <2> QED
    BY <1>8, <2>1, <2>2 DEF DownloadBundle
<1>9. CASE UploadFile(c)
  BY <1>1, <1>9, PutNowhere, QuietNowhere
     DEF UploadFile, FileLook, FileRemove, FileCopy, FileFails, Write, Looks, disk
<1> QED
  BY <1>2, <1>3, <1>4, <1>5, <1>6, <1>7, <1>8, <1>9 DEF ClientStep, GenerateBundle

-----------------------------------------------------------------------------
LEMMA KnownStep == TypeInv /\ Known /\ [Next]_vars => Known'
<1> SUFFICES ASSUME TypeInv, Known, [Next]_vars PROVE Known'
  OBVIOUS
<1>1. ASSUME NEW c \in Clients, Begin(c) \/ ClientStep(c) \/ Killed(c)
      PROVE  Known'
  <2>1. Nowhere'
    BY <1>1, StepNowhere DEF Known
  <2>2. Placed(c)' /\ (Clean(c)' => Generating(c)' /\ Uploading(c)')
    BY <1>1, BeginKnows, GenerateKnows, UploadKnows, OthersKnow DEF ClientStep
  <2>3. ASSUME NEW d \in Clients, d # c
        PROVE  Placed(d)' /\ (Clean(d)' => Generating(d)' /\ Uploading(d)')
    <3>1. Effect(c) /\ Elsewhere(c)
      BY <1>1, ClientEffect, BeginKnows, ClientElsewhere
    <3> QED
      BY <2>3, <3>1, OthersKeepKnowing DEF Known, Elsewhere
  <2> QED
    BY <2>1, <2>2, <2>3 DEF Known
<1>2. ASSUME NEW b \in Containers, AppWrites(b)
      PROVE  Known'
  <2>1. PICK e \in Directories, f \in Files, v \in Values : Write("app", b, e, f, v)
    BY <1>2 DEF AppWrites
  <2>2. Nowhere'
    BY <2>1, PutNowhere DEF Write, Trees, Known
  <2>3. ASSUME NEW c \in Clients
        PROVE  Placed(c)' /\ (Clean(c)' => Generating(c)' /\ Uploading(c)')
    <3>1. Effect("app")
      BY <1>2, <2>1, WriteEffect DEF AppWrites
    <3>2. c # "app"
      BY DataAssumption
    <3> QED
      BY <1>2, <3>1, <3>2, OthersKeepKnowing DEF Known, AppWrites, args
  <2> QED
    BY <2>2, <2>3 DEF Known
<1>3. CASE UNCHANGED vars
  BY <1>3 DEF vars, disk, args, history, Known, Nowhere, Placed, Clean, Generating, Uploading
<1> QED
  BY <1>1, <1>2, <1>3 DEF Next

LEMMA KnownAlways == Spec => [](TypeInv /\ Known)
<1>1. Init => TypeInv /\ Known
  BY TypeInvInit, KnownInit
<1>2. TypeInv /\ Known /\ [Next]_vars => (TypeInv /\ Known)'
  BY TypeInvStep, KnownStep
<1> QED
  BY <1>1, <1>2, PTL DEF Spec

-----------------------------------------------------------------------------
(* The action properties.                                                  *)

LEMMA Coded ==
  ASSUME TypeInv, NEW c \in Clients
  PROVE  /\ \A next : Goes(c, next) \/ Loops(c, next) \/ Again(c, next)
                        => result'[c] = result[c]
         /\ \A code : Exit(c, code) => result'[c] = code
         /\ Generated(c, "GenericFailure") \/ Uploaded(c, "GenericFailure")
              => result'[c] \in {result[c], "GenericFailure"}
<1>1. /\ \A next : Goes(c, next) \/ Loops(c, next) \/ Again(c, next) => result'[c] = result[c]
      /\ \A code : Exit(c, code) => result'[c] = code
  BY DEF TypeInv, ControlOK, Goes, Loops, Again, Exit
<1> QED
  BY <1>1 DEF Generated, Uploaded

LEMMA AnswerKept ==
  ASSUME TypeInv, Known, NEW c \in Clients, ClientStep(c), AnswersOkay(c), Clean(c)'
  PROVE  DataPromise(c)'
<1>1. /\ Clean(c) /\ Generating(c) /\ Uploading(c) /\ Placed(c)
      /\ path'[c] = path[c] /\ box'[c] = box[c] /\ cmd'[c] = cmd[c]
      /\ file'[c] = file[c] /\ value'[c] = value[c]
  BY StaysClean, ClientEffect, ClientElsewhere DEF Known, args
<1>2. path[c] \in Trees /\ box[c] \in Trees /\ path[c] # box[c] /\ result'[c] = "EverythingOkay"
  BY TreesOfClients DEF AnswersOkay
<1>3. ~Ask(c)
  BY <1>2, Coded DEF Ask, AnswersOkay
<1>4. CASE GenerateBundle(c)
  <2>1. CheckSkeleton(c)
    BY <1>2, <1>4, Coded
       DEF GenerateBundle, Generate, Drop, Make, Fill, CreateFails, AnswersOkay
  <2>2. path[c] \in there /\ tree[path[c]] = BlankTree
    BY <1>1, <2>1, BlankWhenFilled DEF CheckSkeleton
  <2>3. cmd[c] = "generate"
    BY <1>2, <2>1, Coded DEF CheckSkeleton, Generated, AnswersOkay
  <2> QED
    BY <1>1, <2>1, <2>2, <2>3 DEF CheckSkeleton, Looks, disk, DataPromise
<1>5. CASE UploadBundle(c)
  <2>1. AllCopied(c)
    BY <1>2, <1>5, Coded DEF UploadBundle, Validate, Look, Remove, Copy, AnswersOkay
  <2>2. tree[box[c]] = tree[path[c]]
    BY <1>1, <2>1, SameWhenCopied DEF AllCopied
  <2>3. cmd[c] = "upload"
    BY <1>2, <2>1, Coded DEF AllCopied, Uploaded, AnswersOkay
  <2> QED
    BY <1>1, <2>1, <2>2, <2>3 DEF AllCopied, Looks, disk, DataPromise
<1>6. CASE Finally(c)
  <2>1. tree[box[c]] = BlankTree /\ cmd[c] = "clear" /\ path[c] = Empty
    BY <1>1, <1>6 DEF Finally, At, Uploading, Placed
  <2>2. tree'[box[c]] = tree[box[c]]
    BY <1>2, <1>6, <2>1 DEF Finally, Removed, NotRemoved, Put, Looks, disk, TypeInv, DiskOK
  <2> QED
    BY <1>1, <2>1, <2>2 DEF DataPromise
<1>7. CASE DownloadBundle(c)
  <2>1. cmd[c] = "download"
    BY <1>1, <1>7 DEF DownloadBundle, DownloadRemove, DownloadCopy, At, Placed
  <2> QED
    BY <1>1, <2>1 DEF DataPromise
<1>8. CASE UploadFile(c)
  <2>1. /\ cmd[c] = "uploadFile" /\ value[c] \in Values
        /\ box[c] \in Containers /\ file[c] \in Files
    BY <1>1, <1>8
       DEF UploadFile, FileLook, FileRemove, FileCopy, At, Placed, TypeInv, ControlOK
  <2>2. Write(c, box[c], "Documents", file[c], value[c])
    BY <1>2, <1>8, Coded
       DEF UploadFile, FileLook, FileRemove, FileCopy, FileFails, AnswersOkay
  <2>3. /\ "Documents" \in Directories
        /\ tree[box[c]] \in Tree /\ tree[box[c]]["Documents"] \in Contents
        /\ tree'[box[c]] = [tree[box[c]] EXCEPT !["Documents"] =
                              [tree[box[c]]["Documents"] EXCEPT ![file[c]] = value[c]]]
    BY <1>2, <2>2 DEF Write, Put, TypeInv, DiskOK, Tree, Directories
  <2>4. /\ tree'[box[c]]["Documents"] = [tree[box[c]]["Documents"] EXCEPT ![file[c]] = value[c]]
        /\ tree'[box[c]]["Documents"][file[c]] = value[c]
    BY <2>1, <2>3 DEF Tree, Contents
  <2>5. tree'[box[c]]["Documents"] # Absent
    <3>1. tree'[box[c]]["Documents"] \in Contents
      BY <2>1, <2>3, <2>4 DEF Contents
    <3> QED
      BY <3>1, ContentTypes
  <2> QED
    BY <1>1, <2>1, <2>4, <2>5, DataAssumption DEF DataPromise, Exists
<1> QED
  BY <1>3, <1>4, <1>5, <1>6, <1>7, <1>8 DEF ClientStep

\* EverythingOkay of generate-xcappdata, upload-xcappdata, clear-app-data and
\* upload is true of bundle and container, if no call failed by itself and
\* nobody else changed them while the command ran, for any number of processes
\* and whatever earlier ones left behind.
THEOREM DataAnswersAreTrue == Spec => DataAnswersHold
<1>1. ASSUME TypeInv, Known, [Next]_vars, NEW c \in Clients, AnswersOkay(c),
             ~failed'[c], touched'[c] = {}
      PROVE  DataPromise(c)'
  <2>1. result'[c] # result[c] /\ result'[c] = "EverythingOkay"
    BY <1>1 DEF AnswersOkay
  <2>2. ASSUME NEW d \in Clients, Begin(d) \/ ClientStep(d) \/ Killed(d)
        PROVE  d = c /\ ClientStep(d)
    <3>1. d = c
      BY <1>1, <2>1, <2>2, BeginKnows, ClientElsewhere DEF Elsewhere
    <3>2. ~Killed(c) /\ ~Begin(c)
      BY <1>1, <2>1, Coded DEF Killed, Begin, Start
    <3> QED
      BY <2>2, <3>1, <3>2
  <2>3. ClientStep(c)
    BY <1>1, <2>1, <2>2 DEF Next, AppWrites, vars
  <2> QED
    BY <1>1, <2>3, AnswerKept DEF Clean
<1>2. TypeInv /\ Known /\ [Next]_vars
        => [\A c \in Clients : AnswersOkay(c) /\ ~failed'[c] /\ touched'[c] = {}
                                 => DataPromise(c)']_vars
  BY <1>1
<1> QED
  BY <1>2, KnownAlways, PTL DEF Spec, DataAnswersHold

\* upload without --overwrite changes no file that is in a container: it never
\* reaches the removal, and the copy takes nothing's place.
THEOREM UploadNeverOverwrites == Spec => NeverOverwritten
<1>1. ASSUME TypeInv, Known, [Next]_vars, NEW c \in Clients, pc[c] # pc'[c],
             cmd[c] = "uploadFile", ~overwrite[c], NEW b \in Containers, NEW d \in Directories,
             NEW f \in Files, tree[b][d] # Absent, tree[b][d][f] # None
      PROVE  tree'[b][d] # Absent /\ tree'[b][d][f] = tree[b][d][f]
  <2>1. Placed(c) /\ b \in Trees /\ tree[b] \in Tree
    BY <1>1 DEF Known, Trees, TypeInv, DiskOK
  <2>2. ASSUME NEW a \in Clients, Begin(a) \/ ClientStep(a) \/ Killed(a)
        PROVE  a = c
    BY <1>1, <2>2, BeginKnows, ClientElsewhere DEF Elsewhere
  <2>3. Begin(c) \/ ClientStep(c) \/ Killed(c)
    BY <1>1, <2>2 DEF Next, AppWrites, vars
  <2>4. CASE UNCHANGED tree
    BY <1>1, <2>4
  <2>5. CASE Begin(c) \/ Ask(c) \/ Killed(c)
    BY <2>4, <2>5 DEF Begin, Start, Ask, Killed, Looks, disk
  <2>6. ~(GenerateBundle(c) \/ UploadBundle(c) \/ Finally(c) \/ DownloadBundle(c) \/ FileRemove(c))
    BY <1>1, <2>1
       DEF GenerateBundle, Generate, Drop, Make, Fill, CheckSkeleton, UploadBundle, Validate,
           Look, Remove, Copy, AllCopied, Finally, DownloadBundle, DownloadRemove,
           DownloadCopy, FileRemove, At, Placed
  <2>7. CASE FileLook(c)
    BY <2>4, <2>7 DEF FileLook, FileFails, Looks, disk
  <2>8. CASE FileCopy(c)
    <3>1. CASE ~Exists(c) /\ Write(c, box[c], "Documents", file[c], value[c])
      <4>1. /\ box[c] \in Trees /\ file[c] \in Files /\ tree[box[c]] \in Tree
            /\ tree[box[c]]["Documents"] # Absent
            /\ tree[box[c]]["Documents"][file[c]] = None
        BY <1>1, <3>1, TreesOfClients DEF TypeInv, DiskOK, ControlOK, Exists, Write
      <4>2. /\ "Documents" \in Directories
            /\ tree' = [tree EXCEPT ![box[c]] = [tree[box[c]] EXCEPT !["Documents"] =
                              [tree[box[c]]["Documents"] EXCEPT ![file[c]] = value[c]]]]
        BY <3>1 DEF Write, Put, Directories
      <4>3. CASE b # box[c] \/ d # "Documents"
        <5>1. tree'[b][d] = tree[b][d]
          BY <1>1, <2>1, <4>1, <4>2, <4>3 DEF TypeInv, DiskOK, Tree
        <5> QED
          BY <1>1, <5>1
      <4>4. CASE b = box[c] /\ d = "Documents"
        <5>1. f # file[c] /\ tree[b][d] \in Contents
          BY <1>1, <2>1, <4>1, <4>4 DEF Tree
        <5>2. tree'[b][d] = [tree[b][d] EXCEPT ![file[c]] = value[c]]
          BY <1>1, <2>1, <4>1, <4>2, <4>4 DEF TypeInv, DiskOK, Tree
        <5>3. [tree[b][d] EXCEPT ![file[c]] = value[c]] \in Contents
          BY <1>1, <4>1, <5>1 DEF Contents, TypeInv, ControlOK
        <5> QED
          BY <5>1, <5>2, <5>3, ContentTypes DEF Contents
      <4> QED
        BY <4>3, <4>4
    <3> QED
      BY <2>4, <2>8, <3>1 DEF FileCopy, FileFails, Looks, disk
  <2> QED
    BY <2>3, <2>5, <2>6, <2>7, <2>8 DEF ClientStep, UploadFile
<1>2. TypeInv /\ Known /\ [Next]_vars
        => [\A c \in Clients : pc[c] # pc'[c] /\ cmd[c] = "uploadFile" /\ ~overwrite[c]
              => \A b \in Containers, d \in Directories, f \in Files :
                   tree[b][d] # Absent /\ tree[b][d][f] # None
                     => tree'[b][d] # Absent /\ tree'[b][d][f] = tree[b][d][f]]_vars
  BY <1>1
<1> QED
  BY <1>2, KnownAlways, PTL DEF Spec, NeverOverwritten

-----------------------------------------------------------------------------
(***************************************************************************)
(* The temporary bundle: somebody still has it to remove, or has told.     *)
(***************************************************************************)
\* clear-app-data has come to the point from which it goes on to @finally.
Minding(c) ==
  cmd[c] = "clear" /\ pc[c] \in {"drop", "make", "fill", "validate", "target", "remove",
                                 "copy", "finally"}

Accounts(c) == Minding(c) \/ warned[c] \/ result[c] \in {"Killed", "Crashed"}

\* Nobody else works at its path, and who was killed or crashed has ended.
Apart(c) == /\ cmd[c] \in {"generate", "download"} => path[c] # Empty
            /\ result[c] \in {"Killed", "Crashed"} => pc[c] = "done"

LeftInv == /\ \A c \in Clients : Apart(c)
           /\ Empty \in there => \E c \in Clients : Accounts(c)

LEMMA LeftInit == Init => LeftInv
  BY DataAssumption DEF Init, LeftInv, Apart

\* What the helpers do to warned.
LEMMA WarnsOnly ==
  ASSUME TypeInv, NEW c \in Clients, ClientStep(c) \/ Killed(c)
  PROVE  warned' = warned \/ (Finally(c) /\ warned' = [warned EXCEPT ![c] = TRUE])
<1>1. /\ \A next : Goes(c, next) \/ Loops(c, next) \/ Again(c, next) => UNCHANGED warned
      /\ \A code : \/ Exit(c, code) \/ Generated(c, code) \/ Uploaded(c, code)
                   => UNCHANGED warned
  BY DEF Goes, Loops, Again, Exit, Generated, Uploaded
<1>2. CASE Ask(c) \/ Killed(c)
  BY <1>1, <1>2 DEF Ask, Killed
<1>3. CASE GenerateBundle(c)
  BY <1>1, <1>3 DEF GenerateBundle, Generate, Drop, Make, Fill, CheckSkeleton, CreateFails
<1>4. CASE UploadBundle(c)
  BY <1>1, <1>4 DEF UploadBundle, Validate, Look, Remove, Copy, AllCopied
<1>5. CASE Finally(c)
  BY <1>1, <1>5 DEF Finally
<1>6. CASE DownloadBundle(c) \/ UploadFile(c)
  BY <1>1, <1>6 DEF DownloadBundle, DownloadRemove, DownloadCopy, UploadFile, FileLook,
                    FileRemove, FileCopy, FileFails
<1> QED
  BY <1>2, <1>3, <1>4, <1>5, <1>6 DEF ClientStep

\* Where a client of clear-app-data goes from a place where it minds.
LEMMA MindsOn ==
  ASSUME TypeInv, NEW c \in Clients, UNCHANGED args, cmd[c] = "clear",
         NEW next \in {"drop", "make", "fill", "validate", "target", "remove", "copy",
                       "finally"},
         NEW code,
         \/ Goes(c, next) \/ Loops(c, next) \/ Again(c, next)
         \/ Generated(c, code) \/ Uploaded(c, code)
  PROVE  Minding(c)'
<1>1. /\ cmd'[c] = cmd[c]
      /\ \A there_ : Goto(c, there_) => pc'[c] = there_
  BY DEF args, TypeInv, ControlOK, Goto
<1> QED
  BY <1>1 DEF Goes, Loops, Again, Generated, Uploaded, Minding

LEMMA StepAccounts ==
  ASSUME TypeInv, Known, NEW c \in Clients, Apart(c), ClientStep(c) \/ Killed(c),
         Empty \in there', Accounts(c) \/ Empty \notin there
  PROVE  Accounts(c)'
<1>0. Placed(c) /\ UNCHANGED args
  BY ClientElsewhere DEF Known
<1>1. CASE warned[c]
  BY <1>1, WarnsOnly DEF Accounts, TypeInv, ControlOK
<1>2. pc[c] # "done"
  BY DEF ClientStep, Killed, Running, Ask, GenerateBundle, Generate, Drop, Make, Fill,
         CheckSkeleton, UploadBundle, Validate, Look, Remove, Copy, AllCopied, Finally,
         DownloadBundle, DownloadRemove, DownloadCopy, UploadFile, FileLook, FileRemove,
         FileCopy, At
<1>3. ~warned[c] /\ Accounts(c) => Minding(c)
  BY <1>2 DEF Accounts, Apart
<1>4. CASE ~warned[c] /\ Killed(c)
  <2>1. result'[c] = "Killed"
    BY <1>4, Coded DEF Killed
  <2> QED
    BY <2>1 DEF Accounts
<1>5. CASE ~warned[c] /\ Ask(c)
  BY <1>3, <1>5 DEF Ask, At, Minding, Looks, disk
<1>6. CASE ~warned[c] /\ GenerateBundle(c)
  <2>1. cmd[c] \in {"generate", "clear"}
    BY <1>0, <1>6 DEF GenerateBundle, Generate, Drop, Make, Fill, CheckSkeleton, At, Placed
  <2>2. CASE cmd[c] = "clear"
    BY <1>0, <1>6, <2>2, MindsOn
       DEF GenerateBundle, Generate, Drop, Make, Fill, CheckSkeleton, CreateFails, Accounts
  <2>3. CASE cmd[c] = "generate"
    <3>1. path[c] # Empty /\ ~Minding(c)
      BY <2>3 DEF Apart, Minding
    <3>2. there' \subseteq there \cup {path[c]}
      BY <1>6 DEF GenerateBundle, Generate, Drop, Make, Fill, CheckSkeleton, CreateFails,
                  Removed, NotRemoved, Looks, disk
    <3> QED
      BY <1>3, <1>6, <3>1, <3>2
  <2> QED
    BY <2>1, <2>2, <2>3
<1>7. CASE ~warned[c] /\ UploadBundle(c)
  <2>1. UNCHANGED there
    BY <1>7 DEF UploadBundle, Validate, Look, Remove, Copy, AllCopied, Looks, disk,
                DirectoryRemoved, DirectoryNotRemoved, Copied, NotCopied
  <2>2. cmd[c] = "clear"
    BY <1>3, <1>7, <2>1 DEF Minding
  <2>3. CASE Exit(c, "Crashed")
    BY <2>3, Coded DEF Accounts
  <2>4. CASE ~Exit(c, "Crashed")
    BY <1>0, <1>7, <2>2, <2>4, MindsOn
       DEF UploadBundle, Validate, Look, Remove, Copy, AllCopied, Accounts
  <2> QED
    BY <2>3, <2>4
<1>8. CASE ~warned[c] /\ Finally(c)
  <2>1. ~Removed(c, Empty)
    BY DEF Removed
  <2>2. warned' = [warned EXCEPT ![c] = TRUE]
    BY <1>8, <2>1 DEF Finally
  <2> QED
    BY <2>2 DEF Accounts, TypeInv, ControlOK
<1>9. CASE ~warned[c] /\ DownloadBundle(c)
  <2>1. cmd[c] = "download"
    BY <1>0, <1>9 DEF DownloadBundle, DownloadRemove, DownloadCopy, At, Placed
  <2>2. path[c] # Empty /\ ~Minding(c)
    BY <2>1 DEF Apart, Minding
  <2>3. there' \subseteq there \cup {path[c]}
    BY <1>9 DEF DownloadBundle, DownloadRemove, DownloadCopy, Removed, NotRemoved, Looks,
                disk
  <2> QED
    BY <1>3, <1>9, <2>2, <2>3
<1>10. CASE ~warned[c] /\ UploadFile(c)
  <2>1. cmd[c] = "uploadFile"
    BY <1>0, <1>10 DEF UploadFile, FileLook, FileRemove, FileCopy, At, Placed
  <2>2. UNCHANGED there
    BY <1>10 DEF UploadFile, FileLook, FileRemove, FileCopy, FileFails, Write, Looks, disk
  <2> QED
    BY <1>3, <1>10, <2>1, <2>2 DEF Minding
<1> QED
  BY <1>1, <1>4, <1>5, <1>6, <1>7, <1>8, <1>9, <1>10 DEF ClientStep

\* A client that has ended, or not begun, is not killed, and none begins twice.
LEMMA ApartKept ==
  ASSUME TypeInv, NEW c \in Clients, Apart(c), ClientStep(c) \/ Killed(c)
  PROVE  Apart(c)'
<1>1. UNCHANGED args
  BY ClientElsewhere
<1>2. /\ \A next : Goes(c, next) \/ Loops(c, next) \/ Again(c, next)
                     => result'[c] = result[c]
      /\ \A code : Exit(c, code) => pc'[c] = "done"
      /\ \A code : Generated(c, code) \/ Uploaded(c, code)
                     => result'[c] = result[c] \/ pc'[c] = "done"
  BY DEF TypeInv, ControlOK, Goes, Loops, Again, Exit, Goto, Generated, Uploaded
<1>3. result'[c] = result[c] \/ pc'[c] = "done"
  <2>1. CASE Ask(c) \/ Killed(c)
    BY <1>2, <2>1 DEF Ask, Killed
  <2>2. CASE GenerateBundle(c)
    BY <1>2, <2>2
       DEF GenerateBundle, Generate, Drop, Make, Fill, CheckSkeleton, CreateFails
  <2>3. CASE UploadBundle(c)
    BY <1>2, <2>3 DEF UploadBundle, Validate, Look, Remove, Copy, AllCopied
  <2>4. CASE Finally(c)
    BY <1>2, <2>4 DEF Finally, Goto, TypeInv, ControlOK
  <2>5. CASE DownloadBundle(c) \/ UploadFile(c)
    BY <1>2, <2>5 DEF DownloadBundle, DownloadRemove, DownloadCopy, UploadFile, FileLook,
                      FileRemove, FileCopy, FileFails
  <2> QED
    BY <2>1, <2>2, <2>3, <2>4, <2>5 DEF ClientStep
<1>4. pc[c] # "done"
  BY DEF ClientStep, Killed, Running, Ask, GenerateBundle, Generate, Drop, Make, Fill,
         CheckSkeleton, UploadBundle, Validate, Look, Remove, Copy, AllCopied, Finally,
         DownloadBundle, DownloadRemove, DownloadCopy, UploadFile, FileLook, FileRemove,
         FileCopy, At
<1> QED
  BY <1>1, <1>3, <1>4 DEF Apart, args

LEMMA BeginApart ==
  ASSUME TypeInv, NEW c \in Clients, Apart(c), Begin(c)
  PROVE  /\ Apart(c)' /\ UNCHANGED <<there, result, warned>> /\ ~Minding(c)
         /\ \A x \in Clients : x # c => pc'[x] = pc[x] /\ cmd'[x] = cmd[x] /\ path'[x] = path[x]
<1>0. /\ path[c] \in Paths /\ pc \in [Clients -> Places] /\ cmd \in [Clients -> Commands]
      /\ path \in [Clients -> Paths]
  BY DEF TypeInv, ControlOK
<1> DEFINE Starts(command, p) ==
             /\ At(c, "idle") /\ UNCHANGED <<there, result, warned>>
             /\ cmd' = [cmd EXCEPT ![c] = command] /\ path' = [path EXCEPT ![c] = p]
             /\ \E place \in {"generate", "ask"} : Goto(c, place)
<1>1. \A command, b, p, f, v, over : Start(c, command, b, p, f, v, over) => Starts(command, p)
  BY DEF Start, disk, history
<1>2. \E command \in Commands, p \in Paths :
        Starts(command, p) /\ (command \in {"generate", "download"} => p # Empty)
  <2> HIDE DEF Starts
  <2>1. ASSUME NEW p \in Bundles, NEW over,
               Start(c, "generate", box[c], p, file[c], None, over)
        PROVE  Starts("generate", p) /\ p \in Paths /\ p # Empty
    BY <1>1, <2>1, DataAssumption DEF Paths
  <2>2. ASSUME NEW b, NEW p \in Bundles, Start(c, "upload", b, p, file[c], None, FALSE)
        PROVE  Starts("upload", p) /\ p \in Paths
    BY <1>1, <2>2 DEF Paths
  <2>3. ASSUME NEW b, NEW p \in Downloads, Start(c, "download", b, p, file[c], None, FALSE)
        PROVE  Starts("download", p) /\ p \in Paths /\ p # Empty
    BY <1>1, <2>3, DataAssumption DEF Paths
  <2>4. ASSUME NEW b, Start(c, "clear", b, Empty, file[c], None, TRUE)
        PROVE  Starts("clear", Empty) /\ Empty \in Paths
    BY <1>1, <2>4 DEF Paths
  <2>5. ASSUME NEW b, NEW f, NEW v, NEW over, Start(c, "uploadFile", b, path[c], f, v, over)
        PROVE  Starts("uploadFile", path[c])
    BY <1>1, <2>5
  <2> QED
    BY <1>0, <2>1, <2>2, <2>3, <2>4, <2>5 DEF Begin, Commands
<1>3. PICK command \in Commands, p \in Paths :
        Starts(command, p) /\ (command \in {"generate", "download"} => p # Empty)
  BY <1>2
<1>4. result[c] \notin {"Killed", "Crashed"} /\ pc[c] = "idle"
  BY <1>3 DEF At, Apart
<1> QED
  BY <1>0, <1>3, <1>4 DEF Goto, Apart, Minding

LEMMA LeftStep == TypeInv /\ Known /\ LeftInv /\ [Next]_vars => LeftInv'
<1> SUFFICES ASSUME TypeInv, Known, LeftInv, [Next]_vars PROVE LeftInv'
  OBVIOUS
<1>1. CASE UNCHANGED vars
  BY <1>1 DEF vars, disk, args, history, LeftInv, Apart, Accounts, Minding
<1>2. ASSUME NEW b \in Containers, AppWrites(b) PROVE LeftInv'
  BY <1>2 DEF AppWrites, Write, args, LeftInv, Apart, Accounts, Minding
<1>3. ASSUME NEW c \in Clients, Begin(c) PROVE LeftInv'
  <2>1. \A x \in Clients : Apart(x)' /\ (Accounts(x) => Accounts(x)')
    BY <1>3, BeginApart DEF LeftInv, Apart, Accounts, Minding
  <2> QED
    BY <1>3, <2>1, BeginApart DEF LeftInv
<1>4. ASSUME NEW c \in Clients, ClientStep(c) \/ Killed(c) PROVE LeftInv'
  <2>1. \A x \in Clients : x # c => Apart(x)' /\ (Accounts(x) => Accounts(x)')
    BY <1>4, ClientElsewhere, WarnsOnly
       DEF Elsewhere, LeftInv, Apart, Accounts, Minding, TypeInv, ControlOK
  <2>2. Apart(c)'
    BY <1>4, ApartKept DEF LeftInv
  <2>3. Empty \in there' => \E x \in Clients : Accounts(x)'
    BY <1>4, <2>1, StepAccounts DEF LeftInv
  <2> QED
    BY <2>1, <2>2, <2>3 DEF LeftInv
<1> QED
  BY <1>1, <1>2, <1>3, <1>4 DEF Next

\* A temporary bundle that is left when all have ended has been told of, for any
\* number of processes that share it and whatever fails.
THEOREM LeftoversAreTold == Spec => []LeftoverIsReported
<1>1. LeftInv => LeftoverIsReported
  BY DEF LeftInv, LeftoverIsReported, Accounts, Minding, Running
<1> QED
  BY <1>1, LeftInit, LeftStep, KnownAlways, PTL DEF Spec
=============================================================================
