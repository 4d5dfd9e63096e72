--------------------------- MODULE DataContainers ---------------------------
(***************************************************************************)
(* Moving data in and out of the containers of apps on a simulator:        *)
(* generate-xcappdata, upload-xcappdata, download-xcappdata, upload and    *)
(* clear-app-data, run by several processes at once.                       *)
(*                                                                         *)
(* Each call of NSFileManager is a step.  It may fail for a reason of its  *)
(* own (failed), having done a part of its work, and what it finds may be  *)
(* other than what an earlier step saw.  clear-app-data uploads a bundle   *)
(* it generates at a path that is the same for every process.  A process   *)
(* may be killed between any two steps.                                    *)
(*                                                                         *)
(* A container or bundle is a tree of the three directories that are moved;*)
(* a directory has a value, or None, for each file name.                   *)
(***************************************************************************)
EXTENDS Naturals, Sequences

CONSTANTS Clients,      \* iOSDeviceManager processes
          Containers,   \* data containers of installed apps
          Bundles,      \* paths of .xcappdata bundles of the user
          Downloads,    \* paths to download to
          Files,        \* file names
          Values,       \* contents of a file
          MaxActs,      \* bound on the acts of the apps and failures of the disk
          Absent,       \* no such directory
          None          \* no such file

Empty == "Empty.xcappdata"   \* in NSTemporaryDirectory()

Paths == Bundles \cup Downloads \cup {Empty}
Trees == Containers \cup Paths

ASSUME DataAssumption ==
  /\ Containers # {} /\ Bundles # {} /\ Downloads # {} /\ Files # {}
  /\ Containers \cap Paths = {}
  /\ Bundles \cap Downloads = {} /\ Empty \notin Bundles \cup Downloads
  /\ None \notin Values /\ Absent \notin [Files -> Values \cup {None}]
  /\ MaxActs \in Nat
  /\ "app" \notin Clients

Directories == {"Documents", "Library", "tmp"}
Targets == <<"Documents", "Library", "tmp">>    \* in the order of the upload
Skeleton == <<"Documents", "tmp", "Library">>   \* and of the generation

Commands == {"none", "generate", "upload", "download", "clear", "uploadFile"}

Places == {"idle", "ask", "generate", "drop", "make", "fill", "validate", "target",
           "remove", "copy", "finally", "downloadRemove", "downloadCopy", "fileLook",
           "fileRemove", "fileCopy", "done"}

\* Exit codes, and the ends that are none.
Codes == {"none", "EverythingOkay", "GenericFailure", "False", "InvalidArguments",
          "Killed", "Crashed"}

Contents == [Files -> Values \cup {None}]
Blank == [f \in Files |-> None]

\* What a removal or copy of a directory that fails may leave of it.
Parts(content) == {e \in Contents : \A f \in Files : e[f] \in {content[f], None}}

NoTree == [d \in Directories |-> Absent]
BlankTree == [d \in Directories |-> Blank]

VARIABLES tree,       \* what is in each container and at each path
          there,      \* paths at which there is a directory
          acts,       \* of the apps and of the file system by themselves so far
          pc, cmd,    \* where each client is, and its command
          box,        \* the container the command names
          path,       \* the path it names, or Empty
          file, value,  \* what upload uploads
          overwrite,  \* --overwrite
          index,      \* of the loops over directories
          result,     \* the exit code
          warned,     \* history: it came to the warning of @finally
          failed,     \* history: a call of the client failed by itself
          touched     \* history: its trees that others changed meanwhile

disk == <<tree, there, acts>>
args == <<cmd, box, path, file, value, overwrite>>
history == <<warned, failed, touched>>
vars == <<disk, pc, args, index, result, history>>

\* Trees of one content; a bundle the user made, or a container an upload failed
\* on, may lack its directories.
Uniform == {[d \in Directories |-> content] : content \in Contents \cup {Absent}}

Init ==
  /\ there \in SUBSET (Bundles \cup Downloads)
  /\ tree \in [Trees -> Uniform]
  /\ \A p \in (Paths \ there) \cup Downloads : tree[p] = NoTree
  /\ acts = 0
  /\ pc = [c \in Clients |-> "idle"]
  /\ cmd = [c \in Clients |-> "none"]
  /\ box = [c \in Clients |-> CHOOSE b \in Containers : TRUE]
  /\ path = [c \in Clients |-> Empty]
  /\ file = [c \in Clients |-> CHOOSE f \in Files : TRUE]
  /\ value = [c \in Clients |-> None]
  /\ overwrite = [c \in Clients |-> FALSE]
  /\ index = [c \in Clients |-> 1]
  /\ result = [c \in Clients |-> "none"]
  /\ warned = [c \in Clients |-> FALSE]
  /\ failed = [c \in Clients |-> FALSE]
  /\ touched = [c \in Clients |-> {}]

-----------------------------------------------------------------------------
At(c, here) == pc[c] = here
Goto(c, place) == pc' = [pc EXCEPT ![c] = place]

\* Client c goes on, its index as it is; at the first or the next directory.
Goes(c, next) == Goto(c, next) /\ UNCHANGED <<args, index, result, warned>>
Loops(c, next) == /\ Goto(c, next)
                  /\ index' = [index EXCEPT ![c] = 1]
                  /\ UNCHANGED <<args, result, warned>>
Again(c, next) == /\ Goto(c, next)
                  /\ index' = [index EXCEPT ![c] = @ + 1]
                  /\ UNCHANGED <<args, result, warned>>

Exit(c, code) ==
  /\ Goto(c, "done")
  /\ index' = [index EXCEPT ![c] = 1]
  /\ result' = [result EXCEPT ![c] = code]
  /\ UNCHANGED <<args, warned>>

Running(c) == pc[c] \notin {"idle", "done"}

\* The disk is as it was; the call at hand is no failure of its own, or one.
Looks == UNCHANGED <<disk, failed, touched>>
Fails(c) == /\ acts < MaxActs /\ acts' = acts + 1
            /\ failed' = [failed EXCEPT ![c] = TRUE]

\* Actor changes tree t.
Touches(actor, t) ==
  touched' = [d \in Clients |-> IF d # actor /\ Running(d) /\ t \in {box[d], path[d]}
                                THEN touched[d] \cup {t} ELSE touched[d]]

Put(actor, t, contents) ==
  /\ tree' = [tree EXCEPT ![t] = contents]
  /\ Touches(actor, t)

\* removeItemAtPath:error: of the directory at path p.
Removed(c, p) ==
  /\ p \in there
  /\ there' = there \ {p}
  /\ Put(c, p, NoTree)
  /\ UNCHANGED <<acts, failed>>

NotRemoved(c, p) ==
  \/ p \notin there /\ Looks
  \/ /\ p \in there /\ UNCHANGED there
     /\ Fails(c)
     /\ \E gone \in SUBSET Directories :
          Put(c, p, [d \in Directories |-> IF d \in gone THEN Absent ELSE tree[p][d]])

\* The same of directory d of tree t.
DirectoryRemoved(c, t, d) ==
  /\ tree[t][d] # Absent
  /\ Put(c, t, [tree[t] EXCEPT ![d] = Absent])
  /\ UNCHANGED <<there, acts, warned, failed>>

DirectoryNotRemoved(c, t, d) ==
  \/ tree[t][d] = Absent /\ Looks
  \/ /\ tree[t][d] # Absent /\ UNCHANGED there
     /\ Fails(c)
     /\ \E left \in Parts(tree[t][d]) : Put(c, t, [tree[t] EXCEPT ![d] = left])

\* [self isInstalled:bundleID withError:nil] comes first in every command.
Ask(c) ==
  /\ At(c, "ask")
  /\ Looks
  /\ \/ Goes(c, CASE cmd[c] = "clear"    -> "generate"
                  [] cmd[c] = "upload"   -> "validate"
                  [] cmd[c] = "download" -> "downloadRemove"
                  [] OTHER               -> "fileLook")
     \/ Exit(c, IF cmd[c] = "upload" THEN "GenericFailure" ELSE "False")

-----------------------------------------------------------------------------
(***************************************************************************)
(* generateBundleSkeleton:name:overwrite:, a command and the first half of *)
(* clear-app-data, which does not look at what it returns.                 *)
(***************************************************************************)
Generated(c, code) ==
  \/ cmd[c] = "generate" /\ Exit(c, code)
  \/ cmd[c] = "clear" /\ Goes(c, "validate")

Generate(c) ==
  /\ At(c, "generate")
  /\ Looks
  /\ \/ path[c] \notin there /\ Goes(c, "make")
     \/ path[c] \in there /\ overwrite[c] /\ Goes(c, "drop")
     \/ path[c] \in there /\ ~overwrite[c] /\ Generated(c, "GenericFailure")

Drop(c) ==
  /\ At(c, "drop")
  /\ \/ Removed(c, path[c]) /\ Goes(c, "make")
     \/ NotRemoved(c, path[c]) /\ Generated(c, "GenericFailure")

\* createDirectoryAtPath: succeeds on what is there, and makes what is missing
\* on the way.
CreateFails(c) ==
  /\ Fails(c) /\ UNCHANGED <<tree, there, touched>>
  /\ Generated(c, "GenericFailure")

Make(c) ==
  /\ At(c, "make")
  /\ \/ /\ there' = there \cup {path[c]}
        /\ Touches(c, path[c])
        /\ Loops(c, "fill")
        /\ UNCHANGED <<tree, acts, warned, failed>>
     \/ CreateFails(c)

Fill(c) ==
  /\ At(c, "fill") /\ index[c] <= Len(Skeleton)
  /\ LET d == Skeleton[index[c]] IN
       \/ /\ there' = there \cup {path[c]}
          /\ Put(c, path[c], IF tree[path[c]][d] = Absent
                             THEN [tree[path[c]] EXCEPT ![d] = Blank]
                             ELSE tree[path[c]])
          /\ Again(c, "fill")
          /\ UNCHANGED <<acts, failed>>
       \/ CreateFails(c)

\* +[XCAppDataBundle isValid:]
Valid(p) == p \in there /\ \A d \in Directories : tree[p][d] # Absent

CheckSkeleton(c) ==
  /\ At(c, "fill") /\ index[c] > Len(Skeleton)
  /\ Looks
  /\ Generated(c, IF Valid(path[c]) THEN "EverythingOkay" ELSE "GenericFailure")

GenerateBundle(c) == \/ Generate(c) \/ Drop(c) \/ Make(c) \/ Fill(c)
                     \/ CheckSkeleton(c)

-----------------------------------------------------------------------------
(***************************************************************************)
(* uploadXCAppDataBundle:forApplication:, a command and the second half of *)
(* clear-app-data, which does not look at what it returns.                 *)
(***************************************************************************)
UploadedOrLeft(c, code) == \* variant: the temporary bundle is removed on success only
  \/ (cmd[c] = "upload" \/ code # "EverythingOkay") /\ Exit(c, code)
  \/ cmd[c] = "clear" /\ code = "EverythingOkay" /\ Goes(c, "finally")

Uploaded(c, code) ==
  \/ cmd[c] = "upload" /\ Exit(c, code)
  \/ cmd[c] = "clear" /\ Goes(c, "finally")

\* isValid:, then containerPathForApplication:, which may find none.
Validate(c) ==
  /\ At(c, "validate")
  /\ \/ Valid(path[c]) /\ Loops(c, "target") /\ Looks
     \/ ~Valid(path[c]) /\ Uploaded(c, "GenericFailure") /\ Looks
     \/ /\ Uploaded(c, "GenericFailure")
        /\ Fails(c) /\ UNCHANGED <<tree, there, touched>>

LookAway(c) == \* variant: what is there is not removed first
  /\ At(c, "target") /\ index[c] <= Len(Targets)
  /\ Looks
  /\ Goes(c, "copy")

Look(c) ==
  /\ At(c, "target") /\ index[c] <= Len(Targets)
  /\ Looks
  /\ Goes(c, IF tree[box[c]][Targets[index[c]]] = Absent THEN "copy" ELSE "remove")

\* The message for a removal that fails passes a C string where its format has an
\* object, here and in Finally: undefined, and the process may crash on it.
Remove(c) ==
  /\ At(c, "remove")
  /\ LET d == Targets[index[c]] IN
       \/ DirectoryRemoved(c, box[c], d) /\ Goes(c, "copy")
       \/ /\ DirectoryNotRemoved(c, box[c], d)
        /\ (Uploaded(c, "GenericFailure") \/ Exit(c, "Crashed"))

\* copyItemAtPath:toPath:error: copies nothing onto what is there.
Copied(c, d) ==
  /\ tree[path[c]][d] # Absent /\ tree[box[c]][d] = Absent
  /\ Put(c, box[c], [tree[box[c]] EXCEPT ![d] = tree[path[c]][d]])
  /\ UNCHANGED <<there, acts, warned, failed>>

NotCopied(c, d) ==
  \/ (tree[path[c]][d] = Absent \/ tree[box[c]][d] # Absent) /\ Looks
  \/ /\ tree[path[c]][d] # Absent /\ tree[box[c]][d] = Absent
     /\ Fails(c) /\ UNCHANGED there
     /\ \E part \in Parts(tree[path[c]][d]) \cup {Absent} :
          Put(c, box[c], [tree[box[c]] EXCEPT ![d] = part])

CopyAndSkip(c) == \* variant: a copy that fails passes over the next directory, too
  /\ At(c, "copy")
  /\ LET d == Targets[index[c]] IN
       \/ Copied(c, d) /\ Again(c, "target")
       \/ /\ NotCopied(c, d) /\ Goto(c, "target")
          /\ index' = [index EXCEPT ![c] = @ + 2]
          /\ UNCHANGED <<args, result, warned>>

\* A copy that fails is logged and the loop goes on.
Copy(c) ==
  /\ At(c, "copy")
  /\ LET d == Targets[index[c]] IN Copied(c, d) \/ NotCopied(c, d)
  /\ Again(c, "target")

AllCopied(c) ==
  /\ At(c, "target") /\ index[c] > Len(Targets)
  /\ Uploaded(c, "EverythingOkay")
  /\ Looks

UploadBundle(c) == \/ Validate(c) \/ Look(c) \/ Remove(c) \/ Copy(c) \/ AllCopied(c)

\* @finally: the temporary bundle is removed, or a warning is written.
Finally(c) ==
  /\ At(c, "finally")
  /\ \/ Removed(c, Empty) /\ Exit(c, "EverythingOkay")
     \/ /\ NotRemoved(c, Empty)
        /\ warned' = [warned EXCEPT ![c] = TRUE]
        /\ Goto(c, "done")
        /\ index' = [index EXCEPT ![c] = 1]
        /\ \E code \in {"EverythingOkay", "Crashed"} : result' = [result EXCEPT ![c] = code]
        /\ UNCHANGED args

-----------------------------------------------------------------------------
(***************************************************************************)
(* downloadXCAppDataBundleForApplication:toPath:, whose answer the command *)
(* does not look at: it is EverythingOkay.                                 *)
(***************************************************************************)
DownloadRemove(c) ==
  /\ At(c, "downloadRemove")
  /\ \/ Removed(c, path[c]) /\ Goes(c, "downloadCopy")
     \/ NotRemoved(c, path[c]) /\ Exit(c, "EverythingOkay")
     \/ /\ Fails(c) /\ UNCHANGED <<tree, there, touched>>  \* no container found
        /\ Exit(c, "EverythingOkay")

DownloadCopy(c) ==
  /\ At(c, "downloadCopy")
  /\ Exit(c, "EverythingOkay")
  /\ \/ path[c] \in there /\ Looks
     \/ /\ path[c] \notin there
        /\ there' = there \cup {path[c]}
        /\ Put(c, path[c], tree[box[c]])
        /\ UNCHANGED <<acts, failed>>
     \/ /\ path[c] \notin there
        /\ Fails(c)
        /\ \/ UNCHANGED <<tree, there, touched>>
           \/ /\ there' = there \cup {path[c]}
              /\ \E gone \in SUBSET Directories :
                   Put(c, path[c], [d \in Directories |->
                                      IF d \in gone THEN Absent ELSE tree[box[c]][d]])

DownloadBundle(c) == DownloadRemove(c) \/ DownloadCopy(c)

-----------------------------------------------------------------------------
(***************************************************************************)
(* uploadFile:forApplication:overwrite:, into Documents.                   *)
(***************************************************************************)
Exists(c) == /\ tree[box[c]]["Documents"] # Absent
             /\ tree[box[c]]["Documents"][file[c]] # None

Write(actor, b, d, f, v) ==
  /\ tree[b][d] # Absent
  /\ Put(actor, b, [tree[b] EXCEPT ![d] = [tree[b][d] EXCEPT ![f] = v]])
  /\ UNCHANGED there

FileFails(c, code) == /\ Fails(c) /\ UNCHANGED <<tree, there, touched>>
                      /\ Exit(c, code)

\* The file itself may be missing, or the container.
FileLook(c) ==
  /\ At(c, "fileLook")
  /\ \/ FileFails(c, "InvalidArguments")
     \/ FileFails(c, "GenericFailure")
     \/ Exists(c) /\ ~overwrite[c] /\ Exit(c, "GenericFailure") /\ Looks
     \/ Exists(c) /\ overwrite[c] /\ Goes(c, "fileRemove") /\ Looks
     \/ ~Exists(c) /\ Goes(c, "fileCopy") /\ Looks

FileRemove(c) ==
  /\ At(c, "fileRemove")
  /\ \/ /\ Exists(c)
        /\ Write(c, box[c], "Documents", file[c], None)
        /\ UNCHANGED <<acts, failed>>
        /\ Goes(c, "fileCopy")
     \/ ~Exists(c) /\ Exit(c, "GenericFailure") /\ Looks
     \/ FileFails(c, "GenericFailure")

FileCopyOver(c) == \* variant: what has appeared since it was looked for is replaced
  /\ At(c, "fileCopy")
  /\ Write(c, box[c], "Documents", file[c], value[c])
  /\ UNCHANGED <<acts, failed>>
  /\ Exit(c, "EverythingOkay")

FileCopy(c) ==
  /\ At(c, "fileCopy")
  /\ \/ /\ ~Exists(c)
        /\ Write(c, box[c], "Documents", file[c], value[c])
        /\ UNCHANGED <<acts, failed>>
        /\ Exit(c, "EverythingOkay")
     \/ /\ Exists(c) \/ tree[box[c]]["Documents"] = Absent
        /\ Exit(c, "GenericFailure") /\ Looks
     \/ FileFails(c, "GenericFailure")

UploadFile(c) == FileLook(c) \/ FileRemove(c) \/ FileCopy(c)

-----------------------------------------------------------------------------
Start(c, command, b, p, f, v, over) ==
  /\ At(c, "idle")
  /\ cmd' = [cmd EXCEPT ![c] = command]
  /\ box' = [box EXCEPT ![c] = b]
  /\ path' = [path EXCEPT ![c] = p]
  /\ file' = [file EXCEPT ![c] = f]
  /\ value' = [value EXCEPT ![c] = v]
  /\ overwrite' = [overwrite EXCEPT ![c] = over]
  /\ Goto(c, IF command = "generate" THEN "generate" ELSE "ask")
  /\ UNCHANGED <<disk, index, result, history>>

Begin(c) ==
  \/ \E p \in Bundles, over \in BOOLEAN :
       Start(c, "generate", box[c], p, file[c], None, over)
  \/ \E b \in Containers :
       \/ \E p \in Bundles : Start(c, "upload", b, p, file[c], None, FALSE)
       \/ \E p \in Downloads : Start(c, "download", b, p, file[c], None, FALSE)
       \/ Start(c, "clear", b, Empty, file[c], None, TRUE)
       \/ \E f \in Files, v \in Values, over \in BOOLEAN :
            Start(c, "uploadFile", b, path[c], f, v, over)

ClientStep(c) == \/ Ask(c) \/ GenerateBundle(c) \/ UploadBundle(c) \/ Finally(c)
                 \/ DownloadBundle(c) \/ UploadFile(c)

\* A process is killed: no @finally is run.
Killed(c) == Running(c) /\ Exit(c, "Killed") /\ Looks

\* An app writes a file of its own.
AppWrites(b) ==
  /\ acts < MaxActs
  /\ acts' = acts + 1
  /\ \E d \in Directories, f \in Files, v \in Values : Write("app", b, d, f, v)
  /\ UNCHANGED <<pc, args, index, result, warned, failed>>

Next == \/ \E c \in Clients : Begin(c) \/ ClientStep(c) \/ Killed(c)
        \/ \E b \in Containers : AppWrites(b)

Spec == Init /\ [][Next]_vars
-----------------------------------------------------------------------------
Tree == [Directories -> Contents \cup {Absent}]

\* The values the variables of the data commands range over.
TypeOK ==
  /\ tree \in [Trees -> Tree] /\ there \in SUBSET Paths
  /\ acts \in 0..MaxActs
  /\ pc \in [Clients -> Places]
  /\ cmd \in [Clients -> Commands]
  /\ box \in [Clients -> Containers] /\ path \in [Clients -> Paths]
  /\ file \in [Clients -> Files] /\ value \in [Clients -> Values \cup {None}]
  /\ overwrite \in [Clients -> BOOLEAN]
  /\ index \in [Clients -> 1..4]
  /\ result \in [Clients -> Codes]
  /\ warned \in [Clients -> BOOLEAN] /\ failed \in [Clients -> BOOLEAN]
  /\ touched \in [Clients -> SUBSET Trees]

\* Client c answers EverythingOkay in this step.
AnswersOkay(c) == result[c] # result'[c] /\ result'[c] = "EverythingOkay"

\* What EverythingOkay promises of the directories and files.
DataPromise(c) ==
  /\ cmd[c] = "generate" => path[c] \in there /\ tree[path[c]] = BlankTree
  /\ cmd[c] = "upload" => tree[box[c]] = tree[path[c]]
  /\ cmd[c] = "clear" => tree[box[c]] = BlankTree
  /\ cmd[c] = "uploadFile" => Exists(c) /\ tree[box[c]]["Documents"][file[c]] = value[c]

\* If no file operation failed by itself and nobody else changed its container
\* or bundle meanwhile, a command that answers EverythingOkay has generated a
\* blank bundle, made the container what the bundle is, cleared it, or put the
\* file there: whatever an earlier process left behind when it was killed.
DataAnswersHold ==
  [][\A c \in Clients : AnswersOkay(c) /\ ~failed'[c] /\ touched'[c] = {}
                          => DataPromise(c)']_vars

\* upload without --overwrite never changes a file that is in a container, even
\* one that appeared after it looked.
NeverOverwritten ==
  [][\A c \in Clients : pc[c] # pc'[c] /\ cmd[c] = "uploadFile" /\ ~overwrite[c]
       => \A b \in Containers, d \in Directories, f \in Files :
            tree[b][d] # Absent /\ tree[b][d][f] # None
              => tree'[b][d] # Absent /\ tree'[b][d][f] = tree[b][d][f]]_vars

\* When all have ended, the temporary bundle is gone, or a process has warned
\* that it could not be deleted, or was killed or crashed: two that share it do
\* not leave it to each other.
LeftoverIsReported ==
  (\A c \in Clients : ~Running(c)) /\ Empty \in there =>
    \E c \in Clients : warned[c] \/ result[c] \in {"Killed", "Crashed"}

\* clear-app-data "replaces .xcappdata bundle with an empty one": when no call
\* of its own fails and nobody else changes the container, the container is
\* empty when it answers EverythingOkay.
ClearsOwnContainer ==
  [][\A c \in Clients : AnswersOkay(c) /\ cmd[c] = "clear" /\ ~failed'[c]
                          /\ box[c] \notin touched'[c]
                          => tree'[box[c]] = BlankTree]_vars
=============================================================================
