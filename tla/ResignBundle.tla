----------------------------- MODULE ResignBundle -----------------------------
(***************************************************************************)
(* Resigning an .app directory, Resigning/Codesigner.m: resources are      *)
(* injected, dylibs and frameworks signed, plug-ins resigned in the same   *)
(* way, the app signed last.  Nothing is undone when codesign fails half   *)
(* way: the next run, with the same profile or another, works on what it   *)
(* finds, as resign-all does on the bundle of the profile before.          *)
(*                                                                         *)
(* The seal of a bundle or framework covers all that is in it, and is      *)
(* broken by any later change there.                                       *)
(***************************************************************************)
EXTENDS Naturals, Sequences, FiniteSets

CONSTANTS App,         \* the .app directory
          Objects,     \* dylibs and frameworks that are or may come there
          Plugins,     \* .appex and .xctest bundles
          Calabash,    \* calabash.dylib, resigned in any case
          Resources,   \* objects that may be injected
          Profiles, Teams,
          TeamOf(_),   \* the team of the identity that a profile signs with
          None,        \* no profile, no team: unsigned or signed ad hoc
          MaxRuns,     \* bound on the runs over one bundle
          MaxMisjudged \* bound on the items decided on blindly

ASSUME ResignAssumption ==
  /\ App \notin Objects \cup Plugins /\ Objects \cap Plugins = {}
  /\ Resources \subseteq Objects /\ Calabash \notin Plugins
  /\ None \notin Teams \cup Profiles /\ MaxRuns \in Nat /\ MaxMisjudged \in Nat
  /\ \A p \in Profiles : TeamOf(p) \in Teams

Items == Objects \cup Plugins
Bundles == Plugins \cup {App}
Everything == Items \cup {App}

VARIABLES within,      \* the bundles and frameworks each item is in
          present,     \* the objects that are there
          team,        \* who signed each item
          grants,      \* the profile whose entitlements a bundle is signed with
          sealed,      \* items unchanged since they were signed
          runs, profile, outcome,   \* of the run, and what came of it
          stack,       \* the calls of resignAppDir:, the innermost first
          signed,      \* history: what this run has signed
          misjudged,   \* history: decided on without knowing the signature
          kin,         \* history: items that began with the app's team
          begun, mixed \* history: profiles of runs that stopped half way,
                       \* and whether one of another profile came after

bundleVars == <<within, present, team, grants, sealed>>
history == <<signed, misjudged, kin, begun, mixed>>
vars == <<bundleVars, runs, profile, outcome, stack, history>>

Inside(x) == {y \in Plugins \cup present : x \in within[y]}

Around(x) == IF x = App THEN {} ELSE within[x]

\* Directories nest; plug-ins are in the Plugins directory of a bundle.
Nested ==
  \A x \in Items :
    /\ App \in within[x] /\ x \notin within[x]
    /\ \A y \in within[x] \ {App} : within[y] \subseteq within[x]
    /\ \A y, z \in within[x] \ {App} : y = z \/ y \in within[z] \/ z \in within[y]
    /\ x \in Plugins => within[x] \subseteq Bundles
    /\ x \in Resources => within[x] = {App} /\ \A y \in Items : x \notin within[y]

Init ==
  /\ within \in [Items -> SUBSET Everything] /\ Nested
  /\ present \in SUBSET Objects
  /\ \A x \in Objects \ present : x \in Resources
  /\ team \in [Everything -> Teams \cup {None}]
  /\ grants = [b \in Bundles |-> None]
  /\ sealed = [x \in Everything |-> TRUE]
  /\ runs = 0 /\ profile = None /\ outcome = "none"
  /\ stack = <<>>
  /\ signed = {} /\ misjudged = {}
  /\ kin = {x \in Plugins \cup present : team[App] \in {None, team[x]}}
  /\ begun = {} /\ mixed = FALSE

-----------------------------------------------------------------------------
Running == stack # <<>>
Dir == Head(stack).dir
Here(step) == Running /\ Head(stack).step = step
Todo == Head(stack).todo

Frame(dir, step, todo) == [dir |-> dir, step |-> step, todo |-> todo]
Goto(step, todo) == stack' = <<Frame(Dir, step, todo)>> \o Tail(stack)

\* The items of S are signed: what is around them is not as it was sealed.
Signs(S) ==
  /\ team' = [x \in Everything |-> IF x \in S THEN TeamOf(profile) ELSE team[x]]
  /\ sealed' = [x \in Everything |->
                  x \in S \/ (sealed[x] /\ \A y \in S : x \notin Around(y))]
  /\ signed' = signed \cup S

\* The files of a bundle change.
Changes(b) ==
  sealed' = [x \in Everything |-> /\ sealed[x]
                                  /\ x \notin {b} \cup Around(b)]

\* An exception ends the process, with everything as it is now.
Raises ==
  /\ stack' = <<>> /\ outcome' = "raised"
  /\ begun' = IF signed' = {} THEN begun ELSE begun \cup {profile}

GoesOn(step, todo) == Goto(step, todo) /\ UNCHANGED <<outcome, begun>>

\* Of these nothing changes while a run lasts.
Fixed == <<within, runs, profile, mixed>>

-----------------------------------------------------------------------------
(***************************************************************************)
(* +shouldResign:inAppDir:, with the teams that codesign --display finds,  *)
(* None if it fails.                                                       *)
(***************************************************************************)
SameTeam(x, appTeam, objectTeam) == \* variant: an app without a team is not asked for
  x = Calabash \/ appTeam = objectTeam

ShouldResign(x, appTeam, objectTeam) ==
  x = Calabash \/ appTeam \in {None, objectTeam}

\* The decision on x, which may rest on a signature not found.
Decides(x, yes) ==
  /\ \E a \in {team[Dir], None}, o \in {team[x], None} : yes = ShouldResign(x, a, o)
  /\ misjudged' = IF yes = ShouldResign(x, team[Dir], team[x])
                  THEN misjudged ELSE misjudged \cup {x}
  /\ Cardinality(misjudged') <= MaxMisjudged

-----------------------------------------------------------------------------
(***************************************************************************)
(* +resignAppDir:..., of the app and, by recursion, of its plug-ins.       *)
(***************************************************************************)
\* resign, install or one round of resign-all.
Begin(p, resources) ==
  /\ ~Running /\ runs < MaxRuns /\ runs' = runs + 1
  /\ profile' = p /\ outcome' = "none"
  /\ stack' = <<Frame(App, "write", resources)>>
  /\ signed' = {}
  /\ mixed' = (mixed \/ begun \ {p} # {})
  /\ UNCHANGED <<bundleVars, misjudged, kin, begun>>

\* The files of the bundle, and embedded.mobileprovision, which is removed.
Write ==
  /\ Here("write") /\ Changes(Dir)
  /\ GoesOn("inject", Todo)
  /\ UNCHANGED <<Fixed, present, team, grants, signed, misjudged, kin>>

\* injectResources: replaces a file and signs it, or fails on the way.
Inject(r) ==
  /\ Here("inject") /\ r \in Todo
  /\ \/ /\ present' = present \cup {r} /\ kin' = kin \cup {r}
        /\ Signs({r}) /\ GoesOn("inject", Todo \ {r})
     \/ /\ present' \in {present \ {r}, present \cup {r}} /\ kin' = kin \ {r}
        /\ \E t \in Teams \cup {None} : team' = [team EXCEPT ![r] = t]
        /\ UNCHANGED <<sealed, signed>> /\ Raises
  /\ UNCHANGED <<Fixed, grants, misjudged>>

InjectDone ==
  /\ Here("inject") /\ Todo = {}
  /\ GoesOn("objects", Inside(Dir) \cap Objects)
  /\ UNCHANGED <<Fixed, present, team, grants, sealed, signed, misjudged, kin>>

ResignAnyObject(x) == \* variant: in the order in which the paths were found
  /\ Here("objects") /\ x \in Todo
  /\ \/ /\ Decides(x, TRUE) /\ Signs({x} \cup Inside(x)) /\ GoesOn("objects", Todo \ {x})
     \/ /\ Decides(x, FALSE) /\ GoesOn("objects", Todo \ {x})
        /\ UNCHANGED <<team, sealed, signed>>
  /\ UNCHANGED <<Fixed, present, grants, kin>>

\* resignObject: signs what is in x as well; it may fail having done all or
\* part of that.  The list of paths is walked backwards, contents first.
ResignObject(x) ==
  /\ Here("objects") /\ x \in Todo /\ Inside(x) \cap Todo = {}
  /\ \/ /\ Decides(x, TRUE)
        /\ \/ Signs({x} \cup Inside(x)) /\ GoesOn("objects", Todo \ {x})
           \/ /\ \E S \in {{x} \cup Inside(x)} \cup SUBSET Inside(x) : Signs(S)
              /\ Raises
     \/ /\ Decides(x, FALSE) /\ GoesOn("objects", Todo \ {x})
        /\ UNCHANGED <<team, sealed, signed>>
  /\ UNCHANGED <<Fixed, present, grants, kin>>

ListsItself == \* variant: the directory that is listed is among its own paths
  /\ Here("objects") /\ Todo = {}
  /\ GoesOn("plugins", (Inside(Dir) \cup {Dir}) \cap Plugins)
  /\ UNCHANGED <<Fixed, present, team, grants, sealed, signed, misjudged, kin>>

ObjectsDone ==
  /\ Here("objects") /\ Todo = {}
  /\ GoesOn("plugins", Inside(Dir) \cap Plugins)
  /\ UNCHANGED <<Fixed, present, team, grants, sealed, signed, misjudged, kin>>

\* The call for a plug-in returns to the loop.
ResignPlugin(b) ==
  /\ Here("plugins") /\ b \in Todo /\ Inside(b) \cap Todo = {}
  /\ \/ /\ Decides(b, TRUE)
        /\ stack' = <<Frame(b, "write", {}), Frame(Dir, "plugins", Todo \ {b})>>
                    \o Tail(stack)
        /\ UNCHANGED <<outcome, begun>>
     \/ Decides(b, FALSE) /\ GoesOn("plugins", Todo \ {b})
  /\ UNCHANGED <<Fixed, present, team, grants, sealed, signed, kin>>

PluginsDone ==
  /\ Here("plugins") /\ Todo = {}
  /\ GoesOn("seal", {})
  /\ UNCHANGED <<Fixed, present, team, grants, sealed, signed, misjudged, kin>>

\* resignBundle: with the entitlements of the profile.
Seal ==
  /\ Here("seal")
  /\ Signs({Dir}) /\ grants' = [grants EXCEPT ![Dir] = profile]
  /\ \/ /\ stack' = Tail(stack)
        /\ IF Dir = App THEN outcome' = "done" /\ begun' = {}
                        ELSE UNCHANGED <<outcome, begun>>
     \/ Raises
  /\ UNCHANGED <<Fixed, present, misjudged, kin>>

\* Whatever else fails, and the end of the process at any point.
Stop ==
  /\ Running /\ UNCHANGED signed /\ Raises
  /\ UNCHANGED <<Fixed, present, team, grants, sealed, misjudged, kin>>

Resign == \/ Write \/ InjectDone \/ ObjectsDone \/ PluginsDone \/ Seal
          \/ \E x \in Objects : Inject(x) \/ ResignObject(x)
          \/ \E b \in Plugins : ResignPlugin(b)

Next == \/ \E p \in Profiles, resources \in SUBSET Resources : Begin(p, resources)
        \/ Resign \/ Stop

Spec == Init /\ [][Next]_vars
-----------------------------------------------------------------------------
Frames == {Frame(dir, step, todo) :
             dir \in Bundles,
             step \in {"write", "inject", "objects", "plugins", "seal"},
             todo \in SUBSET Items}

\* The values the variables range over; calls are for a bundle inside that of
\* the caller.
TypeOK ==
  /\ within \in [Items -> SUBSET Everything] /\ present \subseteq Objects
  /\ team \in [Everything -> Teams \cup {None}]
  /\ grants \in [Bundles -> Profiles \cup {None}]
  /\ sealed \in [Everything -> BOOLEAN]
  /\ runs \in 0..MaxRuns /\ profile \in Profiles \cup {None}
  /\ outcome \in {"none", "done", "raised"}
  /\ stack \in Seq(Frames)
  /\ \A i \in 1..(Len(stack) - 1) : stack[i + 1].dir \in within[stack[i].dir]
  /\ signed \subseteq Everything /\ misjudged \subseteq Items /\ kin \subseteq Items
  /\ begun \subseteq Profiles /\ mixed \in BOOLEAN

\* When a run is done, all it has signed is as it was signed: nothing was
\* changed, injected, signed or resigned within it afterwards, though plug-ins
\* are written to and their objects may be signed twice.  Excused is what a
\* decision made blindly concerns, on it or on something in it or around it;
\* and what is inside a plug-in and has a calabash.dylib in it, as that is
\* signed with the app and once more with the plug-in, whatever happens to what
\* it is in.
Excused(x) ==
  \/ misjudged \cap ({x} \cup Inside(x) \cup Around(x)) # {}
  \/ Calabash \in Inside(x) /\ Around(x) \ {App} # {}

SealsHold == outcome = "done" => \A x \in signed : sealed[x] \/ Excused(x)

\* When a run is done, all that went with the app has the team of the app, and
\* plug-ins the entitlements of the profile, also where an earlier run had left
\* part of the work: as long as that was for the same profile, for an object
\* that has changed its team already is left alone.
OneTeamThroughout ==
  outcome = "done" /\ ~mixed =>
    /\ team[App] = TeamOf(profile) /\ grants[App] = profile
    /\ \A x \in kin \ misjudged :
         /\ team[x] = TeamOf(profile)
         /\ x \in Plugins => grants[x] = profile
=============================================================================
