-------------------------- MODULE ResignBundleProofs --------------------------
(***************************************************************************)
(* The theorems about ResignBundle: its types, the seals that hold and the *)
(* one team that all has when a run is done.                               *)
(*                                                                         *)
(* The inductive invariant says where each call on the stack is (Calls),   *)
(* what has been signed and decided on (SignedSoFar, Judged), and that     *)
(* each broken seal is under a call that will sign the item again          *)
(* (Repaired).  An inner call repeats decisions of the outermost: what it  *)
(* signs has the team of the run already, and so has what is around it.    *)
(***************************************************************************)
EXTENDS ResignBundle, SequenceTheorems, TLAPS

-----------------------------------------------------------------------------
(***************************************************************************)
(* The stack of calls.                                                     *)
(***************************************************************************)
\* The innermost call goes on; the others wait where they are.
LEMMA GotoStack ==
  ASSUME Running, stack \in Seq(Frames), NEW step, NEW todo,
         Frame(Dir, step, todo) \in Frames, Goto(step, todo)
  PROVE  /\ stack' \in Seq(Frames) /\ Len(stack') = Len(stack) /\ stack' # <<>>
         /\ stack'[1] = Frame(Dir, step, todo)
         /\ \A i \in 2..Len(stack) : stack'[i] = stack[i]
<1> DEFINE f == Frame(Dir, step, todo)
<1>1. stack' = <<f>> \o Tail(stack) /\ f \in Frames
  BY DEF Goto
<1>2. stack # <<>>
  BY DEF Running
<1> HIDE DEF f
<1>3. Tail(stack) \in Seq(Frames) /\ Len(Tail(stack)) = Len(stack) - 1 /\ Len(stack) \in Nat \ {0}
  BY <1>2
<1>4. <<f>> \in Seq(Frames) /\ Len(<<f>>) = 1
  BY <1>1
<1>5. stack' \in Seq(Frames) /\ Len(stack') = 1 + Len(Tail(stack))
  BY <1>1, <1>3, <1>4
<1>6. \A i \in 1..Len(stack) : stack'[i] = IF i = 1 THEN f ELSE stack[i]
  BY <1>1, <1>2, <1>3, <1>4
<1> QED
  BY <1>3, <1>5, <1>6 DEF f

\* A call begins on top of the others.
LEMMA PushStack ==
  ASSUME Running, stack \in Seq(Frames), NEW f \in Frames, NEW g \in Frames,
         stack' = <<f, g>> \o Tail(stack)
  PROVE  /\ stack' \in Seq(Frames) /\ Len(stack') = Len(stack) + 1 /\ stack' # <<>>
         /\ stack'[1] = f /\ stack'[2] = g
         /\ \A i \in 3..(Len(stack) + 1) : stack'[i] = stack[i - 1]
<1>2. stack # <<>>
  BY DEF Running
<1>3. Tail(stack) \in Seq(Frames) /\ Len(Tail(stack)) = Len(stack) - 1 /\ Len(stack) \in Nat \ {0}
  BY <1>2
<1>4. <<f, g>> \in Seq(Frames) /\ Len(<<f, g>>) = 2
  OBVIOUS
<1>5. stack' \in Seq(Frames) /\ Len(stack') = 2 + Len(Tail(stack))
  BY <1>3, <1>4
<1>6. \A i \in 1..(Len(stack) + 1) :
         stack'[i] = CASE i = 1 -> f [] i = 2 -> g [] OTHER -> stack[i - 1]
  BY <1>2, <1>3, <1>4
<1> QED
  BY <1>3, <1>5, <1>6

\* The innermost call returns.
LEMMA PopStack ==
  ASSUME Running, stack \in Seq(Frames), stack' = Tail(stack)
  PROVE  /\ stack' \in Seq(Frames) /\ Len(stack') = Len(stack) - 1
         /\ \A i \in 1..(Len(stack) - 1) : stack'[i] = stack[i + 1]
  BY DEF Running
\* Who makes the innermost call, where it is and what it has left.
LEMMA Innermost ==
  ASSUME Running, stack \in Seq(Frames)
  PROVE  /\ Dir \in Bundles /\ Todo \subseteq Items
         /\ Head(stack).step \in {"write", "inject", "objects", "plugins", "seal"}
         /\ stack[1] = Head(stack) /\ stack[1].dir = Dir /\ stack[1].todo = Todo
         /\ Len(stack) \in Nat \ {0}
<1>1. stack # <<>>
  BY DEF Running
<1>2. Head(stack) \in Frames /\ stack[1] = Head(stack) /\ Len(stack) \in Nat \ {0}
  BY <1>1
<1> QED
  BY <1>2 DEF Frames, Frame, Dir, Todo

LEMMA FrameType ==
  ASSUME NEW dir \in Bundles, NEW todo \in SUBSET Items,
         NEW step \in {"write", "inject", "objects", "plugins", "seal"}
  PROVE  /\ Frame(dir, step, todo) \in Frames /\ Frame(dir, step, todo).dir = dir
         /\ Frame(dir, step, todo).step = step /\ Frame(dir, step, todo).todo = todo
  BY DEF Frames, Frame

-----------------------------------------------------------------------------
(***************************************************************************)
(* The types, but for the order of the calls on the stack.                 *)
(***************************************************************************)
Types ==
  /\ within \in [Items -> SUBSET Everything] /\ present \subseteq Objects
  /\ team \in [Everything -> Teams \cup {None}]
  /\ grants \in [Bundles -> Profiles \cup {None}]
  /\ sealed \in [Everything -> BOOLEAN]
  /\ runs \in 0..MaxRuns /\ profile \in Profiles \cup {None}
  /\ outcome \in {"none", "done", "raised"}
  /\ stack \in Seq(Frames)
  /\ signed \subseteq Everything /\ misjudged \subseteq Items /\ kin \subseteq Items
  /\ begun \subseteq Profiles /\ mixed \in BOOLEAN
  /\ Running => profile \in Profiles

LEMMA TypesInit == Init => Types
<1> SUFFICES ASSUME Init PROVE Types
  OBVIOUS
<1> USE DEF Init, Items, Bundles, Everything
<1>1. runs \in 0..MaxRuns /\ stack \in Seq(Frames) /\ ~Running
  BY ResignAssumption DEF Running
<1>2. kin \subseteq Items /\ signed \subseteq Everything /\ misjudged \subseteq Items
  OBVIOUS
<1>3. /\ team \in [Everything -> Teams \cup {None}]
      /\ grants \in [Bundles -> Profiles \cup {None}]
      /\ sealed \in [Everything -> BOOLEAN]
  OBVIOUS
<1> QED
  BY <1>1, <1>2, <1>3 DEF Types

\* What Signs, Changes, Raises and GoesOn leave in the variables.
LEMMA SignsTypes ==
  ASSUME Types, Running, NEW S \in SUBSET Everything, Signs(S)
  PROVE  /\ team' \in [Everything -> Teams \cup {None}]
         /\ sealed' \in [Everything -> BOOLEAN] /\ signed' \subseteq Everything
<1>1. TeamOf(profile) \in Teams
  BY ResignAssumption DEF Types
<1> QED
  BY <1>1 DEF Types, Signs

LEMMA RaisesTypes ==
  ASSUME Types, Running, Raises
  PROVE  stack' \in Seq(Frames) /\ ~Running' /\ outcome' = "raised" /\ begun' \subseteq Profiles
  BY DEF Types, Raises, Running

LEMMA GoesOnTypes ==
  ASSUME Types, Running, NEW todo \in SUBSET Items,
         NEW step \in {"write", "inject", "objects", "plugins", "seal"}, GoesOn(step, todo)
  PROVE  stack' \in Seq(Frames) /\ Running' /\ outcome' = outcome /\ begun' = begun
<1>1. stack \in Seq(Frames)
  BY DEF Types
<1>2. Frame(Dir, step, todo) \in Frames
  BY <1>1, Innermost, FrameType
<1> QED
  BY <1>1, <1>2, GotoStack DEF GoesOn, Running

LEMMA DecidesTypes ==
  ASSUME Types, NEW x \in Items, NEW yes, Decides(x, yes)
  PROVE  misjudged' \subseteq Items /\ misjudged \subseteq misjudged' /\ misjudged' \subseteq misjudged \cup {x}
  BY DEF Types, Decides

LEMMA InsideItems == Types => \A x : Inside(x) \subseteq Items
  BY DEF Types, Inside, Items

LEMMA TypesStep == Types /\ [Next]_vars => Types'
<1> SUFFICES ASSUME Types, [Next]_vars PROVE Types'
  OBVIOUS
<1> USE DEF Items, Everything, Bundles
<1>0. stack \in Seq(Frames) /\ \A x : Inside(x) \subseteq Items
  BY InsideItems DEF Types
<1>1. ASSUME NEW p \in Profiles, NEW resources \in SUBSET Resources, Begin(p, resources)
      PROVE  Types'
  <2>1. Frame(App, "write", resources) \in Frames
    BY FrameType, ResignAssumption
  <2>2. stack' \in Seq(Frames) /\ runs' \in 0..MaxRuns
    BY <1>1, <2>1, ResignAssumption DEF Begin, Types
  <2> QED
    BY <1>1, <2>2 DEF Begin, Types, bundleVars
<1>2. CASE Write
  <2>1. Running /\ Todo \subseteq Items
    BY <1>0, <1>2, Innermost DEF Write, Here
  <2>2. stack' \in Seq(Frames) /\ outcome' = outcome /\ begun' = begun
    BY <1>2, <2>1, GoesOnTypes DEF Write
  <2>3. sealed' \in [Everything -> BOOLEAN]
    BY <1>2 DEF Write, Changes, Types
  <2> QED
    BY <1>2, <2>1, <2>2, <2>3 DEF Write, Types, Fixed
<1>3. CASE InjectDone \/ ObjectsDone \/ PluginsDone
  <2>1. Running
    BY <1>3 DEF InjectDone, ObjectsDone, PluginsDone, Here
  <2>2. stack' \in Seq(Frames) /\ outcome' = outcome /\ begun' = begun
    <3>1. CASE InjectDone
      <4>1. Inside(Dir) \cap Objects \subseteq Items
        OBVIOUS
      <4> QED
        BY <2>1, <3>1, <4>1, GoesOnTypes DEF InjectDone
    <3>2. CASE ObjectsDone
      <4>1. Inside(Dir) \cap Plugins \subseteq Items
        OBVIOUS
      <4> QED
        BY <2>1, <3>2, <4>1, GoesOnTypes DEF ObjectsDone
    <3>3. CASE PluginsDone
      BY <2>1, <3>3, GoesOnTypes DEF PluginsDone
    <3> QED
      BY <1>3, <3>1, <3>2, <3>3
  <2>3. UNCHANGED <<Fixed, present, team, grants, sealed, signed, misjudged, kin>>
    BY <1>3 DEF InjectDone, ObjectsDone, PluginsDone
  <2> QED
    BY <2>1, <2>2, <2>3 DEF Types, Fixed
<1>4. CASE Seal
  <2>1. Running /\ Dir \in Bundles
    BY <1>0, <1>4, Innermost DEF Seal, Here
  <2>2. team' \in [Everything -> Teams \cup {None}]
        /\ sealed' \in [Everything -> BOOLEAN] /\ signed' \subseteq Everything
    BY <1>4, <2>1, SignsTypes DEF Seal
  <2>3. grants' \in [Bundles -> Profiles \cup {None}] /\ profile \in Profiles
    BY <1>4, <2>1 DEF Seal, Types
  <2>4. /\ stack' \in Seq(Frames) /\ outcome' \in {"none", "done", "raised"}
        /\ begun' \subseteq Profiles
    <3>1. CASE Raises
      BY <2>1, <3>1, RaisesTypes
    <3>2. CASE ~Raises
      BY <1>0, <1>4, <2>1, <3>2, PopStack DEF Seal, Types
    <3> QED
      BY <3>1, <3>2
  <2> QED
    BY <1>4, <2>2, <2>3, <2>4 DEF Seal, Types, Fixed
<1>5. ASSUME NEW x \in Objects, Inject(x) PROVE Types'
  <2>1. Running /\ Todo \subseteq Items
    BY <1>0, <1>5, Innermost DEF Inject, Here
  <2>2. /\ present' \subseteq Objects /\ kin' \subseteq Items
        /\ UNCHANGED <<Fixed, grants, misjudged>>
    BY <1>5 DEF Inject, Types
  <2>3. CASE Signs({x}) /\ GoesOn("inject", Todo \ {x})
    <3>1. Todo \ {x} \subseteq Items
      BY <2>1
    <3>2. stack' \in Seq(Frames) /\ outcome' = outcome /\ begun' = begun
      BY <2>1, <2>3, <3>1, GoesOnTypes
    <3> QED
      BY <2>1, <2>2, <2>3, <3>2, SignsTypes DEF Types, Fixed
  <2>4. CASE /\ \E t \in Teams \cup {None} : team' = [team EXCEPT ![x] = t]
             /\ UNCHANGED <<sealed, signed>> /\ Raises
    BY <2>1, <2>2, <2>4, RaisesTypes DEF Types, Fixed
  <2> QED
    BY <1>5, <2>3, <2>4 DEF Inject
<1>6. ASSUME NEW x \in Objects, ResignObject(x) PROVE Types'
  <2>1. Running /\ Todo \subseteq Items
    BY <1>0, <1>6, Innermost DEF ResignObject, Here
  <2>2. misjudged' \subseteq Items /\ UNCHANGED <<Fixed, present, grants, kin>>
    BY <1>6, DecidesTypes DEF ResignObject
  <2>3. Todo \ {x} \subseteq Items /\ {x} \cup Inside(x) \subseteq Everything
    BY <1>0, <2>1
  <2>4. ASSUME NEW S \in SUBSET Everything, Signs(S),
               GoesOn("objects", Todo \ {x}) \/ Raises
        PROVE  Types'
    <3>1. stack' \in Seq(Frames) /\ outcome' \in {outcome, "raised"} /\ begun' \subseteq Profiles
      BY <2>1, <2>3, <2>4, GoesOnTypes, RaisesTypes DEF Types
    <3> QED
      BY <2>1, <2>2, <2>4, <3>1, SignsTypes DEF Types, Fixed
  <2>5. CASE GoesOn("objects", Todo \ {x}) /\ UNCHANGED <<team, sealed, signed>>
    <3>1. stack' \in Seq(Frames) /\ outcome' = outcome /\ begun' = begun
      BY <2>1, <2>3, <2>5, GoesOnTypes
    <3> QED
      BY <2>1, <2>2, <2>5, <3>1 DEF Types, Fixed
  <2> QED
    BY <1>6, <2>3, <2>4, <2>5 DEF ResignObject
<1>7. ASSUME NEW b \in Plugins, ResignPlugin(b) PROVE Types'
  <2>1. Running /\ Todo \subseteq Items /\ Dir \in Bundles
    BY <1>0, <1>7, Innermost DEF ResignPlugin, Here
  <2>2. /\ misjudged' \subseteq Items
        /\ UNCHANGED <<Fixed, present, team, grants, sealed, signed, kin>>
    BY <1>7, DecidesTypes DEF ResignPlugin
  <2>3. stack' \in Seq(Frames) /\ outcome' = outcome /\ begun' = begun
    <3>1. Todo \ {b} \subseteq Items
      BY <2>1
    <3>2. CASE GoesOn("plugins", Todo \ {b})
      BY <2>1, <3>1, <3>2, GoesOnTypes
    <3>3. CASE ~GoesOn("plugins", Todo \ {b})
      <4>1. Frame(b, "write", {}) \in Frames /\ Frame(Dir, "plugins", Todo \ {b}) \in Frames
        BY <2>1, <3>1, FrameType
      <4> QED
        BY <1>0, <1>7, <2>1, <3>3, <4>1, PushStack DEF ResignPlugin
    <3> QED
      BY <3>2, <3>3
  <2> QED
    BY <2>1, <2>2, <2>3 DEF Types, Fixed
<1>8. CASE Stop
  BY <1>8, RaisesTypes DEF Stop, Types, Fixed
<1>9. CASE UNCHANGED vars
  BY <1>9 DEF vars, bundleVars, history, Types, Running
<1> QED
  BY <1>1, <1>2, <1>3, <1>4, <1>5, <1>6, <1>7, <1>8, <1>9 DEF Next, Resign

LEMMA TypesAlways == Spec => []Types
  BY TypesInit, TypesStep, PTL DEF Spec
-----------------------------------------------------------------------------
(***************************************************************************)
(* The inductive invariant.                                                *)
(***************************************************************************)
There == Plugins \cup present
Depth == Len(stack)
Outer == stack[Depth]            \* the call for the app
Team == TeamOf(profile)

Standing ==
  /\ Nested
  /\ Objects \ present \subseteq Resources /\ kin \subseteq There
  /\ Running => outcome = "none"

\* Each call is for something inside what its caller is for, and made from the
\* loop over plug-ins.
Chain ==
  /\ Outer.dir = App
  /\ \A i \in 1..(Depth - 1) : stack[i].dir \in Plugins
  /\ \A i, j \in 1..Depth :
       i < j => stack[j].dir \in Around(stack[i].dir) /\ stack[j].step = "plugins"

\* What a call still has to look at: with an item, all that is around it.
Listing(i) ==
  LET f == stack[i] IN
  /\ f.step \in {"write", "inject"} => f.todo \subseteq Resources /\ (i < Depth => f.todo = {})
  /\ f.step = "objects" =>
       /\ f.todo \subseteq Inside(f.dir) \cap Objects
       /\ \A y \in f.todo, z \in Inside(f.dir) \cap Objects : z \in within[y] => z \in f.todo
  /\ f.step = "plugins" =>
       /\ f.todo \subseteq Inside(f.dir) \cap Plugins
       /\ \A y \in f.todo, z \in Inside(f.dir) : z \in within[y] => z \in f.todo
  /\ f.step = "seal" => f.todo = {}

Calls == Chain /\ \A i \in 1..Depth : Listing(i)

\* What has been signed, and that the call for the app has not come back to it.
SignedSoFar ==
  /\ App \notin signed
  /\ \A x \in signed : team[x] = Team /\ (x \in Plugins => grants[x] = profile)
  /\ Outer.step \in {"write", "inject"} => signed \subseteq Resources
  /\ Outer.step = "objects" => signed \subseteq Objects /\ Outer.todo \cap signed \subseteq Resources
  /\ Outer.step = "plugins" => Outer.todo \cap signed = {}
  /\ \A i \in 1..(Depth - 1) :
       Outer.todo \cap ({stack[i].dir} \cup Inside(stack[i].dir)) = {}

\* The call for the app has decided on y, and if y is a plug-in is through with it.
Passed(y) ==
  /\ y \notin Outer.todo /\ \A i \in 1..Depth : y # stack[i].dir
  /\ \/ Outer.step \in {"plugins", "seal"}
     \/ Outer.step = "objects" /\ y \in Objects

\* What was not signed did not have the team of the app, and plug-ins that are
\* being resigned do, but for decisions made blindly.
Settled(y) ==
  \/ y \in misjudged \cup signed
  \/ team[App] # None /\ team[y] # team[App]

Led(i) ==
  \/ team[App] \in {None, team[stack[i].dir]}
  \/ \E j \in i..Depth : stack[j].dir \in misjudged

Judged == (\A y \in There : Passed(y) => Settled(y)) /\ \A i \in 1..(Depth - 1) : Led(i)

\* x will be signed by the i-th call, having been signed in this run before.
Waits(x, i) ==
  \/ x = stack[i].dir
  \/ /\ i < Depth /\ team[stack[i].dir] \in {None, Team}
     /\ \/ x \in stack[i].todo
        \/ stack[i].step = "objects" /\ x \in Plugins \cap Inside(stack[i].dir)

\* What has been signed is sealed or will be signed once more, by a call further
\* out than those for what is in it.
Repaired ==
  /\ \A i \in 1..Depth : \A x \in signed \cap Around(stack[i].dir) :
       Excused(x) \/ \E j \in (i + 1)..Depth : Waits(x, j)
  /\ \A x \in signed : sealed[x] \/ Excused(x) \/ \E j \in 1..Depth : Waits(x, j)

\* Between runs and within one, all that went with the app still does or is
\* done already.
Old(x) == team[App] \in {None, team[x]}
New(x) == team[x] = Team /\ (x \in Plugins => grants[x] = profile)

Halfway ==
  ~mixed => /\ begun \subseteq {profile}
            /\ \A x \in kin \ misjudged :
                 \/ Old(x)
                 \/ New(x) /\ (profile \in begun \/ (Running /\ x \in signed))

IInv ==
  /\ Standing
  /\ Running => Calls /\ SignedSoFar /\ Judged /\ Repaired
  /\ Halfway /\ SealsHold /\ OneTeamThroughout

-----------------------------------------------------------------------------
(***************************************************************************)
(* How items nest.                                                         *)
(***************************************************************************)
LEMMA Nesting ==
  ASSUME Types, Nested
  PROVE  /\ \A x \in Items : x \notin within[x] /\ App \in within[x] /\ Around(x) = within[x]
         /\ \A x \in Items, y \in Everything :
              y \in within[x] => Around(y) \subseteq within[x]
         /\ \A x \in Items, y, z \in Everything :
              y \in within[x] /\ z \in within[x] => y = z \/ y \in Around(z) \/ z \in Around(y)
         /\ \A x \in Plugins : within[x] \subseteq Bundles
         /\ \A x \in Resources : within[x] = {App} /\ \A y \in Items : x \notin within[y]
<1> USE DEF Nested, Around, Everything, Items
<1>1. \A x \in Items : x \notin within[x] /\ App \in within[x] /\ Around(x) = within[x]
  BY ResignAssumption
<1>2. \A x \in Items, y \in Everything : y \in within[x] => Around(y) \subseteq within[x]
  OBVIOUS
<1>3. \A x \in Items, y, z \in Everything :
         y \in within[x] /\ z \in within[x] => y = z \/ y \in Around(z) \/ z \in Around(y)
  BY <1>1
<1>4. \A x \in Plugins : within[x] \subseteq Bundles
  OBVIOUS
<1>5. \A x \in Resources : within[x] = {App} /\ \A y \in Items : x \notin within[y]
  BY ResignAssumption
<1> QED
  BY <1>1, <1>2, <1>3, <1>4, <1>5

LEMMA InsideIs ==
  ASSUME Types
  PROVE  /\ There \subseteq Items /\ App \notin There
         /\ \A x, y : x \in Inside(y) <=> x \in There /\ y \in within[x]
  BY ResignAssumption DEF Types, There, Inside, Items

\* What is inside something that is inside b is inside b.
LEMMA InsideOf ==
  ASSUME Types, Nested, NEW b \in Everything, NEW x \in Inside(b)
  PROVE  Inside(x) \subseteq Inside(b) /\ b \notin Inside(x) /\ x # b /\ x \notin Inside(x)
<1>1. x \in There /\ x \in Items /\ x \in Everything /\ b \in within[x] /\ Around(x) = within[x]
  BY InsideIs, Nesting DEF Everything
<1>2. ASSUME NEW y \in Inside(x) PROVE y \in Inside(b)
  <2>1. y \in There /\ y \in Items /\ x \in within[y]
    BY <1>2, InsideIs
  <2> QED
    BY <1>1, <2>1, Nesting, InsideIs
<1>3. x # b /\ x \notin Inside(x)
  BY <1>1, Nesting, InsideIs
<1>4. ASSUME b \in Inside(x) PROVE FALSE
  <2>1. b \in Items /\ x \in within[b]
    BY <1>4, InsideIs
  <2> QED
    BY <1>1, <2>1, Nesting
<1> QED
  BY <1>2, <1>3, <1>4
-----------------------------------------------------------------------------
(***************************************************************************)
(* The invariant is kept: how bundles nest, and the calls.                 *)
(***************************************************************************)
Pre == Types /\ IInv /\ Running

LEMMA OuterCall ==
  ASSUME Pre
  PROVE  /\ stack \in Seq(Frames) /\ Depth \in Nat \ {0} /\ Calls /\ Nested
         /\ Outer.dir = App /\ Listing(1) /\ Dir \in Bundles /\ Dir \in Everything
         /\ (Dir = App <=> Depth = 1) /\ (Dir # App <=> Dir \in Plugins)
         /\ stack[1] = Head(stack) /\ stack[1].dir = Dir /\ stack[1].todo = Todo
<1>1. /\ stack \in Seq(Frames) /\ Calls /\ Nested /\ Running
  BY DEF Pre, IInv, Types, Standing
<1>2. /\ Depth \in Nat \ {0} /\ Dir \in Bundles
      /\ stack[1] = Head(stack) /\ stack[1].dir = Dir /\ stack[1].todo = Todo
  BY <1>1, Innermost DEF Depth
<1>3. Outer.dir = App /\ Listing(1) /\ Dir \in Everything
  BY <1>1, <1>2 DEF Calls, Chain, Bundles, Everything, Items
<1>4. App \notin Plugins
  BY ResignAssumption
<1>5. Depth = 1 => Dir = App
  BY <1>2, <1>3 DEF Outer
<1>6. Depth # 1 => Dir \in Plugins
  BY <1>1, <1>2 DEF Calls, Chain
<1> QED
  BY <1>1, <1>2, <1>3, <1>4, <1>5, <1>6 DEF Bundles

\* Only the call for the app injects, and only resources.
LEMMA Injects ==
  ASSUME Pre, NEW r \in Objects, Inject(r)
  PROVE  Depth = 1 /\ r \in Resources /\ Dir = App
<1>1. Head(stack).step = "inject" /\ r \in Todo
  BY DEF Inject, Here
<1>2. r \in Resources /\ ~(1 < Depth)
  BY <1>1, OuterCall DEF Listing
<1> QED
  BY <1>2, OuterCall

\* A step takes items from the list of the innermost call, or goes on to the
\* next list, and leaves the others.
Turns(step, todo) ==
  /\ stack' \in Seq(Frames) /\ Depth' = Depth /\ Running'
  /\ stack'[1] = Frame(Dir, step, todo)
  /\ \A i \in 2..Depth : stack'[i] = stack[i]

LEMMA GoesOnTurns ==
  ASSUME Types, Running, NEW todo \in SUBSET Items,
         NEW step \in {"write", "inject", "objects", "plugins", "seal"}, GoesOn(step, todo)
  PROVE  Turns(step, todo) /\ outcome' = outcome /\ begun' = begun
<1>1. stack \in Seq(Frames)
  BY DEF Types
<1>2. Frame(Dir, step, todo) \in Frames
  BY <1>1, Innermost, FrameType
<1> QED
  BY <1>1, <1>2, GotoStack DEF GoesOn, Running, Turns, Depth

\* The call for b begins.
Enters(b, todo) ==
  /\ stack' \in Seq(Frames) /\ Depth' = Depth + 1 /\ Running'
  /\ stack'[1] = Frame(b, "write", {}) /\ stack'[2] = Frame(Dir, "plugins", todo)
  /\ \A i \in 3..(Depth + 1) : stack'[i] = stack[i - 1]

LEMMA EntersPlugin ==
  ASSUME Pre, NEW b \in Plugins, ResignPlugin(b)
  PROVE  /\ \/ Decides(b, TRUE) /\ Enters(b, Todo \ {b})
            \/ Decides(b, FALSE) /\ Turns("plugins", Todo \ {b})
         /\ UNCHANGED <<within, runs, profile, mixed, present, team, grants, sealed,
                        signed, kin, outcome, begun>>
         /\ b \in Todo /\ Inside(b) \cap Todo = {} /\ Head(stack).step = "plugins"
         /\ b \in Inside(Dir) /\ misjudged \subseteq misjudged'
<1>1. /\ b \in Todo /\ Inside(b) \cap Todo = {} /\ Head(stack).step = "plugins"
      /\ UNCHANGED <<within, runs, profile, mixed, present, team, grants, sealed, signed, kin>>
  BY DEF ResignPlugin, Here, Fixed
<1>2. Todo \subseteq Inside(Dir) \cap Plugins
  BY <1>1, OuterCall DEF Listing
<1>3. Types /\ Running /\ b \in Items /\ stack \in Seq(Frames)
  BY OuterCall DEF Pre, Items
<1>4. Todo \ {b} \in SUBSET Items
  BY <1>3, Innermost
<1>5. CASE /\ Decides(b, TRUE)
           /\ stack' = <<Frame(b, "write", {}), Frame(Dir, "plugins", Todo \ {b})>>
                       \o Tail(stack)
           /\ UNCHANGED <<outcome, begun>>
  <2>1. Frame(b, "write", {}) \in Frames /\ Frame(Dir, "plugins", Todo \ {b}) \in Frames
    BY <1>3, <1>4, OuterCall, FrameType DEF Bundles
  <2>2. Enters(b, Todo \ {b})
    BY <1>3, <1>5, <2>1, PushStack DEF Enters, Running, Depth
  <2> QED
    BY <1>1, <1>2, <1>3, <1>5, <2>2, DecidesTypes
<1>6. CASE Decides(b, FALSE) /\ GoesOn("plugins", Todo \ {b})
  BY <1>1, <1>2, <1>3, <1>4, <1>6, GoesOnTurns, DecidesTypes
<1> QED
  BY <1>5, <1>6 DEF ResignPlugin

\* The call for a plug-in returns.
Returns ==
  /\ stack' \in Seq(Frames) /\ Depth' = Depth - 1 /\ Depth > 1 /\ Running'
  /\ \A i \in 1..(Depth - 1) : stack'[i] = stack[i + 1]

LEMMA SealReturns ==
  ASSUME Pre, Seal
  PROVE  /\ \/ Returns /\ Dir \in Plugins /\ UNCHANGED <<outcome, begun>>
            \/ Dir = App /\ ~Running' /\ outcome' = "done" /\ begun' = {} /\ Depth = 1
            \/ Raises
         /\ Signs({Dir}) /\ grants' = [grants EXCEPT ![Dir] = profile]
         /\ Head(stack).step = "seal" /\ Todo = {}
         /\ UNCHANGED <<within, runs, profile, mixed, present, misjudged, kin>>
<1>1. /\ Signs({Dir}) /\ grants' = [grants EXCEPT ![Dir] = profile]
      /\ Head(stack).step = "seal"
      /\ UNCHANGED <<within, runs, profile, mixed, present, misjudged, kin>>
  BY DEF Seal, Here, Fixed
<1>2. Todo = {}
  BY <1>1, OuterCall DEF Listing
<1>3. stack \in Seq(Frames) /\ Running
  BY OuterCall DEF Pre
<1>4. CASE stack' = Tail(stack) /\ Dir = App /\ outcome' = "done" /\ begun' = {}
  <2>1. Len(stack') = 0 /\ stack' \in Seq(Frames) /\ Depth = 1
    BY <1>3, <1>4, PopStack, OuterCall DEF Depth
  <2> QED
    BY <1>1, <1>2, <1>4, <2>1 DEF Running
<1>5. CASE stack' = Tail(stack) /\ Dir # App /\ UNCHANGED <<outcome, begun>>
  <2>1. /\ stack' \in Seq(Frames) /\ Depth' = Depth - 1
        /\ \A i \in 1..(Depth - 1) : stack'[i] = stack[i + 1]
    BY <1>3, <1>5, PopStack DEF Depth
  <2>2. Depth > 1 /\ Dir \in Plugins
    BY <1>5, OuterCall
  <2>3. Running'
    <3>1. Len(stack') # 0
      BY <2>1, <2>2, OuterCall DEF Depth
    <3> QED
      BY <3>1 DEF Running
  <2> QED
    BY <1>1, <1>2, <1>5, <2>1, <2>2, <2>3 DEF Returns
<1> QED
  BY <1>1, <1>2, <1>4, <1>5 DEF Seal

LEMMA StandingInit == Init => Standing
  BY DEF Init, Standing, There, Running

LEMMA StandingStep == Types /\ IInv /\ [Next]_vars => Standing'
<1> SUFFICES ASSUME Types, IInv, [Next]_vars PROVE Standing'
  OBVIOUS
<1>0. Standing
  BY DEF IInv
<1>n. within' = within /\ Nested' <=> within' = within /\ Nested
  BY DEF Nested
<1>1. ASSUME NEW p \in Profiles, NEW resources \in SUBSET Resources, Begin(p, resources)
      PROVE  Standing'
  <2>1. UNCHANGED <<within, present, kin>> /\ outcome' = "none"
    BY <1>1 DEF Begin, bundleVars
  <2> QED
    BY <1>0, <1>n, <2>1 DEF Standing, There
<1>2. ASSUME Running, UNCHANGED <<within, present, kin>>, ~Running' \/ outcome' = outcome
      PROVE  Standing'
  BY <1>0, <1>n, <1>2 DEF Standing, There
<1>3. CASE Write \/ InjectDone \/ ObjectsDone \/ PluginsDone
  <2>1. Running /\ UNCHANGED <<within, present, kin>> /\ outcome' = outcome
    BY <1>3 DEF Write, InjectDone, ObjectsDone, PluginsDone, Here, GoesOn, Fixed
  <2> QED
    BY <1>2, <2>1
<1>4. CASE Seal
  <2>1. Running
    BY <1>4 DEF Seal, Here
  <2>2. Pre
    BY <2>1 DEF Pre
  <2>3. UNCHANGED <<within, present, kin>> /\ (~Running' \/ outcome' = outcome)
    BY <1>4, <2>1, <2>2, SealReturns, RaisesTypes
  <2> QED
    BY <1>2, <2>1, <2>3
<1>5. ASSUME NEW r \in Objects, Inject(r) PROVE Standing'
  <2>1. Running
    BY <1>5 DEF Inject, Here
  <2>2. r \in Resources
    BY <1>5, <2>1, Injects DEF Pre
  <2>3. within' = within
    BY <1>5 DEF Inject, Fixed
  <2>4. ~Running' \/ outcome' = outcome
    BY <1>5, <2>1, RaisesTypes DEF Inject, GoesOn
  <2>5. Objects \ present' \subseteq Resources /\ kin' \subseteq Plugins \cup present'
    BY <1>0, <1>5, <2>2 DEF Inject, Standing, There
  <2>6. outcome = "none"
    BY <1>0, <2>1 DEF Standing
  <2> QED
    BY <1>0, <1>n, <2>3, <2>4, <2>5, <2>6 DEF Standing, There
<1>6. ASSUME NEW x \in Objects, ResignObject(x) PROVE Standing'
  <2>1. Running /\ UNCHANGED <<within, present, kin>>
    BY <1>6 DEF ResignObject, Here, Fixed
  <2>2. ~Running' \/ outcome' = outcome
    BY <1>6, <2>1, RaisesTypes DEF ResignObject, GoesOn
  <2> QED
    BY <1>2, <2>1, <2>2
<1>7. ASSUME NEW b \in Plugins, ResignPlugin(b) PROVE Standing'
  <2>1. Running /\ UNCHANGED <<within, present, kin>> /\ outcome' = outcome
    BY <1>7 DEF ResignPlugin, Here, Fixed, GoesOn
  <2> QED
    BY <1>2, <2>1
<1>8. CASE Stop
  <2>1. Running /\ UNCHANGED <<within, present, kin>> /\ ~Running'
    BY <1>8, RaisesTypes DEF Stop, Fixed
  <2> QED
    BY <1>2, <2>1
<1>9. CASE UNCHANGED vars
  BY <1>0, <1>n, <1>9 DEF vars, bundleVars, history, Standing, There, Running
<1> QED
  BY <1>1, <1>3, <1>4, <1>5, <1>6, <1>7, <1>8, <1>9 DEF Next, Resign
LEMMA TurnsChain ==
  ASSUME Pre, NEW step, NEW todo, Turns(step, todo), within' = within
  PROVE  /\ Chain' /\ \A i \in 1..Depth : stack'[i].dir = stack[i].dir
<1>1. \A i \in 1..Depth : stack'[i].dir = stack[i].dir
  <2>1. stack'[1].dir = Dir
    BY DEF Turns, Frame
  <2> QED
    BY <2>1, OuterCall DEF Turns
<1>2. Chain /\ Depth' = Depth /\ Depth \in Nat \ {0}
  BY OuterCall DEF Calls, Turns
<1>3. Outer'.dir = App
  BY <1>1, <1>2 DEF Outer, Chain
<1>4. \A i \in 1..(Depth - 1) : stack'[i].dir \in Plugins
  BY <1>1, <1>2 DEF Chain
<1>5. ASSUME NEW i \in 1..Depth, NEW j \in 1..Depth, i < j
      PROVE  stack'[j].dir \in Around(stack'[i].dir) /\ stack'[j].step = "plugins"
  <2>1. stack'[j] = stack[j] /\ stack'[i].dir = stack[i].dir
    BY <1>1, <1>5 DEF Turns
  <2> QED
    BY <1>2, <1>5, <2>1 DEF Chain
<1>6. \A x : Around(x)' = Around(x)
  BY DEF Around
<1> QED
  BY <1>1, <1>2, <1>3, <1>4, <1>5, <1>6 DEF Chain

\* Where nothing is injected what is inside what stays the same.
LEMMA TurnsCalls ==
  ASSUME Pre, NEW step, NEW todo, Turns(step, todo), UNCHANGED <<within, present>>, Listing(1)'
  PROVE  Calls'
<1>1. Chain' /\ Calls /\ Depth' = Depth /\ Depth \in Nat \ {0}
  BY TurnsChain, OuterCall DEF Turns
<1>2. ASSUME NEW i \in 2..Depth PROVE Listing(i)'
  <2>1. stack'[i] = stack[i] /\ Listing(i)
    BY <1>1 DEF Turns, Calls
  <2> QED
    BY <1>1, <2>1 DEF Listing, Inside
<1> QED
  BY <1>1, <1>2 DEF Calls

LEMMA EntersCalls ==
  ASSUME Pre, NEW b \in Inside(Dir) \cap Plugins, Head(stack).step = "plugins", b \in Todo,
         Inside(b) \cap Todo = {}, Enters(b, Todo \ {b}), UNCHANGED <<within, present>>
  PROVE  Calls'
<1>1. /\ Calls /\ Depth' = Depth + 1 /\ Depth \in Nat \ {0} /\ Types /\ Nested
      /\ stack[1].dir = Dir /\ stack[1].todo = Todo /\ stack[1].step = "plugins"
      /\ Dir \in Everything /\ Listing(1) /\ Outer.dir = App
  BY OuterCall DEF Enters, Pre
<1>2. /\ b \in Items /\ Dir \in within[b] /\ Around(b) = within[b] /\ Around(Dir) \subseteq within[b]
  BY <1>1, InsideIs, Nesting
<1>3. /\ stack'[1].dir = b /\ stack'[1].todo = {} /\ stack'[1].step = "write"
      /\ stack'[2].dir = Dir /\ stack'[2].todo = Todo \ {b} /\ stack'[2].step = "plugins"
      /\ \A i \in 3..(Depth + 1) : stack'[i] = stack[i - 1]
  BY DEF Enters, Frame
<1>4. \A i \in 2..(Depth + 1) : stack'[i].dir = stack[i - 1].dir /\ stack'[i].step = stack[i - 1].step
  BY <1>1, <1>3
<1>5. Outer'.dir = App
  BY <1>1, <1>4 DEF Outer
<1>6. ASSUME NEW i \in 1..Depth PROVE stack'[i].dir \in Plugins
  BY <1>1, <1>3, <1>4 DEF Calls, Chain
<1>7. ASSUME NEW i \in 1..(Depth + 1), NEW j \in 1..(Depth + 1), i < j
      PROVE  stack'[j].dir \in Around(stack'[i].dir) /\ stack'[j].step = "plugins"
  <2>1. j - 1 \in 1..Depth /\ stack'[j].dir = stack[j - 1].dir /\ stack'[j].step = stack[j - 1].step
    BY <1>1, <1>4, <1>7
  <2>2. stack[j - 1].step = "plugins"
    <3>1. CASE j = 2
      BY <1>1, <3>1
    <3>2. CASE j # 2
      BY <1>1, <1>7, <2>1, <3>2 DEF Calls, Chain
    <3> QED
      BY <3>1, <3>2
  <2>3. CASE i = 1
    <3>1. stack[j - 1].dir \in {Dir} \cup Around(Dir)
      BY <1>1, <2>1 DEF Calls, Chain
    <3> QED
      BY <1>2, <1>3, <2>1, <2>2, <2>3, <3>1
  <2>4. CASE i # 1
    <3>1. i - 1 \in 1..Depth /\ i - 1 < j - 1 /\ stack'[i].dir = stack[i - 1].dir
      BY <1>1, <1>4, <1>7, <2>4
    <3> QED
      BY <1>1, <2>1, <2>2, <3>1 DEF Calls, Chain
  <2> QED
    BY <2>3, <2>4
<1>8. Chain'
  <2>1. \A x : Around(x)' = Around(x)
    BY DEF Around
  <2> QED
    BY <1>1, <1>5, <1>6, <1>7, <2>1 DEF Chain
<1>9. Listing(1)'
  BY <1>1, <1>3 DEF Listing
<1>10. Listing(2)'
  <2>1. ASSUME NEW y \in Todo \ {b}, NEW z \in Inside(Dir), z \in within[y] PROVE z \in Todo \ {b}
    <3>1. z \in Todo /\ y \in Inside(Dir) \cap Plugins
      BY <1>1, <2>1 DEF Listing
    <3>2. z # b
      BY <1>1, <2>1, <3>1, InsideIs
    <3> QED
      BY <3>1, <3>2
  <2>2. Todo \subseteq Inside(Dir) \cap Plugins
    BY <1>1 DEF Listing
  <2> QED
    BY <1>3, <2>1, <2>2 DEF Listing, Inside
<1>11. ASSUME NEW i \in 3..(Depth + 1) PROVE Listing(i)'
  <2>1. i - 1 \in 1..Depth /\ stack'[i] = stack[i - 1] /\ (i < Depth + 1 => i - 1 < Depth)
    BY <1>1, <1>3
  <2>2. Listing(i - 1)
    BY <1>1, <2>1 DEF Calls
  <2> QED
    BY <1>1, <2>1, <2>2 DEF Listing, Inside
<1>12. ASSUME NEW i \in 1..(Depth + 1) PROVE Listing(i)'
  <2>1. i = 1 \/ i = 2 \/ i \in 3..(Depth + 1)
    BY <1>1
  <2> QED
    BY <1>9, <1>10, <1>11, <2>1
<1> QED
  BY <1>1, <1>8, <1>12 DEF Calls

LEMMA ReturnsCalls ==
  ASSUME Pre, Returns, UNCHANGED <<within, present>>
  PROVE  Calls'
<1>1. /\ Calls /\ Depth' = Depth - 1 /\ Depth \in Nat /\ Depth > 1 /\ Outer.dir = App
      /\ \A i \in 1..(Depth - 1) : stack'[i] = stack[i + 1]
  BY OuterCall DEF Returns
<1>2. Outer'.dir = App
  BY <1>1 DEF Outer
<1>3. ASSUME NEW i \in 1..(Depth - 2) PROVE stack'[i].dir \in Plugins
  <2>1. i \in 1..(Depth - 1) /\ i + 1 \in 1..(Depth - 1)
    BY <1>1
  <2> QED
    BY <1>1, <2>1 DEF Calls, Chain
<1>4. ASSUME NEW i \in 1..(Depth - 1), NEW j \in 1..(Depth - 1), i < j
      PROVE  stack'[j].dir \in Around(stack'[i].dir) /\ stack'[j].step = "plugins"
  <2>1. i + 1 \in 1..Depth /\ j + 1 \in 1..Depth /\ i + 1 < j + 1
    BY <1>1, <1>4
  <2> QED
    BY <1>1, <2>1 DEF Calls, Chain
<1>5. ASSUME NEW i \in 1..(Depth - 1) PROVE Listing(i)'
  <2>1. i + 1 \in 1..Depth /\ (i < Depth - 1 => i + 1 < Depth) /\ stack'[i] = stack[i + 1]
    BY <1>1
  <2>2. Listing(i + 1)
    BY <1>1, <2>1 DEF Calls
  <2> QED
    BY <1>1, <2>1, <2>2 DEF Listing, Inside
<1>6. \A x : Around(x)' = Around(x)
  BY DEF Around
<1>7. Chain'
  BY <1>1, <1>2, <1>3, <1>4, <1>6 DEF Chain
<1> QED
  BY <1>1, <1>5, <1>7 DEF Calls

\* A list without an item that has nothing left inside it is one still.
LEMMA ShorterListing ==
  ASSUME Pre, NEW x \in Items, Inside(x) \cap Todo = {}, UNCHANGED <<within, present>>,
         NEW step \in {"objects", "plugins"}, Head(stack).step = step, Turns(step, Todo \ {x})
  PROVE  Listing(1)'
<1>1. /\ stack'[1].step = step /\ stack'[1].todo = Todo \ {x} /\ stack'[1].dir = Dir
      /\ Types /\ Listing(1) /\ stack[1].step = step /\ stack[1].todo = Todo /\ stack[1].dir = Dir
  BY OuterCall DEF Turns, Frame, Pre
<1>2. ASSUME NEW y \in Todo, x \in within[y] PROVE y \notin Inside(Dir)
  BY <1>1, <1>2, InsideIs
<1>3. CASE step = "objects"
  <2>1. /\ Todo \subseteq Inside(Dir) \cap Objects
        /\ \A y \in Todo, z \in Inside(Dir) \cap Objects : z \in within[y] => z \in Todo
    BY <1>1, <1>3 DEF Listing
  <2>2. \A y \in Todo \ {x}, z \in Inside(Dir) \cap Objects : z \in within[y] => z \in Todo \ {x}
    BY <1>2, <2>1
  <2> QED
    BY <1>1, <1>3, <2>1, <2>2 DEF Listing, Inside
<1>4. CASE step = "plugins"
  <2>1. /\ Todo \subseteq Inside(Dir) \cap Plugins
        /\ \A y \in Todo, z \in Inside(Dir) : z \in within[y] => z \in Todo
    BY <1>1, <1>4 DEF Listing
  <2>2. \A y \in Todo \ {x}, z \in Inside(Dir) : z \in within[y] => z \in Todo \ {x}
    BY <1>2, <2>1
  <2> QED
    BY <1>1, <1>4, <2>1, <2>2 DEF Listing, Inside
<1> QED
  BY <1>3, <1>4

LEMMA CallsStep ==
  ASSUME Types, IInv, Next, Running'
  PROVE  Calls'
<1>1. ASSUME NEW p \in Profiles, NEW resources \in SUBSET Resources, Begin(p, resources)
      PROVE  Calls'
  <2>1. stack' = <<Frame(App, "write", resources)>>
    BY <1>1 DEF Begin
  <2>2. Depth' = 1 /\ stack'[1].dir = App /\ stack'[1].step = "write" /\ stack'[1].todo = resources
    BY <2>1 DEF Depth, Frame
  <2> QED
    BY <2>2 DEF Calls, Chain, Listing, Outer
<1>2. CASE Write
  <2>1. Pre /\ Head(stack).step = "write" /\ GoesOn("inject", Todo) /\ UNCHANGED <<within, present>>
    BY <1>2 DEF Write, Here, Pre, Fixed
  <2>2. Turns("inject", Todo)
    BY <2>1, GoesOnTurns, Innermost DEF Pre, Types
  <2>3. Listing(1)'
    <3>1. Listing(1) /\ Depth' = Depth /\ stack[1].step = "write" /\ stack[1].todo = Todo
      BY <2>1, <2>2, OuterCall DEF Turns
    <3> QED
      BY <2>2, <3>1 DEF Listing, Turns, Frame
  <2> QED
    BY <2>1, <2>2, <2>3, TurnsCalls
<1>3. CASE InjectDone
  <2>1. Pre /\ UNCHANGED <<within, present>> /\ GoesOn("objects", Inside(Dir) \cap Objects)
    BY <1>3 DEF InjectDone, Here, Pre, Fixed
  <2>2. Turns("objects", Inside(Dir) \cap Objects)
    BY <2>1, GoesOnTurns DEF Pre, Types, Items
  <2>3. Listing(1)'
    BY <2>1, <2>2 DEF Listing, Turns, Frame, Inside
  <2> QED
    BY <2>1, <2>2, <2>3, TurnsCalls
<1>4. CASE ObjectsDone
  <2>1. Pre /\ UNCHANGED <<within, present>> /\ GoesOn("plugins", Inside(Dir) \cap Plugins)
    BY <1>4 DEF ObjectsDone, Here, Pre, Fixed
  <2>2. Turns("plugins", Inside(Dir) \cap Plugins)
    BY <2>1, GoesOnTurns DEF Pre, Types, Items
  <2>3. Listing(1)'
    <3>1. \A y \in Inside(Dir) \cap Plugins, z \in Inside(Dir) :
             z \in within[y] => z \in Inside(Dir) \cap Plugins
      <4>1. \A y \in Plugins : within[y] \subseteq Bundles
        BY <2>1, OuterCall, Nesting DEF Pre
      <4>2. App \notin Inside(Dir)
        BY <2>1, InsideIs DEF Pre
      <4> QED
        BY <4>1, <4>2 DEF Bundles
    <3> QED
      BY <2>1, <2>2, <3>1 DEF Listing, Turns, Frame, Inside
  <2> QED
    BY <2>1, <2>2, <2>3, TurnsCalls
<1>5. CASE PluginsDone
  <2>1. Pre /\ UNCHANGED <<within, present>> /\ GoesOn("seal", {})
    BY <1>5 DEF PluginsDone, Here, Pre, Fixed
  <2>2. Turns("seal", {})
    BY <2>1, GoesOnTurns DEF Pre
  <2>3. Listing(1)'
    BY <2>2 DEF Listing, Turns, Frame
  <2> QED
    BY <2>1, <2>2, <2>3, TurnsCalls
<1>6. CASE Seal
  <2>1. Pre
    BY <1>6 DEF Seal, Here, Pre
  <2>2. Returns /\ UNCHANGED <<within, present>>
    BY <1>6, <2>1, SealReturns, RaisesTypes DEF Pre
  <2> QED
    BY <2>1, <2>2, ReturnsCalls
<1>7. ASSUME NEW r \in Objects, Inject(r) PROVE Calls'
  <2>1. Pre /\ within' = within /\ Head(stack).step = "inject"
    BY <1>7 DEF Inject, Here, Pre, Fixed
  <2>2. GoesOn("inject", Todo \ {r})
    BY <1>7, <2>1, RaisesTypes DEF Inject, Pre
  <2>3. Turns("inject", Todo \ {r})
    BY <2>1, <2>2, GoesOnTurns, Innermost DEF Pre, Types
  <2>4. Depth = 1 /\ Depth' = 1 /\ Listing(1) /\ stack[1].step = "inject" /\ stack[1].todo = Todo
    BY <1>7, <2>1, <2>3, Injects, OuterCall DEF Turns
  <2>5. Listing(1)'
    BY <2>3, <2>4 DEF Listing, Turns, Frame
  <2>6. Chain'
    BY <2>1, <2>3, TurnsChain
  <2> QED
    BY <2>4, <2>5, <2>6 DEF Calls
<1>8. ASSUME NEW x \in Objects, ResignObject(x) PROVE Calls'
  <2>1. /\ Pre /\ UNCHANGED <<within, present>> /\ Head(stack).step = "objects"
        /\ Inside(x) \cap Todo = {} /\ x \in Items
    BY <1>8 DEF ResignObject, Here, Pre, Fixed, Items
  <2>2. GoesOn("objects", Todo \ {x})
    BY <1>8, <2>1, RaisesTypes DEF ResignObject, Pre
  <2>3. Turns("objects", Todo \ {x})
    BY <2>1, <2>2, GoesOnTurns, Innermost DEF Pre, Types
  <2> QED
    BY <2>1, <2>3, ShorterListing, TurnsCalls
<1>9. ASSUME NEW b \in Plugins, ResignPlugin(b) PROVE Calls'
  <2>1. Pre /\ b \in Items
    BY <1>9 DEF ResignPlugin, Here, Pre, Items
  <2>2. /\ b \in Todo /\ Inside(b) \cap Todo = {} /\ Head(stack).step = "plugins"
        /\ b \in Inside(Dir) /\ UNCHANGED <<within, present>>
        /\ Enters(b, Todo \ {b}) \/ Turns("plugins", Todo \ {b})
    BY <1>9, <2>1, EntersPlugin
  <2> QED
    BY <2>1, <2>2, EntersCalls, ShorterListing, TurnsCalls
<1>10. ASSUME Stop PROVE FALSE
  BY <1>10, RaisesTypes DEF Stop
<1> QED
  BY <1>1, <1>2, <1>3, <1>4, <1>5, <1>6, <1>7, <1>8, <1>9, <1>10 DEF Next, Resign
-----------------------------------------------------------------------------
(***************************************************************************)
(* The invariant is kept: what has been signed.                            *)
(***************************************************************************)
\* Nothing but objects is in an object.
LEMMA InsideObjects ==
  ASSUME Types, Nested, NEW x \in Objects
  PROVE  {x} \cup Inside(x) \subseteq Objects /\ {x} \cup Inside(x) \subseteq Items
         /\ App \notin {x} \cup Inside(x)
<1>1. x \notin Bundles /\ x \in Everything
  BY ResignAssumption DEF Bundles, Everything, Items
<1>2. ASSUME NEW y \in Inside(x) PROVE y \in Objects
  <2>1. y \in There /\ y \in Items /\ x \in within[y]
    BY <1>2, InsideIs
  <2> QED
    BY <1>1, <2>1, Nesting DEF Items
<1> QED
  BY <1>2, ResignAssumption DEF Items

\* Signing leaves the team of everything else, the app and the plug-ins that
\* are being resigned among them, as it is.
LEMMA SignsTeams ==
  ASSUME Types, NEW S \in SUBSET Everything, Signs(S)
  PROVE  /\ \A x \in S : team'[x] = Team /\ sealed'[x] = TRUE
         /\ \A x \in Everything \ S : team'[x] = team[x]
         /\ \A x \in Everything \ S : sealed'[x] <=> sealed[x] /\ \A y \in S : x \notin Around(y)
         /\ signed' = signed \cup S
  BY DEF Types, Signs, Team

\* No call on the stack is for something inside what the innermost is for.
LEMMA CallsAreAround ==
  ASSUME Pre, NEW i \in 2..Depth
  PROVE  /\ stack[i].dir \in Bundles /\ stack[i].dir # Dir
         /\ stack[i].dir \in Around(Dir) /\ stack[i].dir \notin Inside(Dir)
         /\ Dir \notin Around(stack[i].dir)
<1>1. /\ Calls /\ Types /\ Nested /\ Depth \in Nat \ {0} /\ Dir = stack[1].dir
      /\ Dir \in Bundles /\ Dir \in Everything /\ Outer.dir = App
  BY OuterCall DEF Pre
<1>2. stack[i].dir \in Around(Dir) /\ stack[i].dir \in Bundles
  BY <1>1 DEF Calls, Chain, Outer, Bundles
<1>3. Dir \in Items /\ Around(Dir) = within[Dir] /\ stack[i].dir \in Everything
  BY <1>1, <1>2 DEF Around, Everything, Bundles, Items
<1>4. Dir \notin Around(stack[i].dir)
  BY <1>1, <1>2, <1>3, Nesting
<1>5. stack[i].dir \notin Inside(Dir)
  <2>1. ASSUME stack[i].dir \in Inside(Dir) PROVE FALSE
    <3>1. stack[i].dir \in Items /\ Dir \in within[stack[i].dir]
      BY <1>1, <2>1, InsideIs
    <3> QED
      BY <1>1, <1>4, <3>1, Nesting
  <2> QED
    BY <2>1
<1> QED
  BY <1>1, <1>2, <1>3, <1>4, <1>5, Nesting

LEMMA TurnsOuter ==
  ASSUME Pre, NEW step, NEW todo, Turns(step, todo)
  PROVE  /\ Depth = 1 => Outer' = Frame(App, step, todo) /\ Outer = Head(stack)
         /\ Depth # 1 => Outer' = Outer /\ Outer.step = "plugins"
                         /\ Outer.todo \subseteq Plugins
<1>1. /\ Depth \in Nat \ {0} /\ Depth' = Depth /\ Calls /\ stack[1] = Head(stack)
      /\ (Dir = App <=> Depth = 1)
  BY OuterCall DEF Turns
<1>2. CASE Depth = 1
  BY <1>1, <1>2 DEF Outer, Turns
<1>3. CASE Depth # 1
  <2>1. Outer' = Outer /\ Outer.step = "plugins" /\ Listing(Depth)
    BY <1>1, <1>3 DEF Outer, Turns, Calls, Chain
  <2> QED
    BY <1>3, <2>1 DEF Listing, Outer
<1> QED
  BY <1>2, <1>3

\* A step of an inner call disturbs nothing the call for the app relies on.
LEMMA InnerSigned ==
  ASSUME Pre, NEW step, NEW todo, Turns(step, todo), Depth # 1,
         UNCHANGED <<within, present, profile, grants>>,
         NEW S \in SUBSET Objects, signed' = signed \cup S, App \notin S,
         \A x \in S : team'[x] = Team, \A x \in Everything \ S : team'[x] = team[x]
  PROVE  SignedSoFar'
<1>1. /\ SignedSoFar /\ Outer' = Outer /\ Outer.step = "plugins" /\ Outer.todo \subseteq Plugins
      /\ Depth' = Depth /\ \A i \in 1..Depth : stack'[i].dir = stack[i].dir
  BY TurnsOuter, TurnsChain DEF Pre, IInv, Turns
<1>2. signed \subseteq Everything /\ Team' = Team
  BY DEF Pre, Types, Team
<1>3. \A x \in signed' : team'[x] = Team' /\ (x \in Plugins => grants'[x] = profile')
  <2>1. \A x \in S : x \notin Plugins
    BY ResignAssumption
  <2> QED
    BY <1>1, <1>2, <2>1 DEF SignedSoFar
<1>4. Outer'.todo \cap signed' = {} /\ App \notin signed'
  BY <1>1, ResignAssumption DEF SignedSoFar
<1>5. ASSUME NEW i \in 1..(Depth - 1)
      PROVE  Outer.todo \cap ({stack'[i].dir} \cup Inside(stack'[i].dir)) = {}
  <2>1. i \in 1..Depth
    BY OuterCall
  <2> QED
    BY <1>1, <1>5, <2>1 DEF SignedSoFar
<1>6. \A x : Inside(x)' = Inside(x)
  BY DEF Inside
<1> QED
  BY <1>1, <1>3, <1>4, <1>5, <1>6 DEF SignedSoFar

LEMMA SignedStep ==
  ASSUME Types, IInv, Next, Running'
  PROVE  SignedSoFar'
<1>1. ASSUME NEW p \in Profiles, NEW resources \in SUBSET Resources, Begin(p, resources)
      PROVE  SignedSoFar'
  <2>1. stack' = <<Frame(App, "write", resources)>> /\ signed' = {}
    BY <1>1 DEF Begin
  <2>2. Depth' = 1 /\ Outer'.step = "write"
    BY <2>1 DEF Depth, Outer, Frame
  <2> QED
    BY <2>1, <2>2 DEF SignedSoFar
<1>2. ASSUME Pre, NEW step \in {"inject", "objects", "plugins", "seal"}, NEW todo, Turns(step, todo),
             UNCHANGED <<within, present, profile, grants, team, signed>>,
             step = "inject" => Head(stack).step = "write",
             step = "objects" => Head(stack).step = "inject",
             step = "plugins" => Head(stack).step = "objects" /\ todo \subseteq Plugins
      PROVE  SignedSoFar'
  <2>1. CASE Depth # 1
    <3>1. signed' = signed \cup {} /\ App \notin {}
      BY <1>2
    <3> QED
      BY <1>2, <2>1, <3>1, InnerSigned
  <2>2. CASE Depth = 1
    <3>1. /\ Outer'.step = step /\ Outer'.todo = todo /\ Outer = Head(stack)
          /\ Depth' = 1 /\ SignedSoFar
      BY <1>2, <2>2, TurnsOuter DEF Turns, Frame, Pre, IInv
    <3>2. step = "plugins" => todo \cap signed = {}
      BY <1>2, <3>1, ResignAssumption DEF SignedSoFar
    <3>3. Team' = Team /\ Resources \subseteq Objects /\ 1..(Depth' - 1) = {}
      BY <1>2, <3>1, ResignAssumption DEF Team
    <3>4. CASE step = "inject"
      BY <1>2, <3>1, <3>3, <3>4 DEF SignedSoFar
    <3>5. CASE step = "objects"
      BY <1>2, <3>1, <3>3, <3>5 DEF SignedSoFar
    <3>6. CASE step = "plugins"
      BY <1>2, <3>1, <3>2, <3>3, <3>6 DEF SignedSoFar
    <3>7. CASE step = "seal"
      BY <1>2, <3>1, <3>3, <3>7 DEF SignedSoFar
    <3> QED
      BY <1>2, <3>4, <3>5, <3>6, <3>7
  <2> QED
    BY <2>1, <2>2
<1>3. CASE Write
  <2>1. /\ Pre /\ GoesOn("inject", Todo) /\ Head(stack).step = "write"
        /\ UNCHANGED <<within, present, profile, grants, team, signed>>
    BY <1>3 DEF Write, Here, Pre, Fixed
  <2>2. Turns("inject", Todo)
    BY <2>1, GoesOnTurns, Innermost DEF Pre, Types
  <2> QED
    BY <1>2, <2>1, <2>2
<1>4. CASE InjectDone
  <2>1. /\ Pre /\ GoesOn("objects", Inside(Dir) \cap Objects) /\ Head(stack).step = "inject"
        /\ UNCHANGED <<within, present, profile, grants, team, signed>>
    BY <1>4 DEF InjectDone, Here, Pre, Fixed
  <2>2. Turns("objects", Inside(Dir) \cap Objects)
    BY <2>1, GoesOnTurns DEF Pre, Types, Items
  <2> QED
    BY <1>2, <2>1, <2>2
<1>5. CASE ObjectsDone
  <2>1. /\ Pre /\ GoesOn("plugins", Inside(Dir) \cap Plugins) /\ Head(stack).step = "objects"
        /\ UNCHANGED <<within, present, profile, grants, team, signed>>
    BY <1>5 DEF ObjectsDone, Here, Pre, Fixed
  <2>2. Turns("plugins", Inside(Dir) \cap Plugins)
    BY <2>1, GoesOnTurns DEF Pre, Types, Items
  <2> QED
    BY <1>2, <2>1, <2>2
<1>6. CASE PluginsDone
  <2>1. /\ Pre /\ GoesOn("seal", {})
        /\ UNCHANGED <<within, present, profile, grants, team, signed>>
    BY <1>6 DEF PluginsDone, Here, Pre, Fixed
  <2>2. Turns("seal", {})
    BY <2>1, GoesOnTurns DEF Pre
  <2> QED
    BY <1>2, <2>1, <2>2
<1>7. CASE Seal
  <2>1. Pre
    BY <1>7 DEF Seal, Here, Pre
  <2>2. /\ Returns /\ Dir \in Plugins /\ Signs({Dir}) /\ grants' = [grants EXCEPT ![Dir] = profile]
        /\ UNCHANGED <<within, profile, present>>
    BY <1>7, <2>1, SealReturns, RaisesTypes DEF Pre
  <2>3. /\ Depth \in Nat /\ Depth > 1 /\ Depth' = Depth - 1 /\ Calls /\ Dir \in Everything
        /\ Dir = stack[1].dir /\ SignedSoFar
        /\ \A i \in 1..(Depth - 1) : stack'[i] = stack[i + 1]
    BY <2>1, <2>2, OuterCall DEF Returns, Pre, IInv
  <2>4. Outer' = Outer /\ Outer.step = "plugins"
    BY <2>3 DEF Outer, Calls, Chain
  <2>5. Dir # App /\ Dir \notin Outer.todo
    BY <2>2, <2>3, ResignAssumption DEF SignedSoFar
  <2>6. /\ signed' = signed \cup {Dir} /\ team'[Dir] = Team /\ Team' = Team
        /\ \A x \in signed : x # Dir => team'[x] = team[x]
    <3>1. {Dir} \in SUBSET Everything /\ signed \subseteq Everything /\ Types
      BY <2>1, <2>3 DEF Pre, Types
    <3>2. Team' = Team
      BY <2>1, <2>2 DEF Team
    <3> QED
      BY <2>2, <3>1, <3>2, SignsTeams
  <2>7. grants'[Dir] = profile /\ \A x \in Plugins : x # Dir => grants'[x] = grants[x]
    BY <2>1, <2>2 DEF Pre, Types, Bundles
  <2>8. \A x \in signed' : team'[x] = Team' /\ (x \in Plugins => grants'[x] = profile')
    BY <2>2, <2>3, <2>6, <2>7 DEF SignedSoFar
  <2>9. ASSUME NEW i \in 1..(Depth - 2)
        PROVE  Outer.todo \cap ({stack'[i].dir} \cup Inside(stack'[i].dir)) = {}
    <3>1. i + 1 \in 1..(Depth - 1) /\ stack'[i] = stack[i + 1]
      BY <2>3
    <3> QED
      BY <2>3, <3>1 DEF SignedSoFar
  <2>10. \A x : Inside(x)' = Inside(x)
    BY <2>2 DEF Inside
  <2> QED
    BY <2>3, <2>4, <2>5, <2>6, <2>8, <2>9, <2>10 DEF SignedSoFar
<1>8. ASSUME NEW r \in Objects, Inject(r) PROVE SignedSoFar'
  <2>1. Pre /\ UNCHANGED <<within, profile, grants>> /\ Head(stack).step = "inject"
    BY <1>8 DEF Inject, Here, Pre, Fixed
  <2>2. GoesOn("inject", Todo \ {r}) /\ Signs({r})
    BY <1>8, <2>1, RaisesTypes DEF Inject, Pre
  <2>3. Turns("inject", Todo \ {r})
    BY <2>1, <2>2, GoesOnTurns, Innermost DEF Pre, Types
  <2>4. Depth = 1 /\ r \in Resources /\ r # App /\ r \notin Plugins /\ r \in Everything
    BY <1>8, <2>1, Injects, ResignAssumption DEF Everything, Items
  <2>5. /\ Outer'.step = "inject" /\ Outer = Head(stack) /\ Depth' = 1 /\ SignedSoFar
    BY <2>1, <2>3, <2>4, TurnsOuter DEF Turns, Frame, Pre, IInv
  <2>6. /\ signed' = signed \cup {r} /\ team'[r] = Team /\ Team' = Team
        /\ \A x \in signed : x # r => team'[x] = team[x]
    <3>1. {r} \in SUBSET Everything /\ signed \subseteq Everything /\ Types
      BY <2>1, <2>4 DEF Pre, Types
    <3>2. Team' = Team
      BY <2>1, <2>2 DEF Team
    <3> QED
      BY <2>2, <3>1, <3>2, SignsTeams
  <2> QED
    BY <2>1, <2>4, <2>5, <2>6 DEF SignedSoFar
<1>9. ASSUME NEW x \in Objects, ResignObject(x) PROVE SignedSoFar'
  <2>1. /\ Pre /\ UNCHANGED <<within, present, profile, grants>> /\ Head(stack).step = "objects"
        /\ Inside(x) \cap Todo = {} /\ x \in Todo
    BY <1>9 DEF ResignObject, Here, Pre, Fixed, Items
  <2>2. GoesOn("objects", Todo \ {x})
    BY <1>9, <2>1, RaisesTypes DEF ResignObject, Pre
  <2>3. Turns("objects", Todo \ {x})
    BY <2>1, <2>2, GoesOnTurns, Innermost DEF Pre, Types
  <2> DEFINE S == {x} \cup Inside(x)
  <2>4. S \subseteq Objects /\ S \subseteq Everything /\ App \notin S
    BY <2>1, OuterCall, InsideObjects DEF Pre, Everything
  <2>5. PICK A \in {S, {}} : /\ signed' = signed \cup A
                             /\ \A y \in A : team'[y] = Team
                             /\ \A y \in Everything \ A : team'[y] = team[y]
    <3>1. CASE Signs(S)
      BY <2>1, <2>4, <3>1, SignsTeams DEF Pre
    <3>2. CASE UNCHANGED <<team, signed>>
      BY <3>2
    <3> QED
      BY <1>9, <2>1, <3>1, <3>2, RaisesTypes DEF ResignObject, Pre
  <2>6. A \subseteq Objects /\ App \notin A /\ A \cap (Todo \ {x}) = {}
    BY <2>1, <2>4
  <2> HIDE DEF S
  <2>7. CASE Depth # 1
    BY <2>1, <2>3, <2>5, <2>6, <2>7, InnerSigned
  <2>8. CASE Depth = 1
    <3>1. /\ Outer'.step = "objects" /\ Outer'.todo = Todo \ {x} /\ Outer = Head(stack)
          /\ Depth' = 1 /\ SignedSoFar /\ Outer.todo = Todo
      BY <2>1, <2>3, <2>8, TurnsOuter DEF Turns, Frame, Pre, IInv, Todo
    <3>2. \A y \in signed' : team'[y] = Team' /\ (y \in Plugins => grants'[y] = profile')
      <4>1. \A y \in A : y \notin Plugins
        BY <2>6, ResignAssumption
      <4>2. signed \subseteq Everything /\ Team' = Team
        BY <2>1 DEF Pre, Types, Team
      <4> QED
        BY <2>1, <2>5, <3>1, <4>1, <4>2 DEF SignedSoFar
    <3>3. signed' \subseteq Objects /\ Outer'.todo \cap signed' \subseteq Resources
      BY <2>1, <2>5, <2>6, <3>1 DEF SignedSoFar
    <3> QED
      BY <2>5, <2>6, <3>1, <3>2, <3>3 DEF SignedSoFar
  <2> QED
    BY <2>7, <2>8
<1>10. ASSUME NEW b \in Plugins, ResignPlugin(b) PROVE SignedSoFar'
  <2>1. Pre
    BY <1>10 DEF ResignPlugin, Here, Pre
  <2>2. /\ b \in Todo /\ Inside(b) \cap Todo = {} /\ Head(stack).step = "plugins"
        /\ b \in Inside(Dir) /\ UNCHANGED <<within, present, profile, grants, team, signed>>
        /\ Enters(b, Todo \ {b}) \/ Turns("plugins", Todo \ {b})
    BY <1>10, <2>1, EntersPlugin
  <2>3. SignedSoFar /\ Team' = Team /\ \A x : Inside(x)' = Inside(x)
    BY <2>1, <2>2 DEF Pre, IInv, Team, Inside
  <2>4. CASE Turns("plugins", Todo \ {b})
    <3>1. CASE Depth # 1
      <4>1. signed' = signed \cup {} /\ App \notin {}
        BY <2>2
      <4> QED
        BY <2>1, <2>2, <2>4, <3>1, <4>1, InnerSigned
    <3>2. CASE Depth = 1
      <4>1. /\ Outer'.step = "plugins" /\ Outer'.todo = Todo \ {b} /\ Outer = Head(stack)
            /\ Depth' = 1 /\ Outer.todo = Todo
        BY <2>1, <2>4, <3>2, TurnsOuter DEF Turns, Frame, Todo
      <4> QED
        BY <2>2, <2>3, <4>1 DEF SignedSoFar
    <3> QED
      BY <3>1, <3>2
  <2>5. CASE Enters(b, Todo \ {b})
    <3>1. /\ Depth \in Nat \ {0} /\ Depth' = Depth + 1 /\ stack[1] = Head(stack)
          /\ stack'[1].dir = b /\ stack'[2] = Frame(Dir, "plugins", Todo \ {b})
          /\ \A i \in 3..(Depth + 1) : stack'[i] = stack[i - 1]
          /\ stack[1].dir = Dir /\ stack[1].todo = Todo /\ Calls /\ Dir \in Everything
      BY <2>1, <2>5, OuterCall DEF Enters, Frame
    <3>2. Inside(b) \subseteq Inside(Dir)
      BY <2>1, <2>2, <3>1, OuterCall, InsideOf DEF Pre
    <3>3. /\ Outer'.step = "plugins" /\ Outer'.todo \subseteq Outer.todo
          /\ Outer.step = "plugins" /\ (Depth = 1 => Outer'.todo = Todo \ {b})
      <4>1. CASE Depth = 1
        BY <2>2, <3>1, <4>1 DEF Outer, Frame
      <4>2. CASE Depth # 1
        <5>1. Depth + 1 \in 3..(Depth + 1) /\ (Depth + 1) - 1 = Depth
          BY <3>1, <4>2
        <5> QED
          BY <3>1, <4>2, <5>1 DEF Outer, Calls, Chain
      <4> QED
        BY <4>1, <4>2
    <3>4. ASSUME NEW i \in 1..Depth
          PROVE  Outer'.todo \cap ({stack'[i].dir} \cup Inside(stack'[i].dir)) = {}
      <4>1. CASE i = 1
        <5>1. CASE Depth = 1
          BY <2>2, <3>1, <3>3, <4>1, <5>1
        <5>2. CASE Depth # 1
          <6>1. Outer.todo \cap Inside(Dir) = {}
            BY <2>3, <3>1, <5>2 DEF SignedSoFar
          <6> QED
            BY <2>2, <3>1, <3>2, <3>3, <4>1, <6>1
        <5> QED
          BY <5>1, <5>2
      <4>2. CASE i # 1
        <5>1. i - 1 \in 1..(Depth - 1) /\ stack'[i].dir = stack[i - 1].dir
          BY <3>1, <4>2 DEF Frame
        <5> QED
          BY <2>3, <3>3, <5>1 DEF SignedSoFar
      <4> QED
        BY <4>1, <4>2
    <3> QED
      BY <2>2, <2>3, <3>1, <3>3, <3>4 DEF SignedSoFar
  <2> QED
    BY <2>2, <2>4, <2>5
<1>11. ASSUME Stop PROVE FALSE
  BY <1>11, RaisesTypes DEF Stop
<1> QED
  BY <1>1, <1>3, <1>4, <1>5, <1>6, <1>7, <1>8, <1>9, <1>10, <1>11 DEF Next, Resign
-----------------------------------------------------------------------------
(***************************************************************************)
(* The invariant is kept: what has been decided.                           *)
(***************************************************************************)
LEMMA SettledStays ==
  ASSUME Types, NEW S \in SUBSET Everything, App \notin S, signed' = signed \cup S,
         \A x \in Everything \ S : team'[x] = team[x], misjudged \subseteq misjudged',
         NEW y \in Everything, Settled(y)
  PROVE  Settled(y)'
<1>1. team'[App] = team[App]
  BY DEF Everything
<1>2. y \in S => y \in signed'
  OBVIOUS
<1>3. y \notin S => team'[y] = team[y]
  OBVIOUS
<1> QED
  BY <1>1, <1>2, <1>3 DEF Settled

LEMMA LedStays ==
  ASSUME Pre, NEW step, NEW todo, Turns(step, todo), within' = within,
         NEW S \in SUBSET Objects, \A x \in Everything \ S : team'[x] = team[x],
         misjudged \subseteq misjudged', NEW i \in 1..(Depth - 1)
  PROVE  Led(i)'
<1>1. Led(i) /\ Depth' = Depth /\ Depth \in Nat /\ Calls
  BY OuterCall DEF Pre, IInv, Judged, Turns
<1>2. \A j \in 1..Depth : stack'[j].dir = stack[j].dir
  BY TurnsChain
<1>3. stack[i].dir \in Plugins
  BY <1>1 DEF Calls, Chain
<1>4. stack[i].dir \in Everything \ S /\ App \in Everything \ S
  BY <1>3, ResignAssumption DEF Everything, Items
<1>5. team'[stack'[i].dir] = team[stack[i].dir] /\ team'[App] = team[App]
  BY <1>1, <1>2, <1>4
<1>6. ASSUME NEW j \in i..Depth, stack[j].dir \in misjudged
      PROVE  stack'[j].dir \in misjudged'
  BY <1>1, <1>2, <1>6
<1> QED
  BY <1>1, <1>5, <1>6 DEF Led

\* The call for the app decides against y.
LEMMA DecidedSettled ==
  ASSUME NEW y, Decides(y, FALSE), Dir = App, team' = team
  PROVE  Settled(y)'
<1>1. y \in misjudged' \/ ShouldResign(y, team[Dir], team[y]) = FALSE
  BY DEF Decides
<1> QED
  BY <1>1 DEF Settled, ShouldResign

LEMMA InnerPassed ==
  ASSUME Pre, NEW step, NEW todo, Turns(step, todo), within' = within, Depth # 1,
         NEW y, Passed(y)'
  PROVE  Passed(y)
<1>1. Outer' = Outer /\ Depth' = Depth /\ \A i \in 1..Depth : stack'[i].dir = stack[i].dir
  BY TurnsOuter, TurnsChain DEF Turns
<1> QED
  BY <1>1 DEF Passed

\* With the next list nothing new is decided.
LEMMA NextList ==
  ASSUME Pre, NEW step \in {"inject", "objects", "plugins", "seal"}, NEW todo, Turns(step, todo),
         UNCHANGED <<within, present, team, signed>>, misjudged \subseteq misjudged',
         step = "objects" => todo = Inside(Dir) \cap Objects,
         step = "plugins" => Head(stack).step = "objects" /\ Todo = {}
                             /\ todo = Inside(Dir) \cap Plugins,
         step = "seal" => Head(stack).step = "plugins" /\ Todo = {}
  PROVE  Judged'
<1>1. \A i \in 1..(Depth - 1) : Led(i)'
  <2>1. \A x \in Everything \ {} : team'[x] = team[x]
    OBVIOUS
  <2> QED
    BY <2>1, LedStays
<1>2. ASSUME NEW y \in There, Passed(y)' PROVE Passed(y)
  <2>1. CASE Depth # 1
    BY <1>2, <2>1, InnerPassed
  <2>2. CASE Depth = 1
    <3>1. /\ Outer'.step = step /\ Outer'.todo = todo /\ Outer = Head(stack)
          /\ Dir = App /\ Outer.todo = Todo /\ Depth' = 1 /\ stack'[1].dir = stack[1].dir
      BY <2>2, TurnsOuter, TurnsChain, OuterCall DEF Frame, Todo, Turns
    <3>2. y \in Inside(App) /\ y \in Objects \cup Plugins
      BY InsideIs, Nesting, OuterCall DEF Pre, Items
    <3>3. y \notin todo /\ y # stack[1].dir
      BY <1>2, <3>1 DEF Passed
    <3>4. CASE step = "objects"
      BY <1>2, <3>1, <3>2, <3>3, <3>4 DEF Passed
    <3>5. CASE step = "plugins"
      BY <2>2, <3>1, <3>2, <3>3, <3>5 DEF Passed
    <3>6. CASE step = "seal"
      BY <2>2, <3>1, <3>3, <3>6 DEF Passed
    <3>7. CASE step = "inject"
      BY <1>2, <3>1, <3>7 DEF Passed
    <3> QED
      BY <3>4, <3>5, <3>6, <3>7
  <2> QED
    BY <2>1, <2>2
<1>3. ASSUME NEW y \in There, Passed(y)' PROVE Settled(y)'
  <2>1. Settled(y)
    BY <1>2, <1>3 DEF Pre, IInv, Judged
  <2> QED
    BY <2>1 DEF Settled
<1> QED
  BY <1>1, <1>3 DEF Judged, There, Turns

\* Neither is it by a list without x, but for the decision on x.
LEMMA ListWithout ==
  ASSUME Pre, NEW x \in Items, NEW step \in {"objects", "plugins"}, Head(stack).step = step,
         Turns(step, Todo \ {x}), within' = within, Depth = 1, NEW y, Passed(y)', y # x
  PROVE  Passed(y)
<1>1. /\ Outer'.step = step /\ Outer'.todo = Todo \ {x} /\ Outer = Head(stack)
      /\ Outer.todo = Todo /\ Depth' = 1 /\ stack'[1].dir = stack[1].dir
  BY TurnsOuter, TurnsChain, OuterCall DEF Frame, Todo, Turns
<1> QED
  BY <1>1 DEF Passed
LEMMA JudgedStep ==
  ASSUME Types, IInv, Next, Running'
  PROVE  Judged'
<1>1. ASSUME NEW p \in Profiles, NEW resources \in SUBSET Resources, Begin(p, resources)
      PROVE  Judged'
  <2>1. stack' = <<Frame(App, "write", resources)>>
    BY <1>1 DEF Begin
  <2>2. Depth' = 1 /\ Outer'.step = "write"
    BY <2>1 DEF Depth, Outer, Frame
  <2> QED
    BY <2>2 DEF Judged, Passed
<1>2. CASE Write
  <2>1. Pre /\ GoesOn("inject", Todo) /\ UNCHANGED <<within, present, team, signed, misjudged>>
    BY <1>2 DEF Write, Here, Pre, Fixed
  <2>2. Turns("inject", Todo)
    BY <2>1, GoesOnTurns, Innermost DEF Pre, Types
  <2> QED
    BY <2>1, <2>2, NextList
<1>3. CASE InjectDone
  <2>1. /\ Pre /\ GoesOn("objects", Inside(Dir) \cap Objects)
        /\ UNCHANGED <<within, present, team, signed, misjudged>>
    BY <1>3 DEF InjectDone, Here, Pre, Fixed
  <2>2. Turns("objects", Inside(Dir) \cap Objects)
    BY <2>1, GoesOnTurns DEF Pre, Types, Items
  <2> QED
    BY <2>1, <2>2, NextList
<1>4. CASE ObjectsDone
  <2>1. /\ Pre /\ GoesOn("plugins", Inside(Dir) \cap Plugins) /\ Head(stack).step = "objects"
        /\ Todo = {} /\ UNCHANGED <<within, present, team, signed, misjudged>>
    BY <1>4 DEF ObjectsDone, Here, Pre, Fixed
  <2>2. Turns("plugins", Inside(Dir) \cap Plugins)
    BY <2>1, GoesOnTurns DEF Pre, Types, Items
  <2> QED
    BY <2>1, <2>2, NextList
<1>5. CASE PluginsDone
  <2>1. /\ Pre /\ GoesOn("seal", {}) /\ Head(stack).step = "plugins" /\ Todo = {}
        /\ UNCHANGED <<within, present, team, signed, misjudged>>
    BY <1>5 DEF PluginsDone, Here, Pre, Fixed
  <2>2. Turns("seal", {})
    BY <2>1, GoesOnTurns DEF Pre
  <2> QED
    BY <2>1, <2>2, NextList
<1>6. CASE Seal
  <2>1. Pre
    BY <1>6 DEF Seal, Here, Pre
  <2>2. Returns /\ Dir \in Plugins /\ Signs({Dir}) /\ UNCHANGED <<within, present, misjudged>>
    BY <1>6, <2>1, SealReturns, RaisesTypes DEF Pre
  <2>3. /\ Depth \in Nat /\ Depth > 1 /\ Depth' = Depth - 1 /\ Calls /\ Dir \in Everything
        /\ Dir = stack[1].dir /\ Judged /\ Types
        /\ \A i \in 1..(Depth - 1) : stack'[i] = stack[i + 1]
    BY <2>1, <2>2, OuterCall DEF Returns, Pre, IInv
  <2>4. /\ signed' = signed \cup {Dir} /\ Dir # App /\ {Dir} \in SUBSET Everything
        /\ \A x \in Everything \ {Dir} : team'[x] = team[x]
    <3>1. {Dir} \in SUBSET Everything /\ Dir # App
      BY <2>2, <2>3, ResignAssumption
    <3> QED
      BY <2>2, <2>3, <3>1, SignsTeams
  <2>5. Outer' = Outer
    BY <2>3 DEF Outer
  <2>6. ASSUME NEW y \in There, Passed(y)' PROVE Settled(y)'
    <3>1. CASE y = Dir
      BY <2>4, <3>1 DEF Settled
    <3>2. CASE y # Dir
      <4>1. ASSUME NEW i \in 1..Depth PROVE y # stack[i].dir
        <5>1. CASE i = 1
          BY <2>3, <3>2, <5>1
        <5>2. CASE i # 1
          <6>1. i - 1 \in 1..(Depth - 1) /\ stack'[i - 1] = stack[i]
            BY <2>3, <5>2
          <6> QED
            BY <2>3, <2>6, <6>1 DEF Passed
        <5> QED
          BY <5>1, <5>2
      <4>2. Passed(y)
        BY <2>5, <2>6, <4>1 DEF Passed
      <4>3. Settled(y) /\ y \in Everything
        BY <2>3, <4>2, InsideIs DEF Judged, Everything
      <4> QED
        BY <2>2, <2>3, <2>4, <4>3, SettledStays
    <3> QED
      BY <3>1, <3>2
  <2>7. ASSUME NEW i \in 1..(Depth - 2) PROVE Led(i)'
    <3>1. i + 1 \in 1..(Depth - 1) /\ i + 1 \in 2..Depth /\ stack'[i] = stack[i + 1]
      BY <2>3
    <3>2. /\ Led(i + 1) /\ stack[i + 1].dir # Dir /\ stack[i + 1].dir \in Everything
      BY <2>1, <2>3, <3>1, CallsAreAround DEF Judged, Bundles, Everything, Items
    <3>3. team'[stack'[i].dir] = team[stack[i + 1].dir] /\ team'[App] = team[App]
      BY <2>4, <3>1, <3>2 DEF Everything
    <3>4. ASSUME NEW j \in (i + 1)..Depth, stack[j].dir \in misjudged
          PROVE  \E k \in i..(Depth - 1) : stack'[k].dir \in misjudged'
      <4>1. j - 1 \in i..(Depth - 1) /\ j - 1 \in 1..(Depth - 1) /\ stack'[j - 1] = stack[j]
        BY <2>3
      <4> QED
        BY <2>2, <3>4, <4>1
    <3> QED
      BY <2>3, <3>2, <3>3, <3>4 DEF Led
  <2> QED
    BY <2>2, <2>3, <2>6, <2>7 DEF Judged, There
<1>7. ASSUME NEW r \in Objects, Inject(r) PROVE Judged'
  <2>1. Pre /\ within' = within
    BY <1>7 DEF Inject, Here, Pre, Fixed
  <2>2. GoesOn("inject", Todo \ {r})
    BY <1>7, <2>1, RaisesTypes DEF Inject, Pre
  <2>3. Turns("inject", Todo \ {r})
    BY <2>1, <2>2, GoesOnTurns, Innermost DEF Pre, Types
  <2>4. Depth' = 1 /\ Outer'.step = "inject"
    BY <1>7, <2>1, <2>3, Injects, TurnsOuter DEF Turns, Frame
  <2> QED
    BY <2>4 DEF Judged, Passed
<1>8. ASSUME NEW x \in Objects, ResignObject(x) PROVE Judged'
  <2>1. /\ Pre /\ UNCHANGED <<within, present>> /\ Head(stack).step = "objects"
        /\ x \in Items /\ Types /\ Judged
    BY <1>8 DEF ResignObject, Here, Pre, Fixed, Items, IInv
  <2>2. GoesOn("objects", Todo \ {x}) /\ misjudged \subseteq misjudged'
    BY <1>8, <2>1, RaisesTypes, DecidesTypes DEF ResignObject, Pre
  <2>3. Turns("objects", Todo \ {x})
    BY <2>1, <2>2, GoesOnTurns, Innermost DEF Pre, Types
  <2> DEFINE S == {x} \cup Inside(x)
  <2>4. S \subseteq Objects /\ S \in SUBSET Everything /\ App \notin S
    BY <2>1, OuterCall, InsideObjects DEF Pre, Everything
  <2>5. PICK A \in {S, {}} : /\ signed' = signed \cup A
                             /\ \A y \in Everything \ A : team'[y] = team[y]
                             /\ x \in A \/ (Decides(x, FALSE) /\ team' = team)
    <3>1. CASE Signs(S)
      BY <2>1, <2>4, <3>1, SignsTeams
    <3>2. CASE UNCHANGED <<team, signed>> /\ Decides(x, FALSE)
      BY <3>2
    <3> QED
      BY <1>8, <2>1, <3>1, <3>2, RaisesTypes DEF ResignObject, Pre
  <2>6. A \in SUBSET Objects /\ A \in SUBSET Everything /\ App \notin A
    BY <2>4
  <2> HIDE DEF S
  <2>7. \A i \in 1..(Depth - 1) : Led(i)'
    BY <2>1, <2>2, <2>3, <2>5, <2>6, LedStays
  <2>8. ASSUME NEW y \in There, Passed(y)' PROVE Settled(y)'
    <3>1. ASSUME Passed(y) PROVE Settled(y)'
      <4>1. Settled(y) /\ y \in Everything
        BY <2>1, <3>1, InsideIs DEF Judged, Everything
      <4> QED
        BY <2>1, <2>2, <2>5, <2>6, <4>1, SettledStays
    <3>2. CASE Depth # 1
      BY <2>1, <2>3, <2>8, <3>1, <3>2, InnerPassed
    <3>3. CASE Depth = 1 /\ y # x
      BY <2>1, <2>3, <2>8, <3>1, <3>3, ListWithout
    <3>4. CASE Depth = 1 /\ y = x
      <4>1. Dir = App
        BY <2>1, <3>4, OuterCall
      <4>2. CASE x \in A
        BY <2>5, <3>4, <4>2 DEF Settled
      <4>3. CASE Decides(x, FALSE) /\ team' = team
        BY <3>4, <4>1, <4>3, DecidedSettled
      <4> QED
        BY <2>5, <4>2, <4>3
    <3> QED
      BY <3>2, <3>3, <3>4
  <2> QED
    BY <2>1, <2>3, <2>7, <2>8 DEF Judged, There, Turns
<1>9. ASSUME NEW b \in Plugins, ResignPlugin(b) PROVE Judged'
  <2>1. Pre /\ Types /\ Judged /\ b \in Items
    BY <1>9 DEF ResignPlugin, Here, Pre, IInv, Items
  <2>2. /\ b \in Todo /\ Head(stack).step = "plugins"
        /\ UNCHANGED <<within, present, team, signed>> /\ misjudged \subseteq misjudged'
        /\ \/ Decides(b, TRUE) /\ Enters(b, Todo \ {b})
           \/ Decides(b, FALSE) /\ Turns("plugins", Todo \ {b})
    BY <1>9, <2>1, EntersPlugin
  <2>3. ASSUME NEW y, Settled(y) PROVE Settled(y)'
    BY <2>2, <2>3 DEF Settled
  <2>4. CASE Decides(b, FALSE) /\ Turns("plugins", Todo \ {b})
    <3>1. \A i \in 1..(Depth - 1) : Led(i)'
      <4>1. \A x \in Everything \ {} : team'[x] = team[x]
        BY <2>2
      <4> QED
        BY <2>1, <2>2, <2>4, <4>1, LedStays
    <3>2. ASSUME NEW y \in There, Passed(y)' PROVE Settled(y)'
      <4>1. CASE Depth # 1
        BY <2>1, <2>2, <2>3, <2>4, <3>2, <4>1, InnerPassed DEF Judged
      <4>2. CASE Depth = 1 /\ y # b
        BY <2>1, <2>2, <2>3, <2>4, <3>2, <4>2, ListWithout DEF Judged
      <4>3. CASE Depth = 1 /\ y = b
        BY <2>1, <2>2, <2>4, <4>3, OuterCall, DecidedSettled
      <4> QED
        BY <4>1, <4>2, <4>3
    <3> QED
      BY <2>2, <2>4, <3>1, <3>2 DEF Judged, There, Turns
  <2>5. CASE Decides(b, TRUE) /\ Enters(b, Todo \ {b})
    <3>1. /\ Depth \in Nat \ {0} /\ Depth' = Depth + 1 /\ stack[1] = Head(stack)
          /\ stack'[1].dir = b /\ stack'[2] = Frame(Dir, "plugins", Todo \ {b})
          /\ stack[1].dir = Dir /\ stack[1].todo = Todo
          /\ \A i \in 3..(Depth + 1) : stack'[i] = stack[i - 1]
      BY <2>1, <2>5, OuterCall DEF Enters, Frame
    <3>2. \A i \in 2..(Depth + 1) : stack'[i].dir = stack[i - 1].dir
      BY <3>1 DEF Frame
    <3>3. ASSUME NEW y \in There, Passed(y)' PROVE Passed(y)
      <4>1. ASSUME NEW i \in 1..Depth PROVE y # stack[i].dir
        <5>1. i + 1 \in 2..(Depth + 1) /\ (i + 1) - 1 = i /\ i + 1 \in 1..Depth'
          BY <3>1
        <5>2. stack'[i + 1].dir = stack[i].dir
          BY <3>2, <5>1
        <5> QED
          BY <3>3, <5>1, <5>2 DEF Passed
      <4>2. CASE Depth = 1
        <5>1. /\ Outer'.todo = Todo \ {b} /\ Outer.todo = Todo /\ Outer.step = "plugins"
              /\ 1 \in 1..Depth'
          BY <2>2, <3>1, <4>2 DEF Outer, Frame
        <5>2. y # b /\ y \notin Todo \ {b}
          BY <3>1, <3>3, <5>1 DEF Passed
        <5> QED
          BY <4>1, <5>1, <5>2 DEF Passed
      <4>3. CASE Depth # 1
        <5>1. Depth + 1 \in 3..(Depth + 1) /\ (Depth + 1) - 1 = Depth
          BY <3>1, <4>3
        <5>2. Outer' = Outer
          BY <3>1, <5>1 DEF Outer
        <5> QED
          BY <3>3, <4>1, <5>2 DEF Passed
      <4> QED
        BY <4>2, <4>3
    <3>4. ASSUME NEW i \in 1..(Depth - 1) PROVE Led(i + 1)'
      <4>1. Led(i) /\ stack'[i + 1].dir = stack[i].dir
        <5>1. i + 1 \in 2..(Depth + 1) /\ (i + 1) - 1 = i
          BY <3>1
        <5> QED
          BY <2>1, <3>2, <5>1 DEF Judged
      <4>2. ASSUME NEW j \in i..Depth, stack[j].dir \in misjudged
            PROVE  \E k \in (i + 1)..(Depth + 1) : stack'[k].dir \in misjudged'
        <5>1. j + 1 \in 2..(Depth + 1) /\ (j + 1) - 1 = j /\ j + 1 \in (i + 1)..(Depth + 1)
          BY <3>1
        <5> QED
          BY <2>2, <3>2, <4>2, <5>1
      <4> QED
        BY <2>2, <3>1, <4>1, <4>2 DEF Led
    <3>5. Led(1)'
      <4>1. b # Calabash /\ 1 \in 1..Depth'
        BY <3>1, ResignAssumption
      <4>2. b \in misjudged' \/ team[Dir] \in {None, team[b]}
        BY <2>5, <4>1 DEF Decides, ShouldResign
      <4>3. CASE b \in misjudged'
        BY <3>1, <4>1, <4>3 DEF Led
      <4>4. CASE team[Dir] \in {None, team[b]} /\ team[App] \in {None, team[Dir]}
        BY <2>2, <3>1, <4>4 DEF Led
      <4>5. CASE \E j \in 1..Depth : stack[j].dir \in misjudged
        <5>1. PICK j \in 1..Depth : stack[j].dir \in misjudged
          BY <4>5
        <5>2. j + 1 \in 2..(Depth + 1) /\ (j + 1) - 1 = j /\ j + 1 \in 1..(Depth + 1)
          BY <3>1
        <5>3. stack'[j + 1].dir \in misjudged'
          BY <2>2, <3>2, <5>1, <5>2
        <5> QED
          BY <3>1, <5>2, <5>3 DEF Led
      <4>6. team[App] \in {None, team[Dir]} \/ \E j \in 1..Depth : stack[j].dir \in misjudged
        <5>1. CASE Depth = 1
          BY <2>1, <5>1, OuterCall
        <5>2. CASE Depth # 1
          <6>1. Led(1)
            BY <2>1, <3>1, <5>2 DEF Judged
          <6> QED
            BY <3>1, <6>1 DEF Led
        <5> QED
          BY <5>1, <5>2
      <4> QED
        BY <4>2, <4>3, <4>4, <4>5, <4>6
    <3>6. ASSUME NEW i \in 1..Depth PROVE Led(i)'
      <4>1. CASE i = 1
        BY <3>5, <4>1
      <4>2. CASE i # 1
        <5>1. i - 1 \in 1..(Depth - 1) /\ (i - 1) + 1 = i
          BY <3>1, <4>2
        <5>2. Led((i - 1) + 1)'
          BY <3>4, <5>1
        <5> QED
          BY <5>1, <5>2
      <4> QED
        BY <4>1, <4>2
    <3> QED
      BY <2>1, <2>2, <2>3, <3>1, <3>3, <3>6 DEF Judged, There
  <2> QED
    BY <2>2, <2>4, <2>5
<1>10. ASSUME Stop PROVE FALSE
  BY <1>10, RaisesTypes DEF Stop
<1> QED
  BY <1>1, <1>2, <1>3, <1>4, <1>5, <1>6, <1>7, <1>8, <1>9, <1>10 DEF Next, Resign
-----------------------------------------------------------------------------
(***************************************************************************)
(* The invariant is kept: what is signed twice.                            *)
(***************************************************************************)
LEMMA ExcusedStays ==
  ASSUME within' = within, present \subseteq present', misjudged \subseteq misjudged',
         NEW x, Excused(x)
  PROVE  Excused(x)'
<1>1. Inside(x) \subseteq Inside(x)'
  BY DEF Inside
<1> QED
  BY <1>1 DEF Excused, Around

\* There is nothing in a resource, so that what an item is in is there.
LEMMA AroundIsThere ==
  ASSUME Pre, NEW x \in Items, NEW y \in within[x], y # App
  PROVE  y \in There /\ y \notin Resources /\ y \in Items /\ Around(y) = within[y]
<1>1. Types /\ Nested /\ Standing
  BY DEF Pre, IInv, Standing
<1>2. y \in Items /\ y \notin Resources
  BY <1>1, Nesting DEF Types, Everything
<1> QED
  BY <1>1, <1>2, Nesting DEF Standing, There, Items

\* What is around something inside what the innermost call is for: its own
\* bundle, what that is in, or something between the two.
LEMMA Between ==
  ASSUME Pre, NEW x \in Inside(Dir), NEW y \in within[x]
  PROVE  y = Dir \/ y \in Around(Dir) \/ y \in Inside(Dir)
<1>1. /\ Types /\ Nested /\ Dir \in Everything /\ x \in Items /\ Dir \in within[x] /\ y \in Everything
  BY OuterCall, InsideIs DEF Pre, Types
<1>2. CASE Dir \in Around(y)
  <2>1. y # App
    BY <1>2 DEF Around
  <2>2. y \in There /\ Around(y) = within[y]
    BY <1>1, <2>1, AroundIsThere
  <2> QED
    BY <1>1, <1>2, <2>2, InsideIs
<1> QED
  BY <1>1, <1>2, Nesting

\* What an inner call decides to sign the call for the app has signed, unless
\* one of the decisions was made blindly.
LEMMA Repeats ==
  ASSUME Pre, Depth # 1, NEW x \in Inside(Dir), x # Calabash, Decides(x, TRUE),
         x \notin misjudged', \A i \in 1..Depth : stack[i].dir \notin misjudged
  PROVE  x \in signed /\ team[Dir] \in {None, Team}
<1>1. /\ Types /\ Nested /\ Depth \in Nat \ {0} /\ Dir \in Everything /\ Dir = stack[1].dir
      /\ Outer.step = "plugins" /\ SignedSoFar /\ Judged
  <2>1. Pre /\ Depth \in Nat \ {0} /\ Depth # 1 /\ Calls
    BY OuterCall
  <2>2. Outer.step = "plugins"
    BY <2>1 DEF Calls, Chain, Outer
  <2> QED
    BY <2>2, OuterCall DEF Pre, IInv
<1>2. x \in There /\ x # Dir
  BY <1>1, InsideIs, InsideOf
<1>3. x \notin Outer.todo
  BY <1>1 DEF SignedSoFar
<1>4. ASSUME NEW i \in 1..Depth PROVE x # stack[i].dir
  BY <1>1, <1>2, CallsAreAround
<1>5. Settled(x) /\ Led(1)
  BY <1>1, <1>2, <1>3, <1>4 DEF Passed, Judged
<1>6. team[App] \in {None, team[Dir]}
  BY <1>1, <1>5 DEF Led
<1>7. team[Dir] \in {None, team[x]} /\ x \notin misjudged
  BY DEF Decides, ShouldResign
<1>8. x \in signed
  BY <1>5, <1>6, <1>7 DEF Settled
<1> QED
  BY <1>1, <1>7, <1>8 DEF SignedSoFar

\* Or else what is around it, within that call, is excused.
LEMMA RepeatsOrExcused ==
  ASSUME Pre, Depth # 1, NEW x \in Inside(Dir), Decides(x, TRUE), UNCHANGED <<within, present>>,
         NEW y \in Inside(Dir), y \in within[x]
  PROVE  Excused(y)' \/ team[Dir] \in {None, Team}
<1>1. /\ Types /\ Nested /\ Dir \in Everything /\ Dir = stack[1].dir /\ Dir # App /\ Calls
      /\ x \in Items /\ Depth \in Nat \ {0}
  BY OuterCall, InsideIs DEF Pre
<1>2. y \in Items /\ y \in Everything /\ Around(y) = within[y] /\ Dir \in within[y] /\ x \in Inside(y)
  BY <1>1, InsideIs, Nesting DEF Everything
<1>3. Inside(y)' = Inside(y) /\ Around(y)' = Around(y) /\ misjudged \subseteq misjudged'
  BY <1>1, DecidesTypes DEF Inside, Around
<1>4. CASE x = Calabash
  BY <1>1, <1>2, <1>3, <1>4 DEF Excused
<1>5. CASE x \in misjudged'
  BY <1>2, <1>3, <1>5 DEF Excused
<1>6. ASSUME NEW i \in 1..Depth, stack[i].dir \in misjudged PROVE Excused(y)'
  <2>1. stack[i].dir \in {Dir} \cup Around(Dir)
    BY <1>1, CallsAreAround
  <2>2. Around(Dir) \subseteq Around(y)
    BY <1>1, <1>2, Nesting
  <2> QED
    BY <1>2, <1>3, <1>6, <2>1, <2>2 DEF Excused
<1> QED
  BY <1>4, <1>5, <1>6, Repeats

\* While the innermost call goes on the others wait for what they did.
LEMMA TurnsWaits ==
  ASSUME Pre, NEW step, NEW todo, Turns(step, todo), UNCHANGED <<within, profile>>,
         NEW S \in SUBSET Objects, \A x \in Everything \ S : team'[x] = team[x],
         NEW x, NEW j \in 2..Depth
  PROVE  Waits(x, j) => Waits(x, j)'
<1>1. stack'[j] = stack[j] /\ Depth' = Depth /\ Team' = Team
  BY DEF Turns, Team
<1>2. stack[j].dir \in Everything \ S /\ stack[j].step = "plugins"
  <2>1. stack[j].dir \in Bundles /\ Calls /\ Depth \in Nat
    BY CallsAreAround, OuterCall
  <2>2. stack[j].dir \in Everything \ S
    BY <2>1, ResignAssumption DEF Bundles, Everything, Items
  <2>3. 1 \in 1..Depth /\ j \in 1..Depth /\ 1 < j
    BY <2>1
  <2> QED
    BY <2>1, <2>2, <2>3 DEF Calls, Chain
<1> QED
  BY <1>1, <1>2 DEF Waits

LEMMA TurnsRepaired ==
  ASSUME Pre, NEW step, NEW todo, Turns(step, todo),
         UNCHANGED <<within, present, profile, team, signed>>, misjudged \subseteq misjudged',
         \A x \in signed : \/ sealed[x] => sealed'[x]
                           \/ x = Dir
                           \/ x \in Around(Dir),
         \A x \in signed : Waits(x, 1) => Excused(x)' \/ Waits(x, 1)'
  PROVE  Repaired'
<1>1. /\ Repaired /\ Depth' = Depth /\ Depth \in Nat \ {0} /\ stack[1].dir = Dir
      /\ \A i \in 1..Depth : stack'[i].dir = stack[i].dir
  BY TurnsChain, OuterCall DEF Turns, Pre, IInv
<1>2. \A x : Excused(x) => Excused(x)'
  BY ExcusedStays
<1>3. \A x : \A j \in 2..Depth : Waits(x, j) => Waits(x, j)'
  <2>1. \A x \in Everything \ {} : team'[x] = team[x]
    OBVIOUS
  <2> QED
    BY <2>1, TurnsWaits
<1>4. ASSUME NEW i \in 1..Depth, NEW x \in signed \cap Around(stack[i].dir)
      PROVE  Excused(x)' \/ \E j \in (i + 1)..Depth : Waits(x, j)'
  <2>1. Excused(x) \/ \E j \in (i + 1)..Depth : Waits(x, j)
    BY <1>1 DEF Repaired
  <2>2. (i + 1)..Depth \subseteq 2..Depth
    BY <1>1
  <2> QED
    BY <1>2, <1>3, <2>1, <2>2
<1>5. ASSUME NEW x \in signed
      PROVE  sealed'[x] \/ Excused(x)' \/ \E j \in 1..Depth : Waits(x, j)'
  <2>1. CASE x = Dir
    <3>1. Waits(x, 1)' /\ 1 \in 1..Depth
      BY <1>1, <2>1 DEF Waits
    <3> QED
      BY <3>1
  <2>2. CASE x \in Around(Dir)
    <3>1. 1 \in 1..Depth /\ (1 + 1)..Depth \subseteq 1..Depth
      BY <1>1
    <3>2. x \in signed \cap Around(stack[1].dir)
      BY <1>1, <2>2
    <3> QED
      BY <1>4, <3>1, <3>2
  <2>3. CASE sealed[x] => sealed'[x]
    <3>1. CASE sealed[x] \/ Excused(x)
      BY <1>2, <2>3, <3>1
    <3>2. ASSUME NEW j \in 1..Depth, Waits(x, j) PROVE Excused(x)' \/ Waits(x, j)'
      <4>1. j = 1 \/ j \in 2..Depth
        BY <1>1
      <4> QED
        BY <1>3, <3>2, <4>1
    <3> QED
      BY <1>1, <3>1, <3>2 DEF Repaired
  <2> QED
    BY <2>1, <2>2, <2>3
<1>6. \A x : Around(x)' = Around(x)
  BY DEF Around
<1> QED
  BY <1>1, <1>4, <1>5, <1>6 DEF Repaired
LEMMA EntersRepaired ==
  ASSUME Pre, NEW b \in Inside(Dir) \cap Plugins, Head(stack).step = "plugins", b \in Todo,
         Decides(b, TRUE), Enters(b, Todo \ {b}), misjudged \subseteq misjudged',
         UNCHANGED <<within, present, profile, team, signed, sealed>>
  PROVE  Repaired'
<1>1. /\ Repaired /\ SignedSoFar /\ Depth' = Depth + 1 /\ Depth \in Nat \ {0} /\ Types /\ Nested
      /\ stack[1].dir = Dir /\ stack[1].todo = Todo /\ stack[1].step = "plugins"
      /\ stack[1] = Head(stack) /\ Listing(1) /\ (Dir = App <=> Depth = 1)
  BY OuterCall DEF Enters, Pre, IInv
<1>2. /\ stack'[1].dir = b
      /\ stack'[2].dir = Dir /\ stack'[2].todo = Todo \ {b} /\ stack'[2].step = "plugins"
      /\ \A i \in 3..(Depth + 1) : stack'[i] = stack[i - 1]
  BY DEF Enters, Frame
<1>3. \A x : Excused(x) => Excused(x)'
  BY ExcusedStays
<1>4. Team' = Team /\ \A x : Inside(x)' = Inside(x)
  BY DEF Team, Inside
<1>5. ASSUME NEW x, NEW j \in 2..Depth, Waits(x, j) PROVE Waits(x, j + 1)'
  <2>1. j + 1 \in 3..(Depth + 1) /\ (j + 1) - 1 = j /\ (j < Depth => j + 1 < Depth + 1)
    BY <1>1
  <2>2. stack'[j + 1] = stack[j]
    BY <1>2, <2>1
  <2> QED
    BY <1>1, <1>4, <1>5, <2>1, <2>2 DEF Waits
<1>6. ASSUME NEW x, Waits(x, 1) PROVE x = b \/ Waits(x, 2)'
  BY <1>1, <1>2, <1>4, <1>6 DEF Waits
<1>7. ASSUME NEW i \in 1..Depth, NEW x \in signed \cap Around(stack[i].dir)
      PROVE  Excused(x)' \/ \E j \in (i + 2)..(Depth + 1) : Waits(x, j)'
  <2>1. ASSUME NEW j \in (i + 1)..Depth, Waits(x, j)
        PROVE  \E k \in (i + 2)..(Depth + 1) : Waits(x, k)'
    <3>1. j \in 2..Depth /\ j + 1 \in (i + 2)..(Depth + 1)
      BY <1>1
    <3> QED
      BY <1>5, <2>1, <3>1
  <2> QED
    BY <1>1, <1>3, <1>7, <2>1 DEF Repaired
<1>8. ASSUME NEW x \in signed \cap Around(b)
      PROVE  Excused(x)' \/ \E j \in 2..(Depth + 1) : Waits(x, j)'
  <2>1. b \in Items /\ Around(b) = within[b] /\ 2 \in 2..(Depth + 1)
    BY <1>1, InsideIs, Nesting
  <2>2. CASE x = Dir
    <3>1. Waits(x, 2)'
      BY <1>2, <2>2 DEF Waits
    <3> QED
      BY <2>1, <3>1
  <2>3. CASE x \in Around(Dir)
    <3>1. 1 \in 1..Depth /\ (1 + 2)..(Depth + 1) \subseteq 2..(Depth + 1)
      BY <1>1
    <3>2. x \in signed \cap Around(stack[1].dir)
      BY <1>1, <2>3
    <3> QED
      BY <1>7, <3>1, <3>2
  <2>4. CASE x \in Inside(Dir)
    <3>1. x \in Todo /\ x # b
      BY <1>1, <2>1, <2>4, Nesting DEF Listing
    <3>2. Depth # 1
      <4>1. ASSUME Depth = 1 PROVE FALSE
        <5>1. Outer = Head(stack) /\ Outer.todo = Todo
          BY <1>1, <4>1 DEF Outer
        <5> QED
          BY <1>1, <3>1, <5>1 DEF SignedSoFar
      <4> QED
        BY <4>1
    <3>3. Excused(x)' \/ team[Dir] \in {None, Team}
      BY <2>1, <2>4, <3>2, RepeatsOrExcused
    <3>4. CASE team[Dir] \in {None, Team}
      <4>1. Waits(x, 2)'
        <5>1. 2 < Depth' /\ x \in stack'[2].todo
          BY <1>1, <1>2, <3>1, <3>2
        <5> QED
          BY <1>2, <1>4, <3>4, <5>1 DEF Waits
      <4> QED
        BY <2>1, <4>1
    <3> QED
      BY <3>3, <3>4
  <2> QED
    BY <2>1, <2>2, <2>3, <2>4, Between
<1>9. ASSUME NEW i \in 1..(Depth + 1), NEW x \in signed \cap Around(stack'[i].dir)
      PROVE  Excused(x)' \/ \E j \in (i + 1)..(Depth + 1) : Waits(x, j)'
  <2>1. CASE i = 1
    <3>1. (i + 1)..(Depth + 1) = 2..(Depth + 1) /\ stack'[i].dir = b
      BY <1>2, <2>1
    <3> QED
      BY <1>8, <1>9, <3>1
  <2>2. CASE i # 1
    <3>1. i - 1 \in 1..Depth /\ (i - 1) + 2 = i + 1
      BY <1>1, <2>2
    <3>2. stack'[i].dir = stack[i - 1].dir
      BY <1>1, <1>2, <2>2
    <3>3. x \in signed \cap Around(stack[i - 1].dir)
      BY <1>9, <3>2
    <3>4. Excused(x)' \/ \E j \in ((i - 1) + 2)..(Depth + 1) : Waits(x, j)'
      BY <1>7, <3>1, <3>3
    <3> QED
      BY <3>1, <3>4
  <2> QED
    BY <2>1, <2>2
<1>10. ASSUME NEW x \in signed
       PROVE  sealed[x] \/ Excused(x)' \/ \E j \in 1..(Depth + 1) : Waits(x, j)'
  <2>1. ASSUME NEW j \in 1..Depth, Waits(x, j)
        PROVE  \E k \in 1..(Depth + 1) : Waits(x, k)'
    <3>1. CASE j = 1
      <4>1. 1 \in 1..(Depth + 1) /\ 2 \in 1..(Depth + 1)
        BY <1>1
      <4>2. x = b => Waits(x, 1)'
        BY <1>2 DEF Waits
      <4> QED
        BY <1>6, <2>1, <3>1, <4>1, <4>2
    <3>2. CASE j # 1
      <4>1. j \in 2..Depth /\ j + 1 \in 1..(Depth + 1)
        BY <1>1, <3>2
      <4> QED
        BY <1>5, <2>1, <4>1
    <3> QED
      BY <3>1, <3>2
  <2> QED
    BY <1>1, <1>3, <2>1 DEF Repaired
<1>11. \A x : Around(x)' = Around(x)
  BY DEF Around
<1> QED
  BY <1>1, <1>9, <1>10, <1>11 DEF Repaired

LEMMA ReturnsRepaired ==
  ASSUME Pre, Returns, Signs({Dir}), Todo = {}, Head(stack).step = "seal",
         UNCHANGED <<within, present, profile, misjudged>>
  PROVE  Repaired'
<1>1. /\ Repaired /\ Depth' = Depth - 1 /\ Depth \in Nat /\ Depth > 1 /\ Types /\ Dir \in Everything
      /\ stack[1].dir = Dir /\ stack[1].todo = {} /\ stack[1].step = "seal" /\ Calls
      /\ \A i \in 1..(Depth - 1) : stack'[i] = stack[i + 1]
  BY OuterCall DEF Returns, Pre, IInv
<1>2. /\ signed' = signed \cup {Dir} /\ sealed'[Dir] = TRUE
      /\ \A x \in Everything \ {Dir} : team'[x] = team[x]
      /\ \A x \in Everything \ {Dir} : sealed'[x] <=> sealed[x] /\ x \notin Around(Dir)
  <2>1. {Dir} \in SUBSET Everything
    BY <1>1
  <2> QED
    BY <1>1, <2>1, SignsTeams
<1>3. \A x : Excused(x) => Excused(x)'
  BY ExcusedStays
<1>4. Team' = Team /\ signed \subseteq Everything /\ \A x : Inside(x)' = Inside(x)
  BY <1>1 DEF Team, Inside, Types
<1>5. ASSUME NEW x, NEW j \in 2..Depth, Waits(x, j) PROVE Waits(x, j - 1)'
  <2>1. j - 1 \in 1..(Depth - 1) /\ (j - 1) + 1 = j /\ (j < Depth => j - 1 < Depth - 1)
    BY <1>1
  <2>2. stack'[j - 1] = stack[j]
    BY <1>1, <2>1
  <2>3. stack[j].dir \in Everything \ {Dir}
    BY CallsAreAround DEF Bundles, Everything, Items
  <2>4. team'[stack'[j - 1].dir] = team[stack[j].dir]
    BY <1>2, <2>2, <2>3
  <2> QED
    BY <1>1, <1>4, <1>5, <2>1, <2>2, <2>4 DEF Waits
<1>6. ASSUME NEW i \in 1..Depth, NEW x \in signed \cap Around(stack[i].dir)
      PROVE  Excused(x)' \/ \E j \in i..(Depth - 1) : Waits(x, j)'
  <2>1. ASSUME NEW j \in (i + 1)..Depth, Waits(x, j)
        PROVE  \E k \in i..(Depth - 1) : Waits(x, k)'
    <3>1. j \in 2..Depth /\ j - 1 \in i..(Depth - 1)
      BY <1>1
    <3> QED
      BY <1>5, <2>1, <3>1
  <2> QED
    BY <1>1, <1>3, <1>6, <2>1 DEF Repaired
<1>7. ASSUME NEW i \in 1..(Depth - 1), NEW x \in signed' \cap Around(stack'[i].dir)
      PROVE  Excused(x)' \/ \E j \in (i + 1)..(Depth - 1) : Waits(x, j)'
  <2>1. i + 1 \in 1..Depth /\ i + 1 \in 2..Depth /\ stack'[i] = stack[i + 1]
    BY <1>1
  <2>2. x # Dir
    BY <1>7, <2>1, CallsAreAround
  <2>3. x \in signed \cap Around(stack[i + 1].dir)
    BY <1>2, <1>7, <2>1, <2>2
  <2> QED
    BY <1>6, <2>1, <2>3
<1>8. ASSUME NEW x \in signed'
      PROVE  sealed'[x] \/ Excused(x)' \/ \E j \in 1..(Depth - 1) : Waits(x, j)'
  <2>1. CASE x = Dir
    BY <1>2, <2>1
  <2>2. CASE x # Dir /\ x \in Around(Dir)
    <3>1. x \in signed \cap Around(stack[1].dir) /\ 1 \in 1..Depth
      BY <1>1, <1>2, <2>2
    <3> QED
      BY <1>6, <3>1
  <2>3. CASE x # Dir /\ x \notin Around(Dir)
    <3>1. x \in signed /\ (sealed[x] => sealed'[x])
      BY <1>2, <1>4, <2>3
    <3>2. ~Waits(x, 1)
      BY <1>1, <2>3 DEF Waits
    <3>3. ASSUME NEW j \in 1..Depth, Waits(x, j)
          PROVE  \E k \in 1..(Depth - 1) : Waits(x, k)'
      <4>1. j \in 2..Depth /\ j - 1 \in 1..(Depth - 1)
        <5>1. j # 1
          BY <3>2, <3>3
        <5> QED
          BY <1>1, <5>1
      <4> QED
        BY <1>5, <3>3, <4>1
    <3> QED
      BY <1>1, <1>3, <3>1, <3>3 DEF Repaired
  <2> QED
    BY <2>1, <2>2, <2>3
<1>9. \A x : Around(x)' = Around(x)
  BY DEF Around
<1> QED
  BY <1>1, <1>7, <1>8, <1>9 DEF Repaired
\* Signing x leaves a broken seal around x alone: in its own bundle that is what
\* the loop still comes to.
LEMMA SignsAround ==
  ASSUME Pre, NEW x \in Objects, Head(stack).step = "objects", x \in Todo,
         Decides(x, TRUE), UNCHANGED <<within, present>>,
         NEW y \in signed \cap Inside(Dir), y \in within[x]
  PROVE  /\ Depth # 1
         /\ Excused(y)' \/ team[Dir] \in {None, Team}
         /\ y \in Todo \/ y \in Plugins
<1>1. /\ Types /\ Nested /\ SignedSoFar /\ Depth \in Nat \ {0} /\ stack[1] = Head(stack)
      /\ stack[1].todo = Todo /\ stack[1].dir = Dir /\ Listing(1)
  BY OuterCall DEF Pre, IInv
<1>2. x \in Inside(Dir) /\ x \in Items /\ y \in Items
  BY <1>1, InsideIs DEF Listing
<1>3. y \in Todo \/ y \in Plugins
  <2>1. y \in Objects => y \in Todo
    BY <1>1, <1>2 DEF Listing
  <2> QED
    BY <1>2, <2>1 DEF Items
<1>4. ASSUME Depth = 1 PROVE FALSE
  <2>1. Outer.step = "objects" /\ Outer.todo = Todo
    BY <1>1, <1>4 DEF Outer
  <2>2. y \in Objects
    BY <1>1, <2>1 DEF SignedSoFar
  <2>3. y \in Resources
    BY <1>1, <1>3, <2>1, <2>2, ResignAssumption DEF SignedSoFar
  <2> QED
    BY <1>1, <1>2, <2>3, Nesting
<1>5. Excused(y)' \/ team[Dir] \in {None, Team}
  BY <1>2, <1>4, RepeatsOrExcused
<1> QED
  BY <1>3, <1>4, <1>5

LEMMA SignsRepaired ==
  ASSUME Pre, NEW x \in Objects, Head(stack).step = "objects", x \in Todo,
         Decides(x, TRUE), UNCHANGED <<within, present, profile>>, misjudged \subseteq misjudged',
         Turns("objects", Todo \ {x}), Signs({x} \cup Inside(x))
  PROVE  Repaired'
<1> DEFINE S == {x} \cup Inside(x)
<1>1. /\ Repaired /\ Depth' = Depth /\ Depth \in Nat \ {0} /\ Types /\ Nested
      /\ stack[1].dir = Dir /\ stack[1].todo = Todo /\ stack[1].step = "objects" /\ Calls
      /\ Listing(1) /\ Dir \in Bundles /\ Dir \in Everything /\ SignedSoFar
      /\ \A i \in 1..Depth : stack'[i].dir = stack[i].dir
  BY TurnsChain, OuterCall DEF Turns, Pre, IInv
<1>2. S \in SUBSET Objects /\ S \in SUBSET Everything /\ App \notin S /\ x \in Items /\ x \in Everything
  BY <1>1, InsideObjects DEF Everything, Items
<1>3. /\ signed' = signed \cup S
      /\ \A y \in S : sealed'[y] = TRUE
      /\ \A y \in Everything \ S : team'[y] = team[y]
      /\ \A y \in Everything \ S : sealed'[y] <=> sealed[y] /\ \A s \in S : y \notin Around(s)
  BY <1>1, <1>2, SignsTeams
<1>4. \A y : Excused(y) => Excused(y)'
  BY ExcusedStays
<1>5. /\ Team' = Team /\ signed \subseteq Everything /\ \A y : Inside(y)' = Inside(y)
      /\ stack'[1].step = "objects" /\ stack'[1].todo = Todo \ {x} /\ stack'[1].dir = Dir
  BY <1>1 DEF Team, Inside, Types, Turns, Frame
<1>6. team'[Dir] = team[Dir]
  BY <1>1, <1>2, <1>3, ResignAssumption DEF Bundles
<1> HIDE DEF S
<1>7. \A y : \A j \in 2..Depth : Waits(y, j) => Waits(y, j)'
  BY <1>2, <1>3, TurnsWaits
<1>8. ASSUME NEW i \in 1..Depth, NEW y \in signed \cap Around(stack[i].dir)
      PROVE  Excused(y)' \/ \E j \in (i + 1)..Depth : Waits(y, j)'
  <2>1. Excused(y) \/ \E j \in (i + 1)..Depth : Waits(y, j)
    BY <1>1, <1>8 DEF Repaired
  <2>2. (i + 1)..Depth \subseteq 2..Depth
    BY <1>1
  <2> QED
    BY <1>4, <1>7, <2>1, <2>2
<1>9. ASSUME NEW i \in 1..Depth, NEW y \in S PROVE y \notin Around(stack[i].dir)
  <2>1. stack[i].dir \in Bundles
    BY <1>1, CallsAreAround
  <2>2. Around(stack[i].dir) \subseteq Bundles
    <3>1. CASE stack[i].dir = App
      BY <3>1 DEF Around
    <3>2. CASE stack[i].dir \in Plugins
      BY <1>1, <3>2, Nesting DEF Items
    <3> QED
      BY <2>1, <3>1, <3>2 DEF Bundles
  <2> QED
    BY <1>2, <2>2, ResignAssumption DEF Bundles
<1>10. ASSUME NEW y \in signed, y \notin S, NEW s \in S, y \in Around(s)
       PROVE  Excused(y)' \/ \E j \in 1..Depth : Waits(y, j)'
  <2>1. y \in within[x]
    <3>1. CASE s = x
      BY <1>1, <1>2, <1>10, <3>1, Nesting
    <3>2. CASE s # x
      <4>1. s \in Items /\ s \in There /\ x \in within[s] /\ y \in within[s] /\ y # App /\ y # x
        BY <1>1, <1>2, <1>10, <3>2, InsideIs, Nesting DEF S, SignedSoFar
      <4>2. y \in There /\ Around(y) = within[y] /\ y \in Everything /\ Around(x) = within[x]
        BY <1>1, <1>2, <4>1, AroundIsThere, Nesting DEF Everything
      <4>3. x \notin within[y]
        BY <1>1, <1>10, <4>2, InsideIs DEF S
      <4> QED
        BY <1>1, <1>2, <4>1, <4>2, <4>3, Nesting
    <3> QED
      BY <3>1, <3>2
  <2>2. x \in Inside(Dir)
    BY <1>1 DEF Listing
  <2>3. CASE y = Dir
    <3>1. Waits(y, 1)' /\ 1 \in 1..Depth
      BY <1>1, <1>5, <2>3 DEF Waits
    <3> QED
      BY <3>1
  <2>4. CASE y \in Around(Dir)
    <3>1. 1 \in 1..Depth /\ (1 + 1)..Depth \subseteq 1..Depth
      BY <1>1
    <3>2. y \in signed \cap Around(stack[1].dir)
      BY <1>1, <1>10, <2>4
    <3> QED
      BY <1>8, <3>1, <3>2
  <2>5. CASE y \in Inside(Dir)
    <3>1. /\ Depth # 1
          /\ Excused(y)' \/ team[Dir] \in {None, Team}
          /\ y \in Todo \/ y \in Plugins
      BY <1>1, <1>10, <2>1, <2>5, SignsAround
    <3>2. CASE team[Dir] \in {None, Team}
      <4>1. /\ 1 < Depth' /\ 1 \in 1..Depth /\ x \in S
            /\ y \in stack'[1].todo \/ y \in Plugins \cap Inside(Dir)
        BY <1>1, <1>5, <1>10, <2>5, <3>1 DEF S
      <4>2. Waits(y, 1)'
        BY <1>5, <1>6, <3>2, <4>1 DEF Waits
      <4> QED
        BY <4>1, <4>2
    <3> QED
      BY <3>1, <3>2
  <2> QED
    BY <2>1, <2>2, <2>3, <2>4, <2>5, Between
<1>11. ASSUME NEW y \in signed' PROVE sealed'[y] \/ Excused(y)' \/ \E j \in 1..Depth : Waits(y, j)'
  <2>1. CASE y \in S
    BY <1>3, <2>1
  <2>2. CASE y \notin S /\ \E s \in S : y \in Around(s)
    BY <1>3, <1>10, <2>2
  <2>3. CASE y \notin S /\ \A s \in S : y \notin Around(s)
    <3>1. y \in signed /\ (sealed[y] => sealed'[y])
      BY <1>3, <1>5, <1>11, <2>3
    <3>2. ASSUME NEW j \in 1..Depth, Waits(y, j) PROVE Waits(y, j)'
      <4>1. CASE j = 1
        <5>1. y # x
          BY <2>3 DEF S
        <5> QED
          BY <1>1, <1>5, <1>6, <3>2, <4>1, <5>1 DEF Waits
      <4>2. CASE j # 1
        <5>1. j \in 2..Depth
          BY <1>1, <4>2
        <5> QED
          BY <1>7, <3>2, <5>1
      <4> QED
        BY <4>1, <4>2
    <3> QED
      BY <1>1, <1>4, <3>1, <3>2 DEF Repaired
  <2> QED
    BY <2>1, <2>2, <2>3
<1>12. \A y : Around(y)' = Around(y)
  BY DEF Around
<1>13. ASSUME NEW i \in 1..Depth, NEW y \in signed' \cap Around(stack'[i].dir)
       PROVE  Excused(y)' \/ \E j \in (i + 1)..Depth : Waits(y, j)'
  <2>1. y \in Around(stack[i].dir)
    BY <1>1, <1>13
  <2> QED
    BY <1>3, <1>8, <1>9, <1>13, <2>1
<1> QED
  BY <1>1, <1>11, <1>12, <1>13 DEF Repaired
\* What was signed and waits in the list is not decided against but blindly.
LEMMA WaitingIsSigned ==
  ASSUME Pre, NEW x \in signed, Waits(x, 1), x # Dir, x \in Items, Decides(x, FALSE),
         UNCHANGED <<within, present>>
  PROVE  Excused(x)'
<1>1. stack[1].dir = Dir /\ SignedSoFar
  BY OuterCall DEF Pre, IInv
<1>2. team[x] = Team /\ team[Dir] \in {None, Team}
  BY <1>1 DEF Waits, SignedSoFar
<1>3. x \in misjudged'
  BY <1>2 DEF Decides, ShouldResign
<1> QED
  BY <1>3 DEF Excused

LEMMA RepairedStep ==
  ASSUME Types, IInv, Next, Running'
  PROVE  Repaired'
<1>1. ASSUME NEW p \in Profiles, NEW resources \in SUBSET Resources, Begin(p, resources)
      PROVE  Repaired'
  BY <1>1 DEF Begin, Repaired
<1>2. CASE Write
  <2>1. /\ Pre /\ GoesOn("inject", Todo) /\ Changes(Dir) /\ Head(stack).step = "write"
        /\ UNCHANGED <<within, present, profile, team, signed, misjudged>>
    BY <1>2 DEF Write, Here, Pre, Fixed
  <2>2. Turns("inject", Todo)
    BY <2>1, GoesOnTurns, Innermost DEF Pre, Types
  <2>3. \A x \in signed : (sealed[x] => sealed'[x]) \/ x = Dir \/ x \in Around(Dir)
    BY <2>1 DEF Changes, Pre, Types
  <2>4. \A x \in signed : Waits(x, 1) => Excused(x)' \/ Waits(x, 1)'
    <3>1. /\ stack[1].dir = Dir /\ stack[1].todo = Todo /\ stack[1].step = "write"
          /\ stack'[1].dir = Dir /\ stack'[1].todo = Todo /\ Depth' = Depth /\ Team' = Team
      BY <2>1, <2>2, OuterCall DEF Turns, Frame, Team
    <3> QED
      BY <2>1, <3>1 DEF Waits
  <2> QED
    BY <2>1, <2>2, <2>3, <2>4, TurnsRepaired
<1>3. CASE InjectDone
  <2>1. /\ Pre /\ GoesOn("objects", Inside(Dir) \cap Objects) /\ Head(stack).step = "inject"
        /\ Todo = {} /\ UNCHANGED <<within, present, profile, team, signed, sealed, misjudged>>
    BY <1>3 DEF InjectDone, Here, Pre, Fixed
  <2>2. Turns("objects", Inside(Dir) \cap Objects)
    BY <2>1, GoesOnTurns DEF Pre, Types, Items
  <2>3. \A x \in signed : Waits(x, 1) => Excused(x)' \/ Waits(x, 1)'
    <3>1. /\ stack[1].dir = Dir /\ stack[1].todo = {} /\ stack[1].step = "inject"
          /\ stack'[1].dir = Dir
      BY <2>1, <2>2, OuterCall DEF Turns, Frame
    <3> QED
      BY <3>1 DEF Waits
  <2> QED
    BY <2>1, <2>2, <2>3, TurnsRepaired
<1>4. CASE ObjectsDone
  <2>1. /\ Pre /\ GoesOn("plugins", Inside(Dir) \cap Plugins) /\ Head(stack).step = "objects"
        /\ Todo = {} /\ UNCHANGED <<within, present, profile, team, signed, sealed, misjudged>>
    BY <1>4 DEF ObjectsDone, Here, Pre, Fixed
  <2>2. Turns("plugins", Inside(Dir) \cap Plugins)
    BY <2>1, GoesOnTurns DEF Pre, Types, Items
  <2>3. \A x \in signed : Waits(x, 1) => Excused(x)' \/ Waits(x, 1)'
    <3>1. /\ stack[1].dir = Dir /\ stack[1].todo = {} /\ stack[1].step = "objects"
          /\ stack'[1].dir = Dir /\ stack'[1].todo = Inside(Dir) \cap Plugins
          /\ Depth' = Depth /\ Team' = Team
      BY <2>1, <2>2, OuterCall DEF Turns, Frame, Team
    <3> QED
      BY <2>1, <3>1 DEF Waits
  <2> QED
    BY <2>1, <2>2, <2>3, TurnsRepaired
<1>5. CASE PluginsDone
  <2>1. /\ Pre /\ GoesOn("seal", {}) /\ Head(stack).step = "plugins" /\ Todo = {}
        /\ UNCHANGED <<within, present, profile, team, signed, sealed, misjudged>>
    BY <1>5 DEF PluginsDone, Here, Pre, Fixed
  <2>2. Turns("seal", {})
    BY <2>1, GoesOnTurns DEF Pre
  <2>3. \A x \in signed : Waits(x, 1) => Excused(x)' \/ Waits(x, 1)'
    <3>1. /\ stack[1].dir = Dir /\ stack[1].todo = {} /\ stack[1].step = "plugins"
          /\ stack'[1].dir = Dir
      BY <2>1, <2>2, OuterCall DEF Turns, Frame
    <3> QED
      BY <3>1 DEF Waits
  <2> QED
    BY <2>1, <2>2, <2>3, TurnsRepaired
<1>6. CASE Seal
  <2>1. Pre
    BY <1>6 DEF Seal, Here, Pre
  <2>2. /\ Returns /\ Signs({Dir}) /\ Todo = {} /\ Head(stack).step = "seal"
        /\ UNCHANGED <<within, present, profile, misjudged>>
    BY <1>6, <2>1, SealReturns, RaisesTypes DEF Pre
  <2> QED
    BY <2>1, <2>2, ReturnsRepaired
<1>7. ASSUME NEW r \in Objects, Inject(r) PROVE Repaired'
  <2>1. /\ Pre /\ UNCHANGED <<within, profile, misjudged>> /\ Head(stack).step = "inject"
        /\ Types /\ Nested /\ Repaired /\ SignedSoFar
    BY <1>7, OuterCall DEF Inject, Here, Pre, Fixed, IInv
  <2>2. GoesOn("inject", Todo \ {r}) /\ Signs({r}) /\ present \subseteq present'
    BY <1>7, <2>1, RaisesTypes DEF Inject, Pre
  <2>3. Turns("inject", Todo \ {r})
    BY <2>1, <2>2, GoesOnTurns, Innermost DEF Pre, Types
  <2>4. /\ Depth = 1 /\ Depth' = 1 /\ r \in Resources /\ r \in Everything /\ r \in Items
        /\ stack[1].dir = App /\ stack'[1].dir = App /\ Outer.step = "inject"
    BY <1>7, <2>1, <2>3, Injects, TurnsChain, OuterCall DEF Turns, Everything, Items, Outer
  <2>5. Around(r) = {App}
    BY <2>1, <2>4, Nesting DEF Around
  <2>6. /\ signed' = signed \cup {r} /\ sealed'[r] = TRUE
        /\ \A x \in Everything \ {r} : sealed'[x] <=> sealed[x] /\ x \notin Around(r)
    <3>1. {r} \in SUBSET Everything
      BY <2>4
    <3> QED
      BY <2>1, <2>2, <3>1, SignsTeams
  <2>7. ASSUME NEW x \in signed PROVE sealed'[x] \/ Excused(x)'
    <3>1. x # App /\ x \in Everything
      BY <2>1, <2>7 DEF SignedSoFar, Types
    <3>2. sealed[x] \/ Excused(x) \/ Waits(x, 1)
      BY <2>1, <2>4, <2>7 DEF Repaired
    <3>3. ~Waits(x, 1)
      BY <2>4, <3>1 DEF Waits
    <3>4. Excused(x) => Excused(x)'
      BY <2>1, <2>2, ExcusedStays
    <3> QED
      BY <2>5, <2>6, <3>1, <3>2, <3>3, <3>4
  <2>8. \A x \in signed' : sealed'[x] \/ Excused(x)'
    BY <2>6, <2>7
  <2>9. \A y : Around(y)' = Around(y)
    BY <2>1 DEF Around
  <2>10. \A i \in 1..Depth' : Around(stack'[i].dir) = {}
    BY <2>4 DEF Around
  <2> QED
    BY <2>8, <2>9, <2>10 DEF Repaired
<1>8. ASSUME NEW x \in Objects, ResignObject(x) PROVE Repaired'
  <2>1. /\ Pre /\ UNCHANGED <<within, present, profile>> /\ Head(stack).step = "objects"
        /\ x \in Todo /\ x \in Items
    BY <1>8 DEF ResignObject, Here, Pre, Fixed, Items
  <2>2. GoesOn("objects", Todo \ {x}) /\ misjudged \subseteq misjudged'
    BY <1>8, <2>1, RaisesTypes, DecidesTypes DEF ResignObject, Pre
  <2>3. Turns("objects", Todo \ {x})
    BY <2>1, <2>2, GoesOnTurns, Innermost DEF Pre, Types
  <2>4. CASE Decides(x, TRUE) /\ Signs({x} \cup Inside(x))
    BY <2>1, <2>2, <2>3, <2>4, SignsRepaired
  <2>5. CASE Decides(x, FALSE) /\ UNCHANGED <<team, sealed, signed>>
    <3>1. ASSUME NEW y \in signed, Waits(y, 1) PROVE Excused(y)' \/ Waits(y, 1)'
      <4>1. /\ stack[1].dir = Dir /\ stack[1].todo = Todo /\ stack[1].step = "objects"
            /\ stack'[1].dir = Dir /\ stack'[1].todo = Todo \ {x} /\ stack'[1].step = "objects"
            /\ Depth' = Depth /\ Team' = Team /\ Nested /\ Types
            /\ Listing(1) /\ Dir \in Everything
        BY <2>1, <2>3, OuterCall DEF Turns, Frame, Team, Pre
      <4>2. CASE y = x
        <5>1. x # Dir
          BY <2>1, <4>1, InsideOf DEF Listing
        <5> QED
          BY <2>1, <2>5, <3>1, <4>2, <5>1, WaitingIsSigned
      <4>3. CASE y # x
        <5>1. \A z : Inside(z)' = Inside(z)
          BY <2>1 DEF Inside
        <5> QED
          BY <2>5, <3>1, <4>1, <4>3, <5>1 DEF Waits
      <4> QED
        BY <4>2, <4>3
    <3> QED
      BY <2>1, <2>2, <2>3, <2>5, <3>1, TurnsRepaired
  <2> QED
    BY <1>8, <2>1, <2>4, <2>5, RaisesTypes DEF ResignObject, Pre
<1>9. ASSUME NEW b \in Plugins, ResignPlugin(b) PROVE Repaired'
  <2>1. Pre /\ b \in Items
    BY <1>9 DEF ResignPlugin, Here, Pre, Items
  <2>2. /\ b \in Todo /\ Head(stack).step = "plugins" /\ b \in Inside(Dir)
        /\ UNCHANGED <<within, present, profile, team, signed, sealed>>
        /\ misjudged \subseteq misjudged'
        /\ \/ Decides(b, TRUE) /\ Enters(b, Todo \ {b})
           \/ Decides(b, FALSE) /\ Turns("plugins", Todo \ {b})
    BY <1>9, <2>1, EntersPlugin
  <2>3. CASE Decides(b, TRUE) /\ Enters(b, Todo \ {b})
    BY <2>1, <2>2, <2>3, EntersRepaired
  <2>4. CASE Decides(b, FALSE) /\ Turns("plugins", Todo \ {b})
    <3>1. ASSUME NEW y \in signed, Waits(y, 1) PROVE Excused(y)' \/ Waits(y, 1)'
      <4>1. /\ stack[1].dir = Dir /\ stack[1].todo = Todo /\ stack[1].step = "plugins"
            /\ stack'[1].dir = Dir /\ stack'[1].todo = Todo \ {b} /\ stack'[1].step = "plugins"
            /\ Depth' = Depth /\ Team' = Team /\ Types /\ Nested /\ Dir \in Everything
        BY <2>1, <2>2, <2>4, OuterCall DEF Turns, Frame, Team, Pre
      <4>2. CASE y = b
        <5>1. b # Dir
          BY <2>2, <4>1, InsideOf
        <5> QED
          BY <2>1, <2>2, <2>4, <3>1, <4>2, <5>1, WaitingIsSigned
      <4>3. CASE y # b
        BY <2>2, <3>1, <4>1, <4>3 DEF Waits
      <4> QED
        BY <4>2, <4>3
    <3> QED
      BY <2>1, <2>2, <2>4, <3>1, TurnsRepaired
  <2> QED
    BY <2>2, <2>3, <2>4
<1>10. ASSUME Stop PROVE FALSE
  BY <1>10, RaisesTypes DEF Stop
<1> QED
  BY <1>1, <1>2, <1>3, <1>4, <1>5, <1>6, <1>7, <1>8, <1>9, <1>10 DEF Next, Resign
-----------------------------------------------------------------------------
(***************************************************************************)
(* The invariant is kept: what is left to the next run, and what is done.  *)
(***************************************************************************)
\* The call for the app is through: all that went with the app is signed, now or
\* by the run that stopped half way.
LEMMA AppIsThrough ==
  ASSUME Pre, Dir = App, Head(stack).step = "seal", Todo = {}, ~mixed,
         NEW x \in kin \ misjudged
  PROVE  New(x) /\ x \in Items /\ x # App
<1>1. /\ Types /\ Depth = 1 /\ stack[1] = Head(stack) /\ SignedSoFar /\ Judged /\ Halfway
      /\ stack[1].dir = App /\ stack[1].todo = {} /\ kin \subseteq There
  BY OuterCall DEF Pre, IInv, Standing
<1>2. x \in There /\ x \in Items /\ x # App
  BY <1>1, InsideIs
<1>3. Passed(x)
  BY <1>1, <1>2 DEF Passed, Outer
<1>4. Settled(x)
  BY <1>1, <1>2, <1>3 DEF Judged
<1>5. CASE x \in signed
  BY <1>1, <1>2, <1>5 DEF SignedSoFar, New
<1>6. CASE ~Old(x)
  BY <1>1, <1>2, <1>6 DEF Halfway
<1> QED
  BY <1>2, <1>4, <1>5, <1>6 DEF Settled, Old

LEMMA HalfwayKept ==
  ASSUME Types, Halfway, Running, UNCHANGED <<profile, mixed>>,
         (Running' /\ begun' = begun) \/ Raises, signed \subseteq signed',
         ~mixed => \A x \in kin' \ misjudged' :
                      Old(x)' \/ (New(x)' /\ (x \in signed' \/ profile \in begun))
  PROVE  Halfway'
<1>1. signed' # {} => Running' \/ begun' = begun \cup {profile}
  BY DEF Raises
<1>2. begun' \in {begun, begun \cup {profile}}
  BY DEF Raises
<1>3. ASSUME ~mixed, NEW x \in kin' \ misjudged'
      PROVE  Old(x)' \/ (New(x)' /\ (profile \in begun' \/ (Running' /\ x \in signed')))
  BY <1>1, <1>2, <1>3
<1> QED
  BY <1>2, <1>3 DEF Halfway

\* Nothing is signed.
LEMMA HalfwayUnsigned ==
  ASSUME Types, Halfway, Running, UNCHANGED <<profile, mixed, kin, team, grants, signed>>,
         (Running' /\ begun' = begun) \/ Raises, misjudged \subseteq misjudged'
  PROVE  Halfway'
<1>1. \A x : (Old(x)' <=> Old(x)) /\ (New(x)' <=> New(x))
  BY DEF Old, New, Team
<1>2. ASSUME ~mixed, NEW x \in kin' \ misjudged'
      PROVE  Old(x)' \/ (New(x)' /\ (x \in signed' \/ profile \in begun))
  <2>1. x \in kin \ misjudged
    BY <1>2
  <2>2. Old(x) \/ (New(x) /\ (x \in signed \/ profile \in begun))
    BY <1>2, <2>1 DEF Halfway
  <2> QED
    BY <1>1, <2>2
<1> QED
  BY <1>2, HalfwayKept

\* Objects are signed, or a plug-in.
LEMMA HalfwaySigned ==
  ASSUME Types, Halfway, Running, UNCHANGED <<profile, mixed>>,
         (Running' /\ begun' = begun) \/ Raises, misjudged \subseteq misjudged',
         NEW S \in SUBSET Items, Signs(S), kin' \subseteq kin \cup S,
         \A b \in Plugins : grants'[b] = IF b \in S THEN profile ELSE grants[b]
  PROVE  Halfway'
<1>1. S \in SUBSET Everything /\ App \notin S
  BY ResignAssumption DEF Everything, Items
<1>2. /\ signed' = signed \cup S
      /\ \A x \in S : team'[x] = Team
      /\ \A x \in Everything \ S : team'[x] = team[x]
  BY <1>1, SignsTeams
<1>3. Team' = Team /\ kin \subseteq Everything /\ App \in Everything
  BY DEF Team, Types, Everything
<1>4. ASSUME NEW x \in kin' \ misjudged', ~mixed
      PROVE  Old(x)' \/ (New(x)' /\ (x \in signed' \/ profile \in begun))
  <2>1. CASE x \in S
    BY <1>2, <1>3, <2>1 DEF New
  <2>2. CASE x \notin S
    <3>1. x \in kin \ misjudged /\ team'[x] = team[x] /\ team'[App] = team[App]
      BY <1>1, <1>2, <1>3, <1>4, <2>2
    <3>2. (Old(x) => Old(x)') /\ (New(x) => New(x)')
      BY <1>3, <2>2, <3>1 DEF Old, New
    <3> QED
      BY <1>2, <1>4, <3>1, <3>2 DEF Halfway
  <2> QED
    BY <2>1, <2>2
<1> QED
  BY <1>2, <1>4, HalfwayKept

LEMMA HalfwayInit == Init => Halfway
  BY DEF Init, Halfway, Old

LEMMA HalfwayStep == Types /\ IInv /\ [Next]_vars => Halfway'
<1> SUFFICES ASSUME Types, IInv, [Next]_vars PROVE Halfway'
  OBVIOUS
<1>0. Halfway /\ Standing
  BY DEF IInv
<1>1. ASSUME NEW p \in Profiles, NEW resources \in SUBSET Resources, Begin(p, resources)
      PROVE  Halfway'
  <2>1. /\ profile' = p /\ mixed' = (mixed \/ begun \ {p} # {}) /\ ~Running
        /\ UNCHANGED <<team, grants, misjudged, kin, begun>>
    BY <1>1 DEF Begin, bundleVars
  <2>2. ASSUME ~mixed' PROVE ~mixed /\ begun \subseteq {p}
    BY <2>1, <2>2
  <2>3. ASSUME ~mixed', NEW x \in kin \ misjudged PROVE Old(x)' \/ (New(x)' /\ p \in begun)
    <3>1. Old(x) \/ (New(x) /\ profile \in begun)
      BY <1>0, <2>1, <2>2, <2>3 DEF Halfway
    <3>2. Old(x) => Old(x)'
      BY <2>1 DEF Old
    <3>3. profile \in begun => p = profile
      BY <2>2, <2>3
    <3>4. p = profile /\ New(x) => New(x)'
      BY <2>1 DEF New, Team
    <3> QED
      BY <3>1, <3>2, <3>3, <3>4
  <2> QED
    BY <2>1, <2>2, <2>3 DEF Halfway
<1>2. CASE Write \/ InjectDone \/ ObjectsDone \/ PluginsDone
  <2>1. Running /\ UNCHANGED <<profile, mixed, kin, team, grants, signed, misjudged, begun>>
    BY <1>2 DEF Write, InjectDone, ObjectsDone, PluginsDone, Here, GoesOn, Fixed
  <2>2. Running'
    <3>1. stack' # <<>>
      <4>1. PICK step, todo : Goto(step, todo)
        BY <1>2 DEF Write, InjectDone, ObjectsDone, PluginsDone, GoesOn
      <4> DEFINE f == Frame(Dir, step, todo)
      <4>2. stack' = <<f>> \o Tail(stack) /\ stack \in Seq(Frames)
        BY <4>1 DEF Goto, Types
      <4> HIDE DEF f
      <4>3. Tail(stack) \in Seq(Frames)
        BY <2>1, <4>2 DEF Running
      <4> QED
        BY <4>2, <4>3
    <3> QED
      BY <3>1 DEF Running
  <2> QED
    BY <1>0, <2>1, <2>2, HalfwayUnsigned
<1>3. CASE Seal
  <2>1. Pre /\ Dir \in Bundles
    BY <1>3, OuterCall DEF Seal, Here, Pre
  <2>2. /\ Signs({Dir}) /\ grants' = [grants EXCEPT ![Dir] = profile]
        /\ Head(stack).step = "seal" /\ Todo = {} /\ UNCHANGED <<profile, mixed, misjudged, kin>>
        /\ \/ Returns /\ Dir \in Plugins /\ UNCHANGED <<outcome, begun>>
           \/ Dir = App /\ ~Running' /\ outcome' = "done" /\ begun' = {} /\ Depth = 1
           \/ Raises
    BY <1>3, <2>1, SealReturns
  <2>3. CASE Dir = App
    <3>1. {Dir} \in SUBSET Everything
      BY <2>3 DEF Everything
    <3>2. /\ team'[App] = Team /\ \A x \in Everything \ {App} : team'[x] = team[x]
      BY <2>2, <2>3, <3>1, SignsTeams
    <3>3. ASSUME ~mixed, NEW x \in kin \ misjudged PROVE Old(x)'
      <4>1. New(x) /\ x \in Everything \ {App}
        BY <2>1, <2>2, <2>3, <3>3, AppIsThrough DEF Everything
      <4> QED
        BY <3>2, <4>1 DEF New, Old
    <3>4. begun' \subseteq begun \cup {profile}
      BY <2>2, <2>3, OuterCall, <2>1 DEF Raises, Returns
    <3> QED
      BY <1>0, <2>2, <3>3, <3>4 DEF Halfway
  <2>4. CASE Dir # App
    <3>1. Dir \in Plugins /\ {Dir} \in SUBSET Items
      BY <2>1, <2>4 DEF Bundles, Items
    <3>2. (Running' /\ begun' = begun) \/ Raises
      BY <2>2, <2>4 DEF Returns
    <3>3. \A b \in Plugins : grants'[b] = IF b \in {Dir} THEN profile ELSE grants[b]
      BY <2>2, <3>1 DEF Types, Bundles
    <3>4. Running
      BY <2>1 DEF Pre
    <3> QED
      BY <1>0, <2>2, <3>1, <3>2, <3>3, <3>4, HalfwaySigned
  <2> QED
    BY <2>3, <2>4
<1>4. ASSUME NEW r \in Objects, Inject(r) PROVE Halfway'
  <2>1. Pre /\ Running /\ UNCHANGED <<profile, mixed, grants, misjudged>> /\ r \in Items
    BY <1>4 DEF Inject, Here, Pre, Fixed, Items
  <2>2. CASE Signs({r}) /\ GoesOn("inject", Todo \ {r}) /\ kin' = kin \cup {r}
    <3>1. Running' /\ begun' = begun
      BY <2>1, <2>2, GoesOnTypes, Innermost DEF Pre, Types
    <3>2. {r} \in SUBSET Items /\ \A b \in Plugins : grants'[b] = IF b \in {r} THEN profile ELSE grants[b]
      BY <2>1, ResignAssumption
    <3> QED
      BY <1>0, <2>1, <2>2, <3>1, <3>2, HalfwaySigned
  <2>3. CASE /\ kin' = kin \ {r} /\ \E t \in Teams \cup {None} : team' = [team EXCEPT ![r] = t]
             /\ UNCHANGED signed /\ Raises
    <3>1. r # App /\ kin \subseteq Everything /\ Team' = Team
      BY <2>1, ResignAssumption DEF Types, Items, Everything, Team
    <3>2. \A x \in Everything \ {r} : team'[x] = team[x]
      BY <2>3 DEF Types
    <3>3. ASSUME ~mixed, NEW x \in kin' \ misjudged'
          PROVE  Old(x)' \/ (New(x)' /\ (x \in signed' \/ profile \in begun))
      <4>1. x \in kin \ misjudged /\ team'[x] = team[x] /\ team'[App] = team[App]
        BY <2>1, <2>3, <3>1, <3>2, <3>3 DEF Everything
      <4>2. (Old(x) => Old(x)') /\ (New(x) => New(x)')
        BY <2>1, <3>1, <4>1 DEF Old, New
      <4> QED
        BY <1>0, <2>3, <3>3, <4>1, <4>2 DEF Halfway
    <3> QED
      BY <1>0, <2>1, <2>3, <3>3, HalfwayKept
  <2> QED
    BY <1>4, <2>2, <2>3 DEF Inject
<1>5. ASSUME NEW x \in Objects, ResignObject(x) PROVE Halfway'
  <2>1. /\ Pre /\ Running /\ UNCHANGED <<profile, mixed, grants, kin>> /\ x \in Items
        /\ misjudged \subseteq misjudged'
    BY <1>5, DecidesTypes DEF ResignObject, Here, Pre, Fixed, Items
  <2>2. GoesOn("objects", Todo \ {x}) => Running' /\ begun' = begun
    <3>1. Todo \ {x} \in SUBSET Items
      BY <2>1, Innermost DEF Types
    <3> QED
      BY <2>1, <3>1, GoesOnTypes
  <2>3. {x} \cup Inside(x) \subseteq Objects
    BY <2>1, OuterCall, InsideObjects
  <2>4. ASSUME NEW S \in SUBSET Objects, Signs(S), GoesOn("objects", Todo \ {x}) \/ Raises
        PROVE  Halfway'
    <3>1. S \in SUBSET Items
      BY DEF Items
    <3>2. \A b \in Plugins : grants'[b] = IF b \in S THEN profile ELSE grants[b]
      BY <2>1, ResignAssumption
    <3>3. (Running' /\ begun' = begun) \/ Raises
      BY <2>2, <2>4
    <3>4. kin' \subseteq kin \cup S
      BY <2>1
    <3> QED
      BY <1>0, <2>1, <2>4, <3>1, <3>2, <3>3, <3>4, HalfwaySigned
  <2>5. CASE GoesOn("objects", Todo \ {x}) /\ UNCHANGED <<team, signed>>
    BY <1>0, <2>1, <2>2, <2>5, HalfwayUnsigned
  <2>6. CASE \E S \in {{x} \cup Inside(x)} \cup SUBSET Inside(x) :
                Signs(S) /\ (GoesOn("objects", Todo \ {x}) \/ Raises)
    BY <2>3, <2>4, <2>6
  <2> QED
    BY <1>5, <2>5, <2>6 DEF ResignObject
<1>6. ASSUME NEW b \in Plugins, ResignPlugin(b) PROVE Halfway'
  <2>1. Pre /\ Running
    BY <1>6 DEF ResignPlugin, Here, Pre
  <2>2. /\ Running' /\ misjudged \subseteq misjudged'
        /\ UNCHANGED <<profile, mixed, kin, team, grants, signed, begun>>
    BY <1>6, <2>1, EntersPlugin DEF Enters, Turns
  <2> QED
    BY <1>0, <2>1, <2>2, HalfwayUnsigned
<1>7. CASE Stop
  <2>1. Running /\ Raises /\ UNCHANGED <<profile, mixed, kin, team, grants, signed, misjudged>>
    BY <1>7 DEF Stop, Fixed
  <2> QED
    BY <1>0, <2>1, HalfwayUnsigned
<1>8. CASE UNCHANGED vars
  BY <1>0, <1>8 DEF vars, bundleVars, history, Halfway, Old, New, Team, Running
<1> QED
  BY <1>1, <1>2, <1>3, <1>4, <1>5, <1>6, <1>7, <1>8 DEF Next, Resign
\* A run is done with the seal of the app, and with nothing else.
LEMMA DoneSteps ==
  ASSUME Types, IInv, [Next]_vars, outcome' = "done"
  PROVE  \/ /\ Pre /\ Seal /\ Dir = App /\ Depth = 1 /\ Signs({App})
            /\ grants' = [grants EXCEPT ![App] = profile]
            /\ Head(stack).step = "seal" /\ Todo = {}
            /\ UNCHANGED <<within, present, profile, mixed, misjudged, kin>>
         \/ outcome = "done" /\ UNCHANGED vars
<1>0. Running => outcome = "none"
  BY DEF IInv, Standing
<1>1. ASSUME NEW p \in Profiles, NEW resources \in SUBSET Resources, Begin(p, resources)
      PROVE  FALSE
  BY <1>1 DEF Begin
<1>2. ASSUME Running, outcome' = outcome \/ Raises PROVE FALSE
  BY <1>0, <1>2 DEF Raises
<1>3. CASE Seal
  <2>1. Pre
    BY <1>3 DEF Seal, Here, Pre
  <2> QED
    BY <1>2, <1>3, <2>1, SealReturns DEF Pre
<1>4. ASSUME Write \/ InjectDone \/ ObjectsDone \/ PluginsDone \/ Stop PROVE FALSE
  BY <1>2, <1>4 DEF Write, InjectDone, ObjectsDone, PluginsDone, Stop, Here, GoesOn
<1>5. ASSUME NEW r \in Objects, Inject(r) PROVE FALSE
  BY <1>2, <1>5 DEF Inject, Here, GoesOn
<1>6. ASSUME NEW x \in Objects, ResignObject(x) PROVE FALSE
  BY <1>2, <1>6 DEF ResignObject, Here, GoesOn
<1>7. ASSUME NEW b \in Plugins, ResignPlugin(b) PROVE FALSE
  BY <1>2, <1>7 DEF ResignPlugin, Here, GoesOn
<1>8. CASE UNCHANGED vars
  BY <1>8 DEF vars
<1> QED
  BY <1>1, <1>3, <1>4, <1>5, <1>6, <1>7, <1>8 DEF Next, Resign

LEMMA SealsStep == Types /\ IInv /\ [Next]_vars => SealsHold'
<1> SUFFICES ASSUME Types, IInv, [Next]_vars, outcome' = "done",
                    NEW x \in signed'
             PROVE  sealed'[x] \/ Excused(x)'
  BY DEF SealsHold
<1>1. CASE outcome = "done" /\ UNCHANGED vars
  <2>1. x \in signed /\ sealed' = sealed /\ UNCHANGED <<within, present, misjudged>>
    BY <1>1 DEF vars, bundleVars, history
  <2> QED
    BY <1>1, <2>1, ExcusedStays DEF IInv, SealsHold
<1>2. CASE /\ Pre /\ Seal /\ Dir = App /\ Depth = 1 /\ Signs({App})
           /\ UNCHANGED <<within, present, misjudged>>
  <2>1. /\ Types /\ Repaired /\ SignedSoFar /\ signed \subseteq Everything
        /\ stack[1].dir = App /\ {App} \in SUBSET Everything
    BY <1>2, OuterCall DEF Pre, IInv, Types, Everything
  <2>2. /\ signed' = signed \cup {App} /\ sealed'[App] = TRUE
        /\ \A y \in Everything \ {App} : sealed'[y] <=> sealed[y] /\ y \notin Around(App)
    BY <1>2, <2>1, SignsTeams
  <2>3. CASE x = App
    BY <2>2, <2>3
  <2>4. CASE x # App
    <3>1. x \in signed /\ x \in Everything /\ x \notin Around(App)
      BY <2>1, <2>2, <2>4 DEF Around
    <3>2. sealed[x] \/ Excused(x) \/ Waits(x, 1)
      BY <1>2, <2>1, <3>1 DEF Repaired
    <3>3. ~Waits(x, 1)
      BY <1>2, <2>1, <2>4 DEF Waits
    <3>4. Excused(x) => Excused(x)'
      BY <1>2, ExcusedStays
    <3> QED
      BY <2>2, <2>4, <3>1, <3>2, <3>3, <3>4
  <2> QED
    BY <2>3, <2>4
<1> QED
  BY <1>1, <1>2, DoneSteps

LEMMA OneTeamStep == Types /\ IInv /\ [Next]_vars => OneTeamThroughout'
<1> SUFFICES ASSUME Types, IInv, [Next]_vars, outcome' = "done", ~mixed'
             PROVE  /\ team'[App] = TeamOf(profile') /\ grants'[App] = profile'
                    /\ \A x \in kin' \ misjudged' :
                         team'[x] = TeamOf(profile') /\ (x \in Plugins => grants'[x] = profile')
  BY DEF OneTeamThroughout
<1>1. CASE outcome = "done" /\ UNCHANGED vars
  <2>1. UNCHANGED <<team, grants, profile, kin, misjudged, mixed>>
    BY <1>1 DEF vars, bundleVars, history
  <2> QED
    BY <1>1, <2>1 DEF IInv, OneTeamThroughout
<1>2. CASE /\ Pre /\ Seal /\ Dir = App /\ Signs({App})
           /\ grants' = [grants EXCEPT ![App] = profile]
           /\ Head(stack).step = "seal" /\ Todo = {}
           /\ UNCHANGED <<profile, mixed, misjudged, kin>>
  <2>1. {App} \in SUBSET Everything /\ App \in Bundles
    BY DEF Everything, Bundles
  <2>2. team'[App] = Team /\ \A y \in Everything \ {App} : team'[y] = team[y]
    BY <1>2, <2>1, SignsTeams
  <2>3. grants'[App] = profile /\ \A b \in Plugins : b # App => grants'[b] = grants[b]
    BY <1>2, <2>1 DEF Types, Bundles
  <2>4. ASSUME NEW x \in kin' \ misjudged'
        PROVE  team'[x] = Team /\ (x \in Plugins => grants'[x] = profile)
    <3>1. New(x) /\ x \in Items /\ x # App
      BY <1>2, <2>4, AppIsThrough
    <3> QED
      BY <2>2, <2>3, <3>1 DEF New, Everything
  <2> QED
    BY <1>2, <2>2, <2>3, <2>4 DEF Team
<1> QED
  BY <1>1, <1>2, DoneSteps

-----------------------------------------------------------------------------
(***************************************************************************)
(* The invariant holds throughout, and what follows from it.               *)
(***************************************************************************)
LEMMA IInvInit == Init => IInv
<1> SUFFICES ASSUME Init PROVE IInv
  OBVIOUS
<1>1. ~Running /\ outcome = "none"
  BY DEF Init, Running
<1> QED
  BY <1>1, StandingInit, HalfwayInit DEF IInv, SealsHold, OneTeamThroughout

LEMMA IInvStep == Types /\ IInv /\ [Next]_vars => IInv'
<1> SUFFICES ASSUME Types, IInv, [Next]_vars PROVE IInv'
  OBVIOUS
<1>1. Standing' /\ Halfway' /\ SealsHold' /\ OneTeamThroughout'
  BY StandingStep, HalfwayStep, SealsStep, OneTeamStep
<1>2. Running' => Calls' /\ SignedSoFar' /\ Judged' /\ Repaired'
  <2>1. CASE Next
    BY <2>1, CallsStep, SignedStep, JudgedStep, RepairedStep
  <2>2. CASE UNCHANGED vars
    <3>1. UNCHANGED <<within, present, team, grants, sealed, profile, stack, signed, misjudged>>
      BY <2>2 DEF vars, bundleVars, history
    <3>2. /\ (Running' <=> Running) /\ (Calls' <=> Calls) /\ (SignedSoFar' <=> SignedSoFar)
      BY <3>1 DEF Running, Calls, Chain, Listing, SignedSoFar, Outer, Depth, Team, Inside, Around
    <3>3. Judged' <=> Judged
      BY <3>1 DEF Judged, Passed, Settled, Led, There, Outer, Depth
    <3>4. Repaired' <=> Repaired
      BY <3>1 DEF Repaired, Excused, Waits, Team, Inside, Around, Depth
    <3> QED
      BY <3>2, <3>3, <3>4 DEF IInv
  <2> QED
    BY <2>1, <2>2
<1> QED
  BY <1>1, <1>2 DEF IInv

LEMMA IInvAlways == Spec => []IInv
<1>1. Types /\ IInv /\ [Next]_vars => IInv'
  BY IInvStep
<1> QED
  BY <1>1, IInvInit, TypesAlways, PTL DEF Spec

\* The values the variables range over; resignAppDir: calls itself for a plug-in
\* of the bundle it is at, never for one it is in already (Codesigner.m:305-337).
THEOREM ResignTypes == Spec => []TypeOK
<1>1. Types /\ IInv => TypeOK
  <2> SUFFICES ASSUME Types, IInv, NEW i \in 1..(Len(stack) - 1)
               PROVE  stack[i + 1].dir \in within[stack[i].dir]
    BY DEF Types, TypeOK
  <2>1. stack \in Seq(Frames) /\ Len(stack) \in Nat /\ Running
    <3>1. stack \in Seq(Frames) /\ Len(stack) \in Nat
      BY DEF Types
    <3>2. stack # <<>>
      BY <3>1
    <3> QED
      BY <3>1, <3>2 DEF Running
  <2>2. Calls
    BY <2>1 DEF IInv
  <2>3. i \in 1..Depth /\ i + 1 \in 1..Depth /\ i \in 1..(Depth - 1) /\ i < i + 1
    BY <2>1 DEF Depth
  <2>4. stack[i + 1].dir \in Around(stack[i].dir) /\ stack[i].dir # App
    BY <2>2, <2>3, ResignAssumption DEF Calls, Chain
  <2> QED
    BY <2>4 DEF Around
<1> QED
  BY <1>1, TypesAlways, IInvAlways, PTL

\* What a run that is done has signed is as it was signed, though plug-ins are
\* written to, and objects signed twice, after the first of these signatures:
\* each call signs again what it has disturbed (Codesigner.m:298-345).
THEOREM SealsKept == Spec => []SealsHold
<1>1. IInv => SealsHold
  BY DEF IInv
<1> QED
  BY <1>1, IInvAlways, PTL

\* All that went with the app has the team and plug-ins the entitlements of the
\* last run's profile, also when runs with that profile had stopped half way.
THEOREM OneTeamKept == Spec => []OneTeamThroughout
<1>1. IInv => OneTeamThroughout
  BY DEF IInv
<1> QED
  BY <1>1, IInvAlways, PTL
=============================================================================
