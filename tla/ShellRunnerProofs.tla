-------------------------- MODULE ShellRunnerProofs --------------------------
(***************************************************************************)
(* For pipes of any size and commands with any amount of output: the       *)
(* result that the runner answers with is of the right type, a success is  *)
(* a success, and no output is lost.                                       *)
(***************************************************************************)
EXTENDS ShellRunner, TLAPS

\* What was written is in the pipe or has been read.
Conserved == \A s \in Streams : wrote[s] = got[s] + pipe[s]

\* Which child the runner is looking at.
ChildAt ==
  /\ child = "absent" => pc \in {"launch", "done"} /\ ~success /\ helper = "absent"
  /\ pc = "launch" => child = "absent"
  /\ pc \in {"status", "stdout", "stderr", "done"} => child # "running"
  /\ child = "exited" <=> status # "none"

\* A child that ended by itself and alone has written everything.
Finished ==
  child = "exited" /\ status # "signal" /\ helper = "absent" => wrote = wants

\* SIGTERM is sent when the timeout is noted, and a success is none of either.
Judged ==
  /\ signalled => timedOut
  /\ success => status = "zero" /\ ~timedOut /\ ~didTimeOut
  /\ success => pc \in Streams \cup {"done"}

\* A pipe that has been read to its end stays at its end.
ReadTo(s) == ~HeldOpen /\ pipe[s] = 0 /\ text[s] \in {wrote[s], Nil}
Drained ==
  /\ pc = "stderr" => ReadTo("stdout")
  /\ pc = "done" /\ child # "absent" => ReadTo("stdout") /\ ReadTo("stderr")

Inv == TypeOK /\ Conserved /\ ChildAt /\ Finished /\ Judged /\ Drained

LEMMA InvInit == Init => Inv
<1> SUFFICES ASSUME Init PROVE Inv
  OBVIOUS
<1>1. /\ wants \in Counts /\ wrote \in Counts /\ got \in Counts
      /\ pipe \in [Streams -> 0..PipeSize] /\ text \in [Streams -> 0..Nil]
  BY ShellAssumption DEF Init, Counts, Nil
<1>2. TypeOK
  BY <1>1 DEF Init, TypeOK, Streams, Statuses, Minimum
<1>3. Conserved
  BY DEF Init, Conserved
<1>4. ChildAt /\ Finished /\ Judged /\ Drained
  BY DEF Init, ChildAt, Finished, Judged, Drained
<1> QED
  BY <1>2, <1>3, <1>4 DEF Inv

-----------------------------------------------------------------------------
LEMMA TypeStep == ASSUME Inv, [Next]_vars PROVE TypeOK'
<1> USE DEF Inv, TypeOK
<1>1. CASE UNCHANGED vars
  BY <1>1 DEF vars, facts, childVars, runnerVars, resultVars
<1> USE ShellAssumption DEF facts, childVars, runnerVars, resultVars, Streams,
                            Statuses, Minimum, Counts, Nil
<1>2. CASE Launch \/ IsRunning \/ CheckClock
  BY <1>2 DEF Launch, IsRunning, CheckClock
<1>3. CASE TakeStatus
  BY <1>3 DEF TakeStatus, ChildAt
<1>4. ASSUME NEW s \in Streams, ReadPiece(s) PROVE TypeOK'
  <2>1. got[s] + 1 \in 0..MaxOutput /\ pipe[s] - 1 \in 0..PipeSize
    BY <1>4 DEF ReadPiece, Conserved
  <2> QED
    BY <1>4, <2>1 DEF ReadPiece
<1>5. ASSUME NEW s \in Streams, ReadEnd(s) PROVE TypeOK'
  BY <1>5 DEF ReadEnd, After
<1>6. ASSUME NEW s \in Streams, Write(s) PROVE TypeOK'
  BY <1>6 DEF Write
<1>7. CASE Spawn \/ HelperEnds \/ Exit \/ Dies \/ Tick
  <2> HIDE DEF Counts, Nil, Streams
  <2>1. UNCHANGED <<facts, wrote, pipe, signalled, runnerVars>>
    BY <1>7 DEF Spawn, HelperEnds, Exit, Dies, Tick
  <2>2. /\ child' \in {"absent", "running", "exited"}
        /\ status' \in Statuses \cup {"none"}
        /\ helper' \in {"absent", "running", "gone"} /\ expired' \in BOOLEAN
    BY <1>7 DEF Spawn, HelperEnds, Exit, Dies, Tick
  <2> QED
    BY <2>1, <2>2
<1> QED
  BY <1>1, <1>2, <1>3, <1>4, <1>5, <1>6, <1>7 DEF Next, Runner, Command

LEMMA ConservedStep == ASSUME Inv, [Next]_vars PROVE Conserved'
<1> USE DEF Inv, Conserved
<1>1. /\ wrote \in [Streams -> Nat] /\ got \in [Streams -> Nat]
      /\ pipe \in [Streams -> Nat]
  BY ShellAssumption DEF TypeOK, Counts
<1>2. CASE UNCHANGED <<wrote, got, pipe>>
  BY <1>2
<1>3. ASSUME NEW s \in Streams, ReadPiece(s) \/ Write(s) PROVE Conserved'
  BY <1>1, <1>3 DEF ReadPiece, Write, childVars, runnerVars
<1> QED
  BY <1>2, <1>3 DEF Next, Runner, Command, vars, childVars, runnerVars, Launch,
     IsRunning, CheckClock, TakeStatus, ReadEnd, Spawn, HelperEnds, Exit, Dies, Tick

LEMMA ChildStep == ASSUME Inv, [Next]_vars PROVE (ChildAt /\ Finished)'
<1> USE DEF Inv, ChildAt, Finished, childVars, runnerVars, resultVars, facts
<1>1. CASE UNCHANGED vars
  BY <1>1 DEF vars
<1>2. CASE Launch \/ IsRunning \/ CheckClock \/ TakeStatus
  BY <1>2 DEF Launch, IsRunning, CheckClock, TakeStatus
<1>3. ASSUME NEW s \in Streams, ReadPiece(s) \/ ReadEnd(s)
      PROVE  (ChildAt /\ Finished)'
  BY <1>3 DEF ReadPiece, ReadEnd, After, Streams
<1>4. ASSUME NEW s \in Streams, Write(s) PROVE (ChildAt /\ Finished)'
  BY <1>4 DEF Write, HeldOpen
<1>5. CASE Spawn \/ HelperEnds \/ Tick
  BY <1>5 DEF Spawn, HelperEnds, Tick
<1>6. CASE Exit \/ Dies
  BY <1>6 DEF Exit, Dies, TypeOK
<1> QED
  BY <1>1, <1>2, <1>3, <1>4, <1>5, <1>6 DEF Next, Runner, Command

LEMMA JudgedStep == ASSUME Inv, [Next]_vars PROVE Judged'
<1> USE DEF Inv, Judged, childVars, runnerVars, resultVars, Streams
<1>1. CASE UNCHANGED vars
  BY <1>1 DEF vars
<1>2. CASE Launch \/ IsRunning
  BY <1>2 DEF Launch, IsRunning
<1>3. CASE CheckClock
  BY <1>3 DEF CheckClock
<1>4. CASE TakeStatus
  BY <1>4 DEF TakeStatus
<1>5. ASSUME NEW s \in Streams, ReadPiece(s) \/ ReadEnd(s) PROVE Judged'
  BY <1>5 DEF ReadPiece, ReadEnd, After
<1>6. CASE Command \/ Dies \/ Tick
  BY <1>6 DEF Command, Write, Spawn, HelperEnds, Exit, Dies, Tick, ChildAt
<1> QED
  BY <1>1, <1>2, <1>3, <1>4, <1>5, <1>6 DEF Next, Runner

LEMMA DrainedStep == ASSUME Inv, [Next]_vars PROVE Drained'
<1> USE DEF Inv, Drained, ReadTo, HeldOpen, childVars, runnerVars, resultVars
<1>1. CASE UNCHANGED vars
  BY <1>1 DEF vars
<1>2. CASE Launch \/ IsRunning \/ CheckClock \/ TakeStatus
  BY <1>2 DEF Launch, IsRunning, CheckClock, TakeStatus, ChildAt
<1>3. ASSUME NEW s \in Streams, ReadPiece(s) PROVE Drained'
  BY <1>3 DEF ReadPiece, Streams, TypeOK
<1>4. ASSUME NEW s \in Streams, ReadEnd(s) PROVE Drained'
  <2>1. got[s] = wrote[s]
    BY <1>4 DEF ReadEnd, Conserved, TypeOK, Counts
  <2> QED
    BY <1>4, <2>1 DEF ReadEnd, After, Streams, TypeOK
<1>5. ASSUME NEW s \in Streams, Write(s) PROVE Drained'
  BY <1>5 DEF Write
<1>6. CASE Spawn \/ HelperEnds \/ Exit \/ Dies \/ Tick
  BY <1>6 DEF Spawn, HelperEnds, Exit, Dies, Tick, ChildAt
<1> QED
  BY <1>1, <1>2, <1>3, <1>4, <1>5, <1>6 DEF Next, Runner, Command

LEMMA Always == Spec => []Inv
<1>1. Inv /\ [Next]_vars => Inv'
  BY TypeStep, ConservedStep, ChildStep, JudgedStep, DrainedStep DEF Inv
<1> QED
  BY <1>1, InvInit, PTL DEF Spec

-----------------------------------------------------------------------------
\* ShellRunner and ShellResult keep to the values they are meant to range over.
THEOREM RunnerTypes == Spec => []TypeOK
<1>1. Inv => TypeOK
  BY DEF Inv
<1> QED
  BY <1>1, Always, PTL

\* A ShellResult that says success is of a child that ended by itself with
\* status 0 and in time, whatever the race of its exit with the timeout.
THEOREM SuccessMeansSuccess == Spec => []SuccessIsTrue
<1>1. Inv => SuccessIsTrue
  BY DEF Inv, SuccessIsTrue, ChildAt, Finished, Judged, TypeOK
<1> QED
  BY <1>1, Always, PTL

\* The strings of a ShellResult are all that the child and its helper wrote.
THEOREM OutputIsKept == Spec => []NothingDropped
<1>1. Inv => NothingDropped
  BY DEF Inv, NothingDropped, Drained, ReadTo, Streams
<1> QED
  BY <1>1, Always, PTL
=============================================================================
