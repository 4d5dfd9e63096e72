---------------------------- MODULE ShellRunner ----------------------------
(***************************************************************************)
(* Utilities/ShellRunner.m and ShellResult.m: a command run as a child     *)
(* process with a timeout, its output captured through two pipes that are  *)
(* read only after the child has exited.                                   *)
(*                                                                         *)
(* Output is counted in pieces.  The child may leave a helper behind that  *)
(* has inherited the pipes and goes on writing: a pipe is at its end only  *)
(* when it is empty and nobody holds it open any more.                     *)
(***************************************************************************)
EXTENDS Naturals

CONSTANTS PipeSize,    \* pieces of output a pipe holds
          MaxOutput    \* bound on the pieces a command has to write

ASSUME ShellAssumption == PipeSize \in Nat \ {0} /\ MaxOutput \in Nat

Streams == {"stdout", "stderr"}
Statuses == {"zero", "nonzero", "signal"}   \* of an exited child

VARIABLES wants,      \* what the command has to write to each stream
          code,       \* the status it exits with when left alone
          traps,      \* it does not heed SIGTERM
          child,      \* absent, running or exited
          status,     \* its terminationStatus
          helper,     \* absent, running or gone
          wrote,      \* pieces written to each stream
          pipe,       \* pieces in each pipe
          signalled,  \* SIGTERM has been sent
          expired,    \* the clock is past endTime
          pc,         \* where the runner is
          timedOut,   \* BOOL timedOut
          got,        \* pieces read from each pipe
          text,       \* stdoutStr and stderrStr: their pieces, or nil
          success, exitStatus, didTimeOut   \* of the ShellResult

facts == <<wants, code, traps>>
childVars == <<child, status, helper, wrote>>
resultVars == <<success, exitStatus, didTimeOut>>
runnerVars == <<pc, timedOut, got, text, resultVars>>
vars == <<facts, childVars, pipe, signalled, expired, runnerVars>>

Nil == MaxOutput + 1   \* no string: a number that is no count
Minimum == "NSIntegerMin"

Init ==
  /\ wants \in [Streams -> 0..MaxOutput]
  /\ code \in {"zero", "nonzero"} /\ traps \in BOOLEAN
  /\ child = "absent" /\ status = "none" /\ helper = "absent"
  /\ wrote = [s \in Streams |-> 0] /\ pipe = [s \in Streams |-> 0]
  /\ signalled = FALSE /\ expired = FALSE
  /\ pc = "launch" /\ timedOut = FALSE
  /\ got = [s \in Streams |-> 0] /\ text = [s \in Streams |-> Nil]
  /\ success = FALSE /\ exitStatus = "none" /\ didTimeOut = FALSE

-----------------------------------------------------------------------------
(***************************************************************************)
(* +command:args:timeout:                                                  *)
(***************************************************************************)
LaunchUnguarded == \* variant: an exception is not told from a child that ran
  /\ pc = "launch"
  /\ \/ child' = "running" /\ pc' = "poll"
     \/ pc' = "status" /\ UNCHANGED child
  /\ UNCHANGED <<facts, status, helper, wrote, pipe, signalled, expired, timedOut,
                 got, text, resultVars>>

\* [task launch] raises when there is nothing to run: withFailedCommand:.
Launch ==
  /\ pc = "launch"
  /\ \/ child' = "running" /\ pc' = "poll" /\ UNCHANGED exitStatus
     \/ pc' = "done" /\ exitStatus' = Minimum /\ UNCHANGED child
  /\ UNCHANGED <<facts, status, helper, wrote, pipe, signalled, expired, timedOut,
                 got, text, success, didTimeOut>>

\* while ([task isRunning])
IsRunning ==
  /\ pc = "poll"
  /\ pc' = IF child = "running" THEN "clock" ELSE "status"
  /\ UNCHANGED <<facts, childVars, pipe, signalled, expired, timedOut, got, text,
                 resultVars>>

FlagsOnly == \* variant: a late child is only noted
  /\ pc = "clock" /\ pc' = "poll"
  /\ timedOut' = (timedOut \/ expired)
  /\ UNCHANGED <<facts, childVars, pipe, signalled, expired, got, text, resultVars>>

\* A child found running may exit before the clock is read; it is late, and
\* [task terminate] comes to nothing.
CheckClock ==
  /\ pc = "clock" /\ pc' = "poll"
  /\ timedOut' = (timedOut \/ expired)
  /\ signalled' = (signalled \/ (expired /\ child = "running"))
  /\ UNCHANGED <<facts, childVars, pipe, expired, got, text, resultVars>>

TakeStatusOnly == \* variant: the status alone decides
  /\ pc = "status" /\ pc' = "stdout"
  /\ didTimeOut' = timedOut
  /\ exitStatus' = status /\ success' = (status = "zero")
  /\ UNCHANGED <<facts, childVars, pipe, signalled, expired, timedOut, got, text>>

\* withTask:elapsed:didTimeOut:, before it reads the pipes.
TakeStatus ==
  /\ pc = "status" /\ pc' = "stdout"
  /\ didTimeOut' = timedOut
  /\ IF timedOut THEN exitStatus' = Minimum /\ success' = FALSE
                 ELSE exitStatus' = status /\ success' = (status = "zero")
  /\ UNCHANGED <<facts, childVars, pipe, signalled, expired, timedOut, got, text>>

-----------------------------------------------------------------------------
(***************************************************************************)
(* stringFromPipe:command:isStdOut:, for stdout and then for stderr.       *)
(***************************************************************************)
HeldOpen == child = "running" \/ helper = "running"
After(s) == IF s = "stdout" THEN "stderr" ELSE "done"

ReadPiece(s) ==
  /\ pc = s /\ pipe[s] > 0
  /\ pipe' = [pipe EXCEPT ![s] = @ - 1]
  /\ got' = [got EXCEPT ![s] = @ + 1]
  /\ UNCHANGED <<facts, childVars, signalled, expired, pc, timedOut, text, resultVars>>

ReadAvailable(s) == \* variant: availableData, which does not wait for the end
  /\ pc = s /\ pc' = After(s)
  /\ text' = [text EXCEPT ![s] = got[s]]
  /\ UNCHANGED <<facts, childVars, pipe, signalled, expired, timedOut, got, resultVars>>

\* The end of the file; what is not UTF-8 makes no string.
ReadEnd(s) ==
  /\ pc = s /\ pipe[s] = 0 /\ ~HeldOpen
  /\ pc' = After(s)
  /\ \E string \in {got[s], Nil} : text' = [text EXCEPT ![s] = string]
  /\ UNCHANGED <<facts, childVars, pipe, signalled, expired, timedOut, got, resultVars>>

Runner == \/ Launch \/ IsRunning \/ CheckClock \/ TakeStatus
          \/ \E s \in Streams : ReadPiece(s) \/ ReadEnd(s)

-----------------------------------------------------------------------------
(***************************************************************************)
(* The command, its helper, and the clock.                                 *)
(***************************************************************************)
\* A writer to a full pipe blocks.
Write(s) ==
  /\ HeldOpen /\ wrote[s] < wants[s] /\ pipe[s] < PipeSize
  /\ wrote' = [wrote EXCEPT ![s] = @ + 1]
  /\ pipe' = [pipe EXCEPT ![s] = @ + 1]
  /\ UNCHANGED <<facts, child, status, helper, signalled, expired, runnerVars>>

Spawn ==
  /\ child = "running" /\ helper = "absent" /\ helper' = "running"
  /\ UNCHANGED <<facts, child, status, wrote, pipe, signalled, expired, runnerVars>>

HelperEnds ==
  /\ helper = "running" /\ helper' = "gone"
  /\ UNCHANGED <<facts, child, status, wrote, pipe, signalled, expired, runnerVars>>

\* The child exits when all is written, or leaves the rest to its helper.
Exit ==
  /\ child = "running" /\ child' = "exited"
  /\ helper = "running" \/ wrote = wants
  /\ status' = code
  /\ UNCHANGED <<facts, helper, wrote, pipe, signalled, expired, runnerVars>>

\* SIGTERM ends a child that heeds it, one that is blocked too.
Dies ==
  /\ child = "running" /\ signalled /\ ~traps
  /\ child' = "exited" /\ status' = "signal"
  /\ UNCHANGED <<facts, helper, wrote, pipe, signalled, expired, runnerVars>>

Command == Spawn \/ HelperEnds \/ Exit \/ \E s \in Streams : Write(s)

Tick ==
  /\ ~expired /\ expired' = TRUE
  /\ UNCHANGED <<facts, childVars, pipe, signalled, runnerVars>>

Next == Runner \/ Command \/ Dies \/ Tick

\* The process is scheduled, time passes, signals arrive.  A command and a
\* helper owe nothing.
Fairness == WF_vars(Runner) /\ WF_vars(Dies) /\ WF_vars(Tick)

Spec == Init /\ [][Next]_vars /\ Fairness
-----------------------------------------------------------------------------
Counts == [Streams -> 0..MaxOutput]

\* The values the runner's locals, the ShellResult and the pipes range over.
TypeOK ==
  /\ wants \in Counts /\ code \in {"zero", "nonzero"} /\ traps \in BOOLEAN
  /\ child \in {"absent", "running", "exited"}
  /\ status \in Statuses \cup {"none"}
  /\ helper \in {"absent", "running", "gone"}
  /\ wrote \in Counts /\ got \in Counts
  /\ pipe \in [Streams -> 0..PipeSize]
  /\ signalled \in BOOLEAN /\ expired \in BOOLEAN
  /\ pc \in {"launch", "poll", "clock", "status", "done"} \cup Streams
  /\ timedOut \in BOOLEAN
  /\ text \in [Streams -> 0..Nil]
  /\ success \in BOOLEAN /\ didTimeOut \in BOOLEAN
  /\ exitStatus \in Statuses \cup {Minimum, "none"}
  /\ pc \in Streams \cup {"done"} <=> exitStatus # "none"

\* A success is a child that ended by itself with status 0, was never sent
\* SIGTERM although it may have exited just when the timeout expired, and has
\* written, with its helper, all it had to.
SuccessIsTrue ==
  success => /\ child = "exited" /\ status = "zero" /\ ~signalled /\ ~didTimeOut
             /\ helper = "absent" => wrote = wants

\* What was read before the answer is all that was ever written, of killed
\* children too: readDataToEndOfFile waits for a helper that still writes, and
\* a child blocked on one pipe does not lose what is in the other.
NothingDropped ==
  pc = "done" /\ child # "absent"
    => /\ ~HeldOpen
       /\ \A s \in Streams : text[s] \in {wrote[s], Nil}

\* A command comes to an answer, however much or little it does, as long as
\* it heeds SIGTERM and nobody else holds on to its pipes for ever.
RunnerReturns == (~traps /\ <>[](helper # "running")) => <>(pc = "done")
=============================================================================
