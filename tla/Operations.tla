------------------------------ MODULE Operations ------------------------------
(***************************************************************************)
(* An operation, a process that controls it and one that waits for it:     *)
(* abort_operation, suspend_operation, resume_operation,                   *)
(* complete_operation, update_operation_parameters and wait_for_operation  *)
(* of crates/ytsaurus-client/src/lib.rs, which Operation of operation.rs   *)
(* forwards to.                                                            *)
(*                                                                         *)
(* Control commands go to the scheduler, which has no memory of mutation   *)
(* ids: how often each is sent is its class in ClientCommands.  A request  *)
(* may be lost, or be carried out after its caller has given it up.        *)
(***************************************************************************)
EXTENDS Integers, Sequences

CONSTANTS
  ControlAttempts,  \* attempts of the client's retry policy
  ReportedJobs,     \* REPORTED_JOBS: failed jobs whose stderr is asked for
  MaxControls,      \* bound: control commands in a behaviour
  NoStatus

ASSUME OperationsAssumption ==
  ControlAttempts \in Nat \ {0} /\ ReportedJobs \in Nat /\ MaxControls \in Nat

Table == INSTANCE ClientCommands

VARIABLES
  opState,      \* the scheduler's state of the operation
  opSuspended,
  opKept,       \* the scheduler still has the operation
  opEnd,        \* history: how the operation first ended, "running" until it does
  controls,     \* history: the commands called, with outcome and whether they took effect
  controlTries, \* attempts of the last one, 0 when none is under way
  controlWire,  \* its requests and older ones the scheduler has not dealt with
  controlAnswer,
  waitPhase,    \* wait_for_operation: "poll", "judge", "sleep", "diagnose", "done"
  waitTries,    \* attempts of the request under way
  waitSeen,     \* the status it has read
  jobsLeft,     \* requests for diagnostics left
  waitResult

schedulerVars == <<opState, opSuspended, opKept, opEnd>>
controlVars   == <<controls, controlTries, controlWire, controlAnswer>>
waitVars      == <<waitPhase, waitTries, waitSeen, jobsLeft, waitResult>>
operationVars == <<schedulerVars, controlVars, waitVars>>

Terminal == {"completed", "failed", "aborted"}

ASSUME NoStatusAssumption ==
  /\ NoStatus \notin [state : Terminal \cup {"running"}, suspended : BOOLEAN]
  /\ NoStatus \notin {"Ok", "refused", "Transport", "Config", "OperationFailed", "error"}

OperationInit ==
  /\ opState = "running" /\ opSuspended \in BOOLEAN /\ opKept = TRUE /\ opEnd = "running"
  /\ controls = <<>> /\ controlTries = 0 /\ controlWire = {} /\ controlAnswer = NoStatus
  /\ waitPhase = "poll" /\ waitTries = 1 /\ waitSeen = NoStatus /\ jobsLeft = 0
  /\ waitResult = NoStatus

-----------------------------------------------------------------------------
(***************************************************************************)
(* The control commands.                                                   *)
(***************************************************************************)
ControlCommands == {"abort", "suspend", "resume", "complete", "update"}

Class(command) ==
  CASE command = "abort"    -> Table!AbortOperation.repeatable
    [] command = "suspend"  -> Table!SuspendOperation.repeatable
    [] command = "resume"   -> Table!ResumeOperation.repeatable
    [] command = "complete" -> Table!CompleteOperation.repeatable
    [] command = "update"   -> Table!UpdateOperationParameters.repeatable

ControlAllowed(command) == IF Class(command) = "Never" THEN 1 ELSE ControlAttempts

Call == Len(controls)
ControlRequest(try) == [call |-> Call, try |-> try]

\* A caller sends a command; an update that changes nothing is refused here.
ControlCalled(command) ==
  /\ controlTries = 0 /\ Call < MaxControls
  /\ \E empty \in BOOLEAN :
       IF command = "update" /\ empty
       THEN /\ controls' = Append(controls, [name |-> command, outcome |-> "Config", done |-> FALSE])
            /\ UNCHANGED <<controlTries, controlWire>>
       ELSE /\ controls' = Append(controls, [name |-> command, outcome |-> NoStatus, done |-> FALSE])
            /\ controlTries' = 1
            /\ controlWire' = controlWire \cup {[call |-> Call + 1, try |-> 1]}
  /\ UNCHANGED <<schedulerVars, controlAnswer, waitVars>>

ControlReturns(outcome) ==
  /\ controls' = [controls EXCEPT ![Call].outcome = outcome]
  /\ controlTries' = 0

\* The answer is in: success, or a refusal, which is not repeated.
ControlAnswered ==
  /\ controlTries > 0 /\ controlAnswer # NoStatus
  /\ ControlReturns(controlAnswer)
  /\ controlAnswer' = NoStatus
  /\ UNCHANGED <<schedulerVars, controlWire, waitVars>>

\* No answer in time: the next attempt, or the end.
ControlFails ==
  /\ controlTries > 0 /\ controlAnswer = NoStatus
  /\ IF controlTries < ControlAllowed(controls[Call].name)
     THEN /\ controlTries' = controlTries + 1
          /\ controlWire' = controlWire \cup {ControlRequest(controlTries + 1)}
          /\ UNCHANGED controls
     ELSE ControlReturns("Transport") /\ UNCHANGED controlWire
  /\ UNCHANGED <<schedulerVars, controlAnswer, waitVars>>

-----------------------------------------------------------------------------
(***************************************************************************)
(* wait_for_operation.                                                     *)
(***************************************************************************)
\* operation_status reads both attributes in one request, or fails: retried as
\* often as the policy says, then reported.
WaitPolls ==
  /\ waitPhase = "poll"
  /\ \/ waitSeen' = [state |-> opState, suspended |-> opSuspended]
        /\ waitPhase' = "judge" /\ waitTries' = 1 /\ UNCHANGED waitResult
     \/ waitTries < ControlAttempts
        /\ waitTries' = waitTries + 1 /\ UNCHANGED <<waitSeen, waitPhase, waitResult>>
     \/ waitTries = ControlAttempts
        /\ waitPhase' = "done" /\ waitResult' = "error" /\ UNCHANGED <<waitSeen, waitTries>>
  /\ UNCHANGED <<schedulerVars, controlVars, jobsLeft>>

\* Mutant: an operation that somebody aborted is waited for like a running one.
WaitJudgesFailuresOnly ==
  /\ waitPhase = "judge"
  /\ CASE waitSeen.state = "completed" ->
            waitPhase' = "done" /\ waitResult' = "Ok" /\ UNCHANGED jobsLeft
       [] waitSeen.state = "failed" ->
            waitPhase' = "diagnose" /\ jobsLeft' = ReportedJobs + 2 /\ UNCHANGED waitResult
       [] OTHER -> waitPhase' = "sleep" /\ UNCHANGED <<jobsLeft, waitResult>>
  /\ UNCHANGED <<schedulerVars, controlVars, waitTries, waitSeen>>

\* The status is judged: done, to be explained, or asked for again later.
WaitJudges ==
  /\ waitPhase = "judge"
  /\ CASE waitSeen.state = "completed" ->
            waitPhase' = "done" /\ waitResult' = "Ok" /\ UNCHANGED jobsLeft
       [] waitSeen.state \in {"failed", "aborted"} ->
            waitPhase' = "diagnose" /\ jobsLeft' = ReportedJobs + 2 /\ UNCHANGED waitResult
       [] OTHER -> waitPhase' = "sleep" /\ UNCHANGED <<jobsLeft, waitResult>>
  /\ UNCHANGED <<schedulerVars, controlVars, waitTries, waitSeen>>

WaitWakes ==
  /\ waitPhase = "sleep"
  /\ waitPhase' = "poll" /\ waitSeen' = NoStatus
  /\ UNCHANGED <<schedulerVars, controlVars, waitTries, jobsLeft, waitResult>>

\* Mutant: a request for diagnostics that fails is passed on with `?`.
WaitDiagnosesLoudly ==
  /\ waitPhase = "diagnose"
  /\ \/ jobsLeft > 0 /\ jobsLeft' = jobsLeft - 1 /\ UNCHANGED <<waitPhase, waitResult>>
     \/ jobsLeft <= ReportedJobs + 1
        /\ waitPhase' = "done" /\ waitResult' \in {"OperationFailed", "error"}
        /\ UNCHANGED jobsLeft
  /\ UNCHANGED <<schedulerVars, controlVars, waitTries, waitSeen>>

\* operation_error, list_jobs and a get_job_stderr per reported job: each sent
\* once, its failure swallowed; there may be fewer jobs, or none asked for.
WaitDiagnoses ==
  /\ waitPhase = "diagnose"
  /\ \/ jobsLeft > 0 /\ jobsLeft' = jobsLeft - 1 /\ UNCHANGED <<waitPhase, waitResult>>
     \/ jobsLeft <= ReportedJobs + 1
        /\ waitPhase' = "done" /\ waitResult' = "OperationFailed" /\ UNCHANGED jobsLeft
  /\ UNCHANGED <<schedulerVars, controlVars, waitTries, waitSeen>>

-----------------------------------------------------------------------------
(***************************************************************************)
(* The scheduler.                                                          *)
(***************************************************************************)
\* Whether a command is accepted, and the operation after it.
After(accepted, state, suspended, kept) ==
  [accepted |-> accepted, state |-> state, suspended |-> suspended, kept |-> kept]

\* What may come of a command that reaches the scheduler: it lets go of an
\* operation that it is told to end, and then refuses everything.  One that ended
\* by itself "can still be aborted for a short while", and may then be called
\* aborted or stay what it was; what the other commands do then is left open.
Scheduled(command) ==
  CASE ~opKept -> {After(FALSE, opState, opSuspended, FALSE)}
    [] opKept /\ opState = "running" ->
         {CASE command = "abort"    -> After(TRUE, "aborted", opSuspended, FALSE)
            [] command = "complete" -> After(TRUE, "completed", opSuspended, FALSE)
            [] command = "suspend"  -> After(TRUE, opState, TRUE, TRUE)
            [] command = "resume"   -> After(opSuspended, opState, FALSE, TRUE)
            [] command = "update"   -> After(TRUE, opState, opSuspended, TRUE)}
    [] OTHER ->
         IF command = "abort"
         THEN {After(TRUE, state, opSuspended, FALSE) : state \in {opState, "aborted"}}
         ELSE {After(accepted, opState, opSuspended, TRUE) : accepted \in BOOLEAN}

SchedulerDeals(r) ==
  /\ r \in controlWire
  /\ controlWire' = controlWire \ {r}
  /\ \E after \in Scheduled(controls[r.call].name) :
       /\ opState' = after.state /\ opSuspended' = after.suspended /\ opKept' = after.kept
       /\ opEnd' = IF opState = "running" THEN after.state ELSE opEnd
       /\ controls' = [controls EXCEPT ![r.call].done = @ \/ after.accepted]
       /\ \/ /\ r.call = Call /\ r.try = controlTries /\ controlAnswer = NoStatus
             /\ controlAnswer' = IF after.accepted THEN "Ok" ELSE "refused"
          \/ UNCHANGED controlAnswer
  /\ UNCHANGED <<controlTries, waitVars>>

RequestLost(r) ==
  /\ r \in controlWire
  /\ controlWire' = controlWire \ {r}
  /\ UNCHANGED <<schedulerVars, controls, controlTries, controlAnswer, waitVars>>

\* The operation ends by itself; a suspended one does not.  The scheduler keeps it
\* for a short while.
OperationEnds ==
  /\ opState = "running" /\ ~opSuspended
  /\ opState' \in {"completed", "failed"}
  /\ opEnd' = opState'
  /\ UNCHANGED <<opSuspended, opKept, controlVars, waitVars>>

SchedulerLetsGo ==
  /\ opState \in Terminal /\ opKept
  /\ opKept' = FALSE
  /\ UNCHANGED <<opState, opSuspended, opEnd, controlVars, waitVars>>

WaitSteps == WaitPolls \/ WaitJudges \/ WaitWakes \/ WaitDiagnoses

OperationNext ==
  \/ \E command \in ControlCommands : ControlCalled(command)
  \/ ControlAnswered \/ ControlFails
  \/ WaitSteps
  \/ \E r \in controlWire : SchedulerDeals(r) \/ RequestLost(r)
  \/ OperationEnds \/ SchedulerLetsGo

OperationSpec == OperationInit /\ [][OperationNext]_operationVars

-----------------------------------------------------------------------------
\* An abort was accepted.
AbortTook == \E i \in DOMAIN controls : controls[i].name = "abort" /\ controls[i].done

\* wait_for_operation tells how the operation ended and nothing else: Ok for one
\* that completed, and nothing but an abort that came after the end can make it
\* something else since; OperationFailed for one that did not, and once a failure
\* is known no failing request for diagnostics replaces it.
WaitIsTruthful ==
  /\ waitResult = "Ok" =>
       opEnd = "completed" /\ (opState = "completed" \/ (opState = "aborted" /\ AbortTook))
  /\ waitResult = "OperationFailed" =>
       opState \in {"failed", "aborted"} /\ (opEnd = "completed" => AbortTook)
  /\ waitSeen # NoStatus /\ waitSeen.state \in Terminal => waitResult # "error"

\* A command that took effect is never reported as refused: "sent once, never
\* retried", because the second answer would be `No such operation` or
\* `Operation is in "running" state`.  The two that are repeated may meet an
\* operation that has ended since.
RefusedWasNotDone ==
  \A i \in DOMAIN controls :
    controls[i].outcome = "refused" /\ controls[i].name \notin {"suspend", "update"}
      => ~controls[i].done

\* What the control commands and the wait report is what happened.
OperationIsTruthful == WaitIsTruthful /\ RefusedWasNotDone
=============================================================================
