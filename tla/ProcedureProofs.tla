--------------------------- MODULE ProcedureProofs ---------------------------
(***************************************************************************)
(* Proofs about the procedures that work through several commands, for any *)
(* number of attempts, launchers, lockers and parts: Operations, FileCache,*)
(* CypressLocks and Batch, and for every timeout, KeepAliveTiming.         *)
(***************************************************************************)
EXTENDS Operations, FileCache, CypressLocks, Batch, KeepAliveTiming, TLAPS

(***************************************************************************)
(* Operations: what the wait reports.                                      *)
(***************************************************************************)
Statuses == [state : Terminal \cup {"running"}, suspended : BOOLEAN]

\* An operation that has ended does not run again, and only an abort takes it from
\* where it ended; so what a terminal status says of the end stays true, and nothing
\* is asked after it but diagnostics.
WaitInv ==
  /\ {opState, opEnd} \subseteq Terminal \cup {"running"}
  /\ opSuspended \in BOOLEAN /\ opKept \in BOOLEAN
  /\ opEnd = "running" <=> opState = "running"
  /\ opState # opEnd => opState = "aborted"
  /\ waitPhase \in {"poll", "judge", "sleep", "diagnose", "done"}
  /\ waitSeen \in Statuses \cup {NoStatus}
  /\ waitSeen \in Statuses /\ waitSeen.state \in Terminal =>
       /\ opState # "running" /\ waitResult # "error"
       /\ IF waitSeen.state = "completed" THEN opEnd = "completed"
          ELSE opState \in {"failed", "aborted"}
  /\ waitPhase # "done" => waitResult = NoStatus
  /\ waitPhase = "poll" => waitSeen = NoStatus
  /\ waitPhase \in {"judge", "diagnose"} => waitSeen \in Statuses
  /\ waitPhase = "diagnose" => waitSeen.state \in {"failed", "aborted"}
  /\ waitResult = "Ok" => opEnd = "completed"
  /\ waitResult = "OperationFailed" => opState \in {"failed", "aborted"}

\* What an operation was made into after its end, an accepted abort made it.
AbortInv == opState # opEnd => AbortTook

\* The scheduler takes no step away from an end, unless it aborts.
SchedulerStep ==
  /\ opState' \in Terminal \cup {"running"} /\ opSuspended' \in BOOLEAN /\ opKept' \in BOOLEAN
  /\ IF opState = "running" THEN opEnd' = opState'
     ELSE opEnd' = opEnd /\ opState' \in {opState, "aborted"}

\* Its step is a matter of its own, or an accepted abort's.
AbortStep ==
  /\ AbortTook => AbortTook'
  /\ opState # "running" /\ opState' # opState => AbortTook'

LEMMA ScheduledFacts ==
  ASSUME opState \in Terminal \cup {"running"}, opSuspended \in BOOLEAN, opKept \in BOOLEAN,
         NEW command \in ControlCommands, NEW after \in Scheduled(command)
  PROVE  /\ after.accepted \in BOOLEAN /\ after.suspended \in BOOLEAN /\ after.kept \in BOOLEAN
         /\ after.state \in Terminal \cup {"running"}
         /\ opState # "running" =>
              \/ after.state = opState
              \/ after.state = "aborted" /\ command = "abort" /\ after.accepted
<1>1. CASE ~opKept
  <2>1. after = After(FALSE, opState, opSuspended, FALSE)
    BY <1>1 DEF Scheduled
  <2> QED
    BY <2>1 DEF After
<1>2. CASE opKept /\ opState = "running"
  <2>1. {"aborted", "completed"} \subseteq Terminal
    BY DEF Terminal
  <2>2. CASE command = "abort"
    <3>1. after = After(TRUE, "aborted", opSuspended, FALSE)
      BY <1>2, <2>2 DEF Scheduled
    <3> QED
      BY <1>2, <2>1, <3>1 DEF After
  <2>3. CASE command = "complete"
    <3>1. after = After(TRUE, "completed", opSuspended, FALSE)
      BY <1>2, <2>3 DEF Scheduled
    <3> QED
      BY <1>2, <2>1, <3>1 DEF After
  <2>4. CASE command = "suspend"
    <3>1. after = After(TRUE, opState, TRUE, TRUE)
      BY <1>2, <2>4 DEF Scheduled
    <3> QED
      BY <1>2, <3>1 DEF After
  <2>5. CASE command = "resume"
    <3>1. after = After(opSuspended, opState, FALSE, TRUE)
      BY <1>2, <2>5 DEF Scheduled
    <3> QED
      BY <1>2, <3>1 DEF After
  <2>6. CASE command = "update"
    <3>1. after = After(TRUE, opState, opSuspended, TRUE)
      BY <1>2, <2>6 DEF Scheduled
    <3> QED
      BY <1>2, <3>1 DEF After
  <2> QED
    BY <2>2, <2>3, <2>4, <2>5, <2>6 DEF ControlCommands
<1>3. CASE opKept /\ opState # "running"
  <2>1. "aborted" \in Terminal
    BY DEF Terminal
  <2>2. CASE command = "abort"
    <3>1. PICK state \in {opState, "aborted"} : after = After(TRUE, state, opSuspended, FALSE)
      BY <1>3, <2>2 DEF Scheduled
    <3> QED
      BY <2>1, <2>2, <3>1 DEF After
  <2>3. CASE command # "abort"
    <3>1. PICK accepted \in BOOLEAN : after = After(accepted, opState, opSuspended, TRUE)
      BY <1>3, <2>3 DEF Scheduled
    <3> QED
      BY <3>1 DEF After
  <2> QED
    BY <2>2, <2>3
<1> QED
  BY <1>1, <1>2, <1>3

LEMMA SchedulerKeepsWait ==
  ASSUME WaitInv, SchedulerStep, UNCHANGED waitVars
  PROVE  WaitInv'
<1>1. UNCHANGED <<waitPhase, waitTries, waitSeen, jobsLeft, waitResult>>
  BY DEF waitVars
<1>2. "aborted" \in Terminal /\ "running" \notin Terminal
  BY DEF Terminal
<1>3. /\ {opState', opEnd'} \subseteq Terminal \cup {"running"}
      /\ opEnd' = "running" <=> opState' = "running"
      /\ opState' # opEnd' => opState' = "aborted"
  BY <1>2 DEF WaitInv, SchedulerStep
<1>4. /\ opState # "running" => opState' # "running" /\ opEnd' = opEnd
      /\ opEnd = "completed" => opEnd' = "completed"
      /\ opState \in {"failed", "aborted"} => opState' \in {"failed", "aborted"}
  BY <1>2 DEF WaitInv, SchedulerStep
<1> QED
  BY <1>1, <1>3, <1>4 DEF WaitInv, SchedulerStep

LEMMA SchedulerKeepsAbort ==
  ASSUME AbortInv, WaitInv, SchedulerStep, AbortStep
  PROVE  AbortInv'
<1> HIDE DEF AbortTook
<1>1. CASE opState = "running"
  BY <1>1 DEF AbortInv, SchedulerStep
<1>2. CASE opState # "running" /\ opState' = opState
  BY <1>2 DEF AbortInv, SchedulerStep, AbortStep
<1>3. CASE opState # "running" /\ opState' # opState
  BY <1>3 DEF AbortInv, AbortStep
<1> QED
  BY <1>1, <1>2, <1>3

LEMMA WaitStepsInv ==
  ASSUME WaitInv, WaitSteps
  PROVE  WaitInv'
<1>1. UNCHANGED <<opState, opSuspended, opKept, opEnd>>
  BY DEF WaitSteps, WaitPolls, WaitJudges, WaitWakes, WaitDiagnoses, schedulerVars
<1>2. CASE WaitPolls
  <2>1. CASE waitSeen' = [state |-> opState, suspended |-> opSuspended]
             /\ waitPhase' = "judge" /\ waitResult' = waitResult
    <3>1. waitSeen' \in Statuses /\ waitSeen'.state = opState
      BY <2>1 DEF Statuses, WaitInv
    <3>2. waitResult' = NoStatus
      BY <1>2, <2>1 DEF WaitPolls, WaitInv
    <3>3. opState \in Terminal =>
            /\ opState # "running"
            /\ IF opState = "completed" THEN opEnd = "completed"
               ELSE opState \in {"failed", "aborted"}
      BY DEF WaitInv, Terminal
    <3>4. NoStatus \notin {"Ok", "OperationFailed", "error"}
      BY NoStatusAssumption
    <3> QED
      BY <1>1, <2>1, <3>1, <3>2, <3>3, <3>4 DEF WaitInv
  <2>2. CASE waitSeen' = waitSeen /\ waitPhase' = waitPhase /\ waitResult' = waitResult
    BY <1>1, <2>2 DEF WaitInv
  <2>3. CASE waitSeen' = waitSeen /\ waitPhase' = "done" /\ waitResult' = "error"
    BY <1>1, <1>2, <2>3, NoStatusAssumption DEF WaitPolls, WaitInv, Statuses
  <2> QED
    BY <1>2, <2>1, <2>2, <2>3 DEF WaitPolls
<1>3. CASE WaitJudges
  <2>1. waitPhase = "judge" /\ waitSeen' = waitSeen /\ waitSeen \in Statuses
        /\ waitResult = NoStatus
    BY <1>3 DEF WaitJudges, WaitInv
  <2>2. CASE waitSeen.state = "completed" /\ waitPhase' = "done" /\ waitResult' = "Ok"
    BY <1>1, <2>1, <2>2 DEF WaitInv, Terminal
  <2>3. CASE waitSeen.state \in {"failed", "aborted"} /\ waitPhase' = "diagnose"
             /\ waitResult' = waitResult
    BY <1>1, <2>1, <2>3, NoStatusAssumption DEF WaitInv
  <2>4. CASE waitPhase' = "sleep" /\ waitResult' = waitResult
    BY <1>1, <2>1, <2>4, NoStatusAssumption DEF WaitInv
  <2> QED
    BY <1>3, <2>2, <2>3, <2>4 DEF WaitJudges
<1>4. CASE WaitWakes
  BY <1>1, <1>4, NoStatusAssumption DEF WaitWakes, WaitInv, Statuses
<1>5. CASE WaitDiagnoses
  <2>1. waitPhase = "diagnose" /\ waitSeen' = waitSeen
        /\ opState \in {"failed", "aborted"}
    BY <1>5 DEF WaitDiagnoses, WaitInv, Terminal
  <2>2. CASE waitPhase' = waitPhase /\ waitResult' = waitResult
    BY <1>1, <2>1, <2>2 DEF WaitInv
  <2>3. CASE waitPhase' = "done" /\ waitResult' = "OperationFailed"
    BY <1>1, <2>1, <2>3 DEF WaitInv
  <2> QED
    BY <1>5, <2>2, <2>3 DEF WaitDiagnoses
<1> QED
  BY <1>2, <1>3, <1>4, <1>5 DEF WaitSteps

-----------------------------------------------------------------------------
(***************************************************************************)
(* Operations: what the control commands report.                           *)
(***************************************************************************)
Once == {"abort", "resume", "complete"}
Outcomes == {NoStatus, "Ok", "refused", "Transport", "Config"}
Controls == [name : ControlCommands, outcome : Outcomes, done : BOOLEAN]

\* Nothing of call i can change what its caller is told, or was.
Settled(i) == ~controls[i].done /\ \A r \in controlWire : r.call # i

\* A command that is sent once has one request: while that is under way nothing
\* was done, and when it was refused there is none left.
ControlOK(i) ==
  controls[i].name \in Once =>
    /\ \A r \in controlWire : r.call = i => r.try = 1 /\ ~controls[i].done
    /\ controls[i].outcome = "refused" => Settled(i)
    /\ i = Call /\ controlAnswer = "refused" => Settled(i)

ControlTypes ==
  /\ controls \in Seq(Controls)
  /\ controlTries \in Nat
  /\ controlAnswer \in {NoStatus, "Ok", "refused"}
  /\ controlTries = 0 => controlAnswer = NoStatus
  /\ controlTries > 0 => Call > 0
  /\ controlWire \in SUBSET [call : 1..Call, try : Nat \ {0}]

ControlInv == ControlTypes /\ \A i \in 1..Call : ControlOK(i)

\* The scheduler remembers no mutation ids: these three are sent once.
LEMMA OnceIsOnce == \A command \in Once : ControlAllowed(command) = 1
BY DEF Once, ControlAllowed, Class, Table!AbortOperation, Table!ResumeOperation,
   Table!CompleteOperation, Table!Command

\* The history of the calls is never unsaid.
LEMMA AbortLasts ==
  ASSUME controls \in Seq(Controls), controls' \in Seq(Controls), Len(controls) <= Len(controls'),
         \A i \in 1..Len(controls) :
           controls'[i].name = controls[i].name /\ (controls[i].done => controls'[i].done)
  PROVE  AbortTook => AbortTook'
<1> SUFFICES ASSUME AbortTook PROVE AbortTook'
  OBVIOUS
<1>1. PICK i \in 1..Len(controls) : controls[i].name = "abort" /\ controls[i].done
  BY DEF AbortTook
<1>2. i \in DOMAIN controls' /\ controls'[i].name = "abort" /\ controls'[i].done
  BY <1>1
<1> QED
  BY <1>2 DEF AbortTook

\* A new call: nothing on the wire is about it yet.
LEMMA CallInv ==
  ASSUME ControlInv, NEW command \in ControlCommands, ControlCalled(command)
  PROVE  ControlInv' /\ (AbortTook => AbortTook')
<1>1. PICK o \in Outcomes, wired \in BOOLEAN :
        /\ controls' = Append(controls, [name |-> command, outcome |-> o, done |-> FALSE])
        /\ o # "refused"
        /\ controlTries' = IF wired THEN 1 ELSE 0
        /\ controlWire' = IF wired THEN controlWire \cup {[call |-> Call + 1, try |-> 1]}
                          ELSE controlWire
        /\ controlTries = 0 /\ controlAnswer' = controlAnswer
  BY NoStatusAssumption DEF ControlCalled, Outcomes
<1> DEFINE new == [name |-> command, outcome |-> o, done |-> FALSE]
<1>2. new \in Controls /\ new.done = FALSE /\ new.outcome # "refused"
  BY <1>1 DEF Controls
<1>3. controls \in Seq(Controls) /\ Call \in Nat
  BY DEF ControlInv, ControlTypes, Call
<1>4. /\ controls' \in Seq(Controls) /\ Call' = Call + 1
      /\ controls'[Call + 1] = new /\ \A i \in 1..Call : controls'[i] = controls[i]
  <2> HIDE DEF new
  <2>1. controls' = Append(controls, new)
    BY <1>1 DEF new
  <2> QED
    BY <1>2, <1>3, <2>1 DEF Call
<1> HIDE DEF new
<1>5. controlAnswer' = NoStatus /\ NoStatus # "refused"
  BY <1>1, NoStatusAssumption DEF ControlInv, ControlTypes
<1>6. \A r \in controlWire : r.call \in 1..Call
  BY DEF ControlInv, ControlTypes
<1>7. \A r \in controlWire' : r \in controlWire \/ (r.call = Call + 1 /\ r.try = 1)
  BY <1>1
<1>8. ControlTypes'
  <2>1. controlWire' \in SUBSET [call : 1..(Call + 1), try : Nat \ {0}]
    BY <1>1, <1>3 DEF ControlInv, ControlTypes
  <2> QED
    BY <1>1, <1>3, <1>4, <1>5, <2>1 DEF ControlInv, ControlTypes
<1>9. ASSUME NEW i \in 1..Call' PROVE ControlOK(i)'
  <2>1. CASE i = Call + 1
    BY <1>2, <1>3, <1>4, <1>5, <1>6, <1>7, <2>1 DEF ControlOK, Settled
  <2>2. CASE i \in 1..Call
    <3>1. \A r \in controlWire' : r.call = i => r \in controlWire
      BY <1>3, <1>7, <2>2
    <3>2. ControlOK(i) /\ controls'[i] = controls[i] /\ i # Call'
      BY <1>3, <1>4, <2>2 DEF ControlInv
    <3> QED
      BY <1>5, <3>1, <3>2 DEF ControlOK, Settled
  <2> QED
    BY <1>3, <1>4, <2>1, <2>2
<1>10. AbortTook => AbortTook'
  BY <1>3, <1>4, AbortLasts DEF Call
<1> QED
  BY <1>8, <1>9, <1>10 DEF ControlInv

\* One call's record changes, and nothing else of the history.
LEMMA ReplaceCall ==
  ASSUME NEW s, s \in Seq(Controls), NEW i \in 1..Len(s), NEW c \in Controls, NEW t,
         t = [s EXCEPT ![i] = c]
  PROVE  /\ t \in Seq(Controls) /\ Len(t) = Len(s) /\ t[i] = c
         /\ \A k \in 1..Len(s) : k # i => t[k] = s[k]
OBVIOUS

\* The call under way returns: what it reports is what the scheduler answered.
LEMMA ReturnInv ==
  ASSUME ControlInv, NEW verdict \in {"Ok", "refused", "Transport"}, controlTries > 0,
         verdict = "refused" => controlAnswer = "refused",
         ControlReturns(verdict), controlAnswer' = NoStatus, controlWire' = controlWire
  PROVE  ControlInv' /\ (AbortTook => AbortTook')
<1>1. controls \in Seq(Controls) /\ Call \in 1..Len(controls) /\ Call = Len(controls)
      /\ controls[Call] \in Controls
  BY DEF ControlInv, ControlTypes, Call
<1> DEFINE c == [controls[Call] EXCEPT !.outcome = verdict]
<1>2. c \in Controls /\ c.outcome = verdict /\ c.name = controls[Call].name
      /\ c.done = controls[Call].done
  BY <1>1 DEF Controls, Outcomes
<1>3. controls' = [controls EXCEPT ![Call] = c] /\ controlTries' = 0
  BY <1>1 DEF ControlReturns
<1> HIDE DEF c
<1>4. /\ controls' \in Seq(Controls) /\ Len(controls') = Len(controls) /\ controls'[Call] = c
      /\ \A k \in 1..Len(controls) : k # Call => controls'[k] = controls[k]
  BY <1>1, <1>2, <1>3, ReplaceCall
<1>5. Call' = Call
  BY <1>4 DEF Call
<1>6. NoStatus # "refused"
  BY NoStatusAssumption
<1>7. ControlTypes'
  BY <1>3, <1>4, <1>5, <1>6 DEF ControlInv, ControlTypes
<1>8. ASSUME NEW i \in 1..Call PROVE ControlOK(i)'
  <2>1. ControlOK(i)
    BY <1>8 DEF ControlInv
  <2>2. controls'[i].name = controls[i].name /\ controls'[i].done = controls[i].done
        /\ (controls'[i].outcome = "refused" =>
              controls[i].outcome = "refused" \/ (i = Call /\ controlAnswer = "refused"))
    BY <1>1, <1>2, <1>4
  <2> QED
    BY <1>5, <1>6, <2>1, <2>2 DEF ControlOK, Settled
<1>9. AbortTook => AbortTook'
  <2>1. \A i \in 1..Len(controls) :
          controls'[i].name = controls[i].name /\ (controls[i].done => controls'[i].done)
    BY <1>1, <1>2, <1>4
  <2> QED
    BY <1>1, <1>4, <2>1, AbortLasts
<1> QED
  BY <1>5, <1>7, <1>8, <1>9 DEF ControlInv

\* Another attempt, of a command that may have one.
LEMMA RetryInv ==
  ASSUME ControlInv, controlTries > 0, controlAnswer = NoStatus,
         controlTries < ControlAllowed(controls[Call].name), controlTries' = controlTries + 1,
         controlWire' = controlWire \cup {ControlRequest(controlTries + 1)},
         UNCHANGED <<controls, controlAnswer>>
  PROVE  ControlInv'
<1>1. controlTries \in Nat /\ Call' = Call /\ Call \in 1..Call
  BY DEF ControlInv, ControlTypes, Call
<1>2. controls[Call].name \notin Once
  BY <1>1, OnceIsOnce
<1> DEFINE r == ControlRequest(controlTries + 1)
<1>3. r \in [call : 1..Call, try : Nat \ {0}] /\ r.call = Call
  BY <1>1 DEF ControlRequest
<1> HIDE DEF r
<1>4. controlWire' = controlWire \cup {r}
  BY DEF r
<1>5. ControlTypes'
  BY <1>1, <1>3, <1>4 DEF ControlInv, ControlTypes
<1>6. ASSUME NEW i \in 1..Call PROVE ControlOK(i)'
  BY <1>1, <1>2, <1>3, <1>4, NoStatusAssumption DEF ControlInv, ControlOK, Settled
<1> QED
  BY <1>1, <1>5, <1>6 DEF ControlInv

\* The scheduler deals with a request: what it does or refuses to do is known of
\* a call that has no other.
LEMMA DealsInv ==
  ASSUME ControlInv, WaitInv, NEW r \in controlWire, SchedulerDeals(r)
  PROVE  ControlInv' /\ SchedulerStep /\ AbortStep
<1>1. controls \in Seq(Controls) /\ r.call \in 1..Len(controls) /\ Call = Len(controls)
      /\ controls[r.call] \in Controls /\ controlTries' = controlTries
      /\ r \in [call : 1..Call, try : Nat \ {0}]
  BY DEF ControlInv, ControlTypes, Call, SchedulerDeals
<1>0. PICK after \in Scheduled(controls[r.call].name) :
        /\ opState' = after.state /\ opSuspended' = after.suspended /\ opKept' = after.kept
        /\ opEnd' = IF opState = "running" THEN after.state ELSE opEnd
        /\ controls' = [controls EXCEPT ![r.call].done = @ \/ after.accepted]
        /\ \/ /\ r.call = Call /\ r.try = controlTries /\ controlAnswer = NoStatus
              /\ controlAnswer' = IF after.accepted THEN "Ok" ELSE "refused"
           \/ UNCHANGED controlAnswer
  BY DEF SchedulerDeals
<1> DEFINE a == after.accepted
<1>2. /\ a \in BOOLEAN /\ after.suspended \in BOOLEAN /\ after.kept \in BOOLEAN
      /\ after.state \in Terminal \cup {"running"}
      /\ opState # "running" =>
           \/ after.state = opState
           \/ after.state = "aborted" /\ controls[r.call].name = "abort" /\ a
  <2>1. controls[r.call].name \in ControlCommands
    BY <1>1 DEF Controls
  <2>2. opState \in Terminal \cup {"running"} /\ opSuspended \in BOOLEAN /\ opKept \in BOOLEAN
    BY DEF WaitInv
  <2> QED
    BY <2>1, <2>2, ScheduledFacts
<1> DEFINE c == [controls[r.call] EXCEPT !.done = @ \/ a]
<1>3. controls' = [controls EXCEPT ![r.call] = c]
  BY <1>0, <1>1
<1>4. controlWire' = controlWire \ {r}
      /\ \/ /\ r.call = Call /\ r.try = controlTries
            /\ controlAnswer' = IF a THEN "Ok" ELSE "refused"
         \/ controlAnswer' = controlAnswer
  BY <1>0 DEF SchedulerDeals
<1> HIDE DEF a
<1>5. c \in Controls /\ c.name = controls[r.call].name
      /\ c.outcome = controls[r.call].outcome /\ (c.done <=> controls[r.call].done \/ a)
  BY <1>1, <1>2 DEF Controls
<1> HIDE DEF c
<1>6. /\ controls' \in Seq(Controls) /\ Len(controls') = Len(controls)
      /\ controls'[r.call] = c
      /\ \A k \in 1..Len(controls) : k # r.call => controls'[k] = controls[k]
  BY <1>1, <1>3, <1>5, ReplaceCall
<1>7. Call' = Call
  BY <1>6 DEF Call
<1>8. ControlTypes'
  BY <1>1, <1>2, <1>4, <1>6, <1>7 DEF ControlInv, ControlTypes
<1>9. ASSUME NEW i \in 1..Call PROVE ControlOK(i)'
  <2>1. ControlOK(i)
    BY <1>9 DEF ControlInv
  <2>2. CASE i # r.call
    BY <1>1, <1>4, <1>6, <1>7, <2>1, <2>2 DEF ControlOK, Settled
  <2>3. CASE i = r.call /\ controls[i].name \in Once
    <3>1. r.try = 1 /\ ~controls[i].done /\ controls[i].outcome # "refused"
          /\ ~(i = Call /\ controlAnswer = "refused")
      BY <2>1, <2>3 DEF ControlOK, Settled
    <3>2. \A q \in controlWire' : q.call # i
      <4> SUFFICES ASSUME NEW q \in controlWire, q.call = i PROVE q = r
        BY <1>4
      <4>1. q \in [call : 1..Call, try : Nat \ {0}] /\ q.try = 1
        BY <2>1, <2>3 DEF ControlOK, ControlInv, ControlTypes
      <4> QED
        BY <1>1, <2>3, <3>1, <4>1
    <3>3. controlAnswer' = "refused" /\ i = Call => ~a
      BY <1>2, <1>4, <3>1
    <3> QED
      BY <1>1, <1>5, <1>6, <1>7, <2>3, <3>1, <3>2, <3>3 DEF ControlOK, Settled
  <2>4. CASE i = r.call /\ controls[i].name \notin Once
    BY <1>5, <1>6, <2>4 DEF ControlOK
  <2> QED
    BY <2>2, <2>3, <2>4
<1>10. SchedulerStep
  BY <1>0, <1>2 DEF SchedulerStep
<1>11. AbortStep
  <2>1. \A i \in 1..Len(controls) :
          controls'[i].name = controls[i].name /\ (controls[i].done => controls'[i].done)
    BY <1>1, <1>5, <1>6
  <2>2. AbortTook => AbortTook'
    BY <1>1, <1>6, <2>1, AbortLasts
  <2>3. ASSUME opState # "running", opState' # opState PROVE AbortTook'
    <3>1. controls[r.call].name = "abort" /\ a
      BY <1>0, <1>2, <2>3
    <3>2. r.call \in DOMAIN controls' /\ controls'[r.call].name = "abort"
          /\ controls'[r.call].done
      BY <1>1, <1>5, <1>6, <3>1
    <3> QED
      BY <3>2 DEF AbortTook
  <2> QED
    BY <2>2, <2>3 DEF AbortStep
<1> QED
  BY <1>7, <1>8, <1>9, <1>10, <1>11 DEF ControlInv

OperationInv == WaitInv /\ AbortInv /\ ControlInv

LEMMA OperationInductive == OperationInv /\ [OperationNext]_operationVars => OperationInv'
<1> SUFFICES ASSUME WaitInv, AbortInv, ControlInv, [OperationNext]_operationVars
             PROVE  WaitInv' /\ AbortInv' /\ ControlInv'
  BY DEF OperationInv
<1>1. ASSUME UNCHANGED schedulerVars, AbortTook => AbortTook' PROVE SchedulerStep /\ AbortInv'
  <2>1. UNCHANGED <<opState, opSuspended, opKept, opEnd>>
    BY <1>1 DEF schedulerVars
  <2> QED
    BY <1>1, <2>1 DEF SchedulerStep, WaitInv, AbortInv
<1>2. ASSUME UNCHANGED controlVars PROVE ControlInv' /\ (AbortTook => AbortTook')
  <2>1. UNCHANGED <<controls, controlTries, controlWire, controlAnswer>> /\ Call' = Call
    BY <1>2 DEF controlVars, Call
  <2>2. \A i \in 1..Call : ControlOK(i)'
    BY <2>1 DEF ControlInv, ControlOK, Settled
  <2> QED
    BY <2>1, <2>2 DEF ControlInv, ControlTypes, AbortTook
<1>3. ASSUME NEW command \in ControlCommands, ControlCalled(command)
      PROVE  WaitInv' /\ AbortInv' /\ ControlInv'
  BY <1>1, <1>3, CallInv, SchedulerKeepsWait DEF ControlCalled
<1>4. CASE ControlAnswered
  <2>1. ControlInv' /\ (AbortTook => AbortTook')
    BY <1>4, ReturnInv DEF ControlAnswered, ControlInv, ControlTypes
  <2> QED
    BY <1>1, <1>4, <2>1, SchedulerKeepsWait DEF ControlAnswered
<1>5. CASE ControlFails
  <2>1. ASSUME controlTries < ControlAllowed(controls[Call].name)
        PROVE  ControlInv' /\ (AbortTook => AbortTook')
    BY <1>5, <2>1, RetryInv DEF ControlFails, AbortTook
  <2>2. ASSUME ~(controlTries < ControlAllowed(controls[Call].name))
        PROVE  ControlInv' /\ (AbortTook => AbortTook')
    BY <1>5, <2>2, ReturnInv DEF ControlFails
  <2> QED
    BY <1>1, <1>5, <2>1, <2>2, SchedulerKeepsWait DEF ControlFails
<1>6. CASE WaitSteps
  <2>1. UNCHANGED controlVars /\ UNCHANGED schedulerVars
    BY <1>6 DEF WaitSteps, WaitPolls, WaitJudges, WaitWakes, WaitDiagnoses
  <2> QED
    BY <1>1, <1>2, <1>6, <2>1, WaitStepsInv
<1>7. ASSUME NEW r \in controlWire, SchedulerDeals(r)
      PROVE  WaitInv' /\ AbortInv' /\ ControlInv'
  <2>1. ControlInv' /\ SchedulerStep /\ AbortStep
    BY <1>7, DealsInv
  <2>2. UNCHANGED waitVars
    BY <1>7 DEF SchedulerDeals
  <2> QED
    BY <2>1, <2>2, SchedulerKeepsWait, SchedulerKeepsAbort
<1>8. ASSUME NEW r \in controlWire, RequestLost(r)
      PROVE  WaitInv' /\ AbortInv' /\ ControlInv'
  <2>1. controlWire' = controlWire \ {r} /\ UNCHANGED <<controls, controlTries, controlAnswer>>
        /\ UNCHANGED <<schedulerVars, waitVars>> /\ Call' = Call
    BY <1>8 DEF RequestLost, Call
  <2>2. \A i \in 1..Call : ControlOK(i)'
    BY <2>1 DEF ControlInv, ControlOK, Settled
  <2>3. ControlInv'
    BY <2>1, <2>2 DEF ControlInv, ControlTypes
  <2>4. AbortTook => AbortTook'
    BY <2>1 DEF AbortTook
  <2> QED
    BY <1>1, <2>1, <2>3, <2>4, SchedulerKeepsWait
<1>9. CASE OperationEnds \/ SchedulerLetsGo
  <2>1. SchedulerStep /\ UNCHANGED controlVars /\ UNCHANGED waitVars
        /\ (opState # "running" => opState' = opState)
    BY <1>9 DEF OperationEnds, SchedulerLetsGo, SchedulerStep, WaitInv, Terminal
  <2>2. AbortStep
    BY <1>2, <2>1 DEF AbortStep
  <2> QED
    BY <1>2, <2>1, <2>2, SchedulerKeepsWait, SchedulerKeepsAbort
<1>10. CASE UNCHANGED operationVars
  BY <1>1, <1>2, <1>10, SchedulerKeepsWait DEF operationVars
<1> QED
  BY <1>3, <1>4, <1>5, <1>6, <1>7, <1>8, <1>9, <1>10 DEF OperationNext

\* wait_for_operation reports how the operation ended, which an abort accepted
\* after that is all that can have changed, and a control command that took effect
\* is never reported as refused, whatever was lost, late or repeated and whichever
\* other commands there were.
THEOREM OperationsAreTruthful == OperationSpec => []OperationIsTruthful
<1>1. OperationInit => OperationInv
  <2> SUFFICES ASSUME OperationInit PROVE WaitInv /\ AbortInv /\ ControlInv
    BY DEF OperationInv
  <2>1. WaitInv /\ AbortInv
    BY NoStatusAssumption DEF OperationInit, WaitInv, AbortInv, Statuses
  <2>2. Call = 0 /\ controls = <<>>
    BY DEF OperationInit, Call
  <2>3. ControlTypes
    BY <2>2 DEF OperationInit, ControlTypes
  <2> QED
    BY <2>1, <2>2, <2>3 DEF ControlInv
<1>2. OperationInv => OperationIsTruthful
  <2> SUFFICES ASSUME WaitInv, AbortInv, ControlInv PROVE WaitIsTruthful /\ RefusedWasNotDone
    BY DEF OperationIsTruthful, OperationInv
  <2>1. WaitIsTruthful
    BY NoStatusAssumption DEF WaitInv, AbortInv, WaitIsTruthful, Statuses
  <2>2. ASSUME NEW i \in DOMAIN controls, controls[i].outcome = "refused",
               controls[i].name \notin {"suspend", "update"}
        PROVE  ~controls[i].done
    <3>1. i \in 1..Call /\ controls[i] \in Controls
      BY DEF ControlInv, ControlTypes, Call
    <3>2. controls[i].name \in Once /\ ControlOK(i)
      BY <2>2, <3>1 DEF Controls, ControlCommands, Once, ControlInv
    <3> QED
      BY <2>2, <3>2 DEF ControlOK, Settled
  <2> QED
    BY <2>1, <2>2 DEF RefusedWasNotDone
<1> QED
  BY <1>1, <1>2, OperationInductive, PTL DEF OperationSpec

-----------------------------------------------------------------------------
(***************************************************************************)
(* FileCache.                                                              *)
(***************************************************************************)
Nodes == [whole : BOOLEAN, executable : BOOLEAN]
NodeOrNone == Nodes \cup {Absent}

Steps == {"lookup", "mkdir", "stage", "write", "mark", "put", "remove", "markCached",
          "create", "fill", "allow", "done", "dead"}
Errors == {Absent, "denied", "reported", "unanswered"}
Workers == {Absent, "found", "cached", "uncached", "error"}
Failures == Steps \X Reasons

FileTypes ==
  /\ at \in [Launchers -> Steps]
  /\ staged \in [Launchers -> NodeOrNone]
  /\ loose \in [Launchers -> NodeOrNone]
  /\ cache \in NodeOrNone
  /\ refused \in [Launchers -> Errors]
  /\ failed \in [Launchers -> SUBSET Failures]
  /\ worker \in [Launchers -> Workers]

IsDenial(f) == f[2] = "denied" /\ f[1] \in {"mkdir", "stage", "put"}

\* What the failed requests are a reason for: an upload outside the cache, an
\* error, a staging node left behind.
Denies(fs)  == \E f \in fs : IsDenial(f)
Excuses(fs) == \E f \in fs : ~IsDenial(f)
Leaves(fs)  == \E f \in fs : f[1] \in {"stage", "remove"}

\* What a launcher at step a has, `s` being its staging node, `o` its node outside
\* the cache, `e` the error kept, `fs` the requests that failed and `w` its result.
LauncherOK(a, s, o, e, fs, w) ==
  /\ a \in {"lookup", "mkdir", "stage"} => s = Absent
  /\ a = "put" => s = Absent \/ s.executable = TRUE
  /\ a \in {"markCached", "create", "fill", "allow", "done"} /\ s # Absent => Leaves(fs)
  /\ a = "remove" /\ e \in {"reported", "unanswered"} => Excuses(fs)
  /\ a = "remove" /\ e = "denied" => Denies(fs)
  /\ a \in {"create", "fill", "allow"} \/ o # Absent => Denies(fs)
  /\ a \in {"fill", "allow"} => o # Absent
  /\ a = "allow" => o.whole = TRUE
  /\ a # "done" => w = Absent
  /\ w = "uncached" => o = Node(TRUE, TRUE)
  /\ w = "error" => Excuses(fs)

Sound(l) == LauncherOK(at[l], staged[l], loose[l], refused[l], failed[l], worker[l])

\* Where a launcher is, and with what, that may have handed over a file which lost
\* its mark on the way and has not been given it back.
Unmarked(a, e, w) ==
  \/ a = "remove" /\ e \in {Absent, "unanswered"}
  \/ a \in {"markCached", "dead"}
  \/ a = "done" /\ w = "error"

\* Whatever is in the cache is whole, and marked unless it lost its mark on the way
\* there and the launcher it came from is to blame.
HandoverOK ==
  cache # Absent =>
    /\ cache.whole = TRUE
    /\ cache.executable # TRUE =>
         /\ handed.kept = FALSE /\ handed.by \in Launchers
         /\ Unmarked(at[handed.by], refused[handed.by], worker[handed.by])

\* With each launcher's nodes its own.
FileInv == FileTypes /\ HandoverOK /\ \A l \in Launchers : Sound(l)

LEMMA NodeIs ==
  ASSUME NEW c \in Nodes, c.whole = TRUE, c.executable = TRUE
  PROVE  c = Node(TRUE, TRUE)
BY DEF Nodes, Node

LEMMA FileInvSuffices == FileInv => UploadsAreSound
<1> SUFFICES ASSUME FileInv PROVE WorkerRuns /\ NothingLeftStaged /\ OnlyDenialFallsBack
  BY DEF UploadsAreSound
<1>1. WorkerRuns
  <2>1. ASSUME NEW l \in Launchers, worker[l] = "uncached" PROVE loose[Loose(l)] = Node(TRUE, TRUE)
    BY <2>1 DEF FileInv, Sound, LauncherOK, Loose
  <2>2. ASSUME cache # Absent PROVE cache.whole
    BY <2>2 DEF FileInv, HandoverOK
  <2>3. ASSUME cache # Absent, ~cache.executable
        PROVE  ~handed.kept /\ worker[handed.by] \in {Absent, "error"}
    <3>1. handed.kept = FALSE /\ handed.by \in Launchers
          /\ Unmarked(at[handed.by], refused[handed.by], worker[handed.by])
      BY <2>3 DEF FileInv, HandoverOK
    <3>2. at[handed.by] # "done" => worker[handed.by] = Absent
      BY <3>1 DEF FileInv, Sound, LauncherOK
    <3> QED
      BY <3>1, <3>2 DEF Unmarked
  <2> QED
    BY <2>1, <2>2, <2>3 DEF WorkerRuns
<1>2. NothingLeftStaged
  BY DEF FileInv, NothingLeftStaged, Sound, LauncherOK, Staging, Leaves
<1>3. OnlyDenialFallsBack
  BY DEF FileInv, OnlyDenialFallsBack, Sound, LauncherOK, Loose, Denies, Excuses, IsDenial
<1> QED
  BY <1>1, <1>2, <1>3

\* g is f with y at l's place.
Became(f, g, T, l, y) ==
  g \in [Launchers -> T] /\ g[l] = y /\ \A m \in Launchers : m # l => g[m] = f[m]

\* A step of launcher l and of nobody else, after which it is where LauncherOK
\* says: the state of the others is theirs alone.
MovesTo(l, a, s, o, e, fs, w) ==
  /\ Became(at, at', Steps, l, a)
  /\ Became(staged, staged', NodeOrNone, l, s)
  /\ Became(loose, loose', NodeOrNone, l, o)
  /\ Became(refused, refused', Errors, l, e)
  /\ Became(failed, failed', SUBSET Failures, l, fs)
  /\ Became(worker, worker', Workers, l, w)

\* What such a step may do to the cache: nothing, hand over the launcher's own node,
\* or mark what is there.
CacheMoves(l, a, e, w) ==
  \/ /\ UNCHANGED cacheVars
     /\ Unmarked(at[l], refused[l], worker[l]) => Unmarked(a, e, w)
  \/ /\ cache' \in Nodes /\ cache'.whole = TRUE
     /\ \/ cache'.executable = TRUE
        \/ handed'.kept = FALSE /\ handed'.by = l /\ Unmarked(a, e, w)

\* A launcher that has nothing in the cache leaves it alone.
LEMMA CacheRests ==
  ASSUME NEW l, at[l] \notin {"remove", "markCached", "dead", "done"}, UNCHANGED cacheVars
  PROVE  \A a, e, w : CacheMoves(l, a, e, w)
BY DEF CacheMoves, Unmarked

LEMMA OneLauncherSteps ==
  ASSUME FileInv, NEW l \in Launchers, NEW a, NEW s, NEW o, NEW e, NEW fs, NEW w,
         MovesTo(l, a, s, o, e, fs, w), LauncherOK(a, s, o, e, fs, w), CacheMoves(l, a, e, w)
  PROVE  FileInv'
<1>1. FileTypes'
  <2>1. cache' \in NodeOrNone
    BY DEF FileInv, FileTypes, NodeOrNone, CacheMoves, cacheVars
  <2>2. /\ at' \in [Launchers -> Steps] /\ staged' \in [Launchers -> NodeOrNone]
        /\ loose' \in [Launchers -> NodeOrNone] /\ refused' \in [Launchers -> Errors]
        /\ failed' \in [Launchers -> SUBSET Failures] /\ worker' \in [Launchers -> Workers]
    BY DEF MovesTo, Became
  <2> QED
    BY <2>1, <2>2 DEF FileTypes, Steps, NodeOrNone, Nodes, Errors, Failures, Reasons, Workers
<1>2. ASSUME NEW m \in Launchers PROVE Sound(m)'
  <2>1. CASE m = l
    BY <2>1 DEF MovesTo, Became, Sound
  <2>2. CASE m # l
    <3>1. /\ at'[m] = at[m] /\ staged'[m] = staged[m] /\ loose'[m] = loose[m]
          /\ refused'[m] = refused[m] /\ failed'[m] = failed[m] /\ worker'[m] = worker[m]
      BY <2>2 DEF MovesTo, Became
    <3> QED
      BY <3>1 DEF FileInv, Sound
  <2> QED
    BY <2>1, <2>2
<1>3. HandoverOK'
  <2>1. at'[l] = a /\ refused'[l] = e /\ worker'[l] = w
    BY DEF MovesTo, Became
  <2>2. CASE /\ UNCHANGED <<cache, handed>>
             /\ Unmarked(at[l], refused[l], worker[l]) => Unmarked(a, e, w)
    <3>1. ASSUME NEW m \in Launchers, Unmarked(at[m], refused[m], worker[m])
          PROVE  Unmarked(at'[m], refused'[m], worker'[m])
      <4>1. CASE m = l
        BY <2>1, <2>2, <3>1, <4>1
      <4>2. CASE m # l
        BY <3>1, <4>2 DEF MovesTo, Became
      <4> QED
        BY <4>1, <4>2
    <3> QED
      BY <2>2, <3>1 DEF FileInv, HandoverOK
  <2>3. CASE cache'.whole = TRUE /\ cache'.executable = TRUE
    BY <2>3 DEF HandoverOK
  <2>4. CASE cache'.whole = TRUE /\ handed'.kept = FALSE /\ handed'.by = l /\ Unmarked(a, e, w)
    BY <2>1, <2>4 DEF HandoverOK
  <2> QED
    BY <2>2, <2>3, <2>4 DEF CacheMoves, cacheVars
<1> QED
  BY <1>1, <1>2, <1>3 DEF FileInv

\* What the steps are made of.
LEMMA SetPlace ==
  ASSUME NEW T, NEW f \in [Launchers -> T], NEW l \in Launchers, NEW y \in T, NEW g,
         g = [f EXCEPT ![l] = y]
  PROVE  Became(f, g, T, l, y)
BY DEF Became

LEMMA RestFacts ==
  ASSUME FileTypes, NEW l \in Launchers
  PROVE  /\ at' = at => Became(at, at', Steps, l, at[l])
         /\ staged' = staged => Became(staged, staged', NodeOrNone, l, staged[l])
         /\ loose' = loose => Became(loose, loose', NodeOrNone, l, loose[l])
         /\ refused' = refused => Became(refused, refused', Errors, l, refused[l])
         /\ failed' = failed => Became(failed, failed', SUBSET Failures, l, failed[l])
         /\ worker' = worker => Became(worker, worker', Workers, l, worker[l])
BY DEF Became, FileTypes

LEMMA GotoFacts ==
  ASSUME FileTypes, NEW l \in Launchers, NEW step \in Steps, Goto(l, step)
  PROVE  Became(at, at', Steps, l, step)
BY SetPlace DEF Goto, FileTypes

LEMMA ReturnFacts ==
  ASSUME FileTypes, NEW l \in Launchers, NEW result \in Workers, Return(l, result)
  PROVE  Became(at, at', Steps, l, "done") /\ Became(worker, worker', Workers, l, result)
<1>1. Goto(l, "done") /\ "done" \in Steps
  BY DEF Return, Steps
<1>2. worker' = [worker EXCEPT ![l] = result] /\ worker \in [Launchers -> Workers]
  BY DEF Return, FileTypes
<1> QED
  BY <1>1, <1>2, GotoFacts, SetPlace

LEMMA KeepFacts ==
  ASSUME FileTypes, NEW l \in Launchers, NEW error \in Errors, Keep(l, error)
  PROVE  Became(refused, refused', Errors, l, error)
BY SetPlace DEF Keep, FileTypes

Plus(fs, request, why) == fs \cup {<<request, why>>}

LEMMA BlameFacts ==
  ASSUME FileTypes, NEW l \in Launchers, NEW request \in Steps, NEW why \in Reasons,
         Blame(l, request, why)
  PROVE  Became(failed, failed', SUBSET Failures, l, Plus(failed[l], request, why))
<1>1. failed \in [Launchers -> SUBSET Failures] /\ <<request, why>> \in Failures
  BY DEF FileTypes, Failures
<1>2. Plus(failed[l], request, why) \in SUBSET Failures
  BY <1>1 DEF Plus
<1>3. failed' = [failed EXCEPT ![l] = Plus(failed[l], request, why)]
  BY DEF Blame, Plus
<1> QED
  BY <1>1, <1>2, <1>3, SetPlace

\* A failure more: a denial of a write to the cache, or not.
LEMMA PlusFacts ==
  ASSUME NEW fs, NEW request, NEW why
  PROVE  /\ Denies(fs) \/ Denied(request, why) => Denies(Plus(fs, request, why))
         /\ Excuses(fs) \/ ~Denied(request, why) => Excuses(Plus(fs, request, why))
         /\ Leaves(fs) \/ request \in {"stage", "remove"} => Leaves(Plus(fs, request, why))
<1> DEFINE f == <<request, why>>
<1>1. f \in Plus(fs, request, why) /\ fs \subseteq Plus(fs, request, why)
  BY DEF Plus
<1>2. f[1] = request /\ (IsDenial(f) <=> Denied(request, why))
  BY DEF IsDenial, Denied
<1> HIDE DEF f
<1> QED
  BY <1>1, <1>2 DEF Denies, Excuses, Leaves

LEMMA LookupInv ==
  ASSUME FileInv, NEW l \in Launchers, Lookup(l)
  PROVE  FileInv'
<1> USE DEF FileInv
<1>1. at[l] = "lookup" /\ UNCHANGED <<staged, loose, cacheVars, refused>> /\ Sound(l)
  BY DEF Lookup
<1>0. \A a, e, w : CacheMoves(l, a, e, w)
  BY <1>1, CacheRests
<1>2. CASE Return(l, "found") /\ UNCHANGED failed
  <2>1. MovesTo(l, "done", staged[l], loose[l], refused[l], failed[l], "found")
    BY <1>1, <1>2, RestFacts, ReturnFacts DEF MovesTo, Workers
  <2>2. LauncherOK("done", staged[l], loose[l], refused[l], failed[l], "found")
    BY <1>1 DEF Sound, LauncherOK
  <2> QED
    BY <1>1, <2>1, <2>2, <1>0, OneLauncherSteps
<1>3. CASE Goto(l, "mkdir") /\ UNCHANGED <<worker, failed>>
  <2>1. MovesTo(l, "mkdir", staged[l], loose[l], refused[l], failed[l], worker[l])
    BY <1>1, <1>3, RestFacts, GotoFacts DEF MovesTo, Steps
  <2>2. LauncherOK("mkdir", staged[l], loose[l], refused[l], failed[l], worker[l])
    BY <1>1 DEF Sound, LauncherOK
  <2> QED
    BY <1>1, <2>1, <2>2, <1>0, OneLauncherSteps
<1>4. ASSUME NEW why \in Reasons, Blame(l, "lookup", why), Return(l, "error")
      PROVE  FileInv'
  <2> DEFINE fs == Plus(failed[l], "lookup", why)
  <2>1. MovesTo(l, "done", staged[l], loose[l], refused[l], fs, "error")
    <3>1. Became(failed, failed', SUBSET Failures, l, fs)
      BY <1>4, BlameFacts DEF Steps
    <3> HIDE DEF fs
    <3> QED
      BY <1>1, <1>4, <3>1, RestFacts, ReturnFacts DEF MovesTo, Workers
  <2>2. LauncherOK("done", staged[l], loose[l], refused[l], fs, "error")
    BY <1>1, PlusFacts DEF Sound, LauncherOK, Denied
  <2> QED
    BY <1>1, <2>1, <2>2, <1>0, OneLauncherSteps
<1> QED
  BY <1>2, <1>3, <1>4 DEF Lookup

\* A create in the cache directory fails, having left a node only if it was the
\* staging node's and went unanswered.
LEMMA CreateFailsInv ==
  ASSUME FileInv, NEW l \in Launchers, NEW request \in {"mkdir", "stage"}, at[l] = request,
         NEW why \in Reasons, CreateFails(l, request, why), NEW s,
         Became(staged, staged', NodeOrNone, l, s),
         s # Absent => request = "stage" /\ why = "unanswered",
         UNCHANGED <<loose, cacheVars, refused>>
  PROVE  FileInv'
<1> DEFINE fs == Plus(failed[l], request, why)
<1>1. FileTypes /\ Sound(l) /\ request \in Steps
  BY DEF FileInv, Steps
<1>0. \A a, e, w : CacheMoves(l, a, e, w)
  BY CacheRests
<1>2. Became(failed, failed', SUBSET Failures, l, fs)
  BY <1>1, BlameFacts DEF CreateFails
<1>3. (Denied(request, why) => Denies(fs) /\ s = Absent) /\ (~Denied(request, why) => Excuses(fs))
      /\ (s # Absent => Leaves(fs)) /\ (Denies(failed[l]) => Denies(fs))
  BY PlusFacts DEF Denied
<1> HIDE DEF fs
<1>4. CASE Denied(request, why)
  <2>1. Goto(l, "create") /\ worker' = worker
    BY <1>4 DEF CreateFails
  <2>2. MovesTo(l, "create", s, loose[l], refused[l], fs, worker[l])
    BY <1>1, <1>2, <2>1, RestFacts, GotoFacts DEF MovesTo, Steps
  <2>3. LauncherOK("create", s, loose[l], refused[l], fs, worker[l])
    BY <1>1, <1>3, <1>4, AbsentAssumption DEF Sound, LauncherOK
  <2> QED
    BY <2>2, <2>3, <1>0, OneLauncherSteps
<1>5. CASE ~Denied(request, why)
  <2>1. Return(l, "error")
    BY <1>5 DEF CreateFails
  <2>2. MovesTo(l, "done", s, loose[l], refused[l], fs, "error")
    BY <1>1, <1>2, <2>1, RestFacts, ReturnFacts DEF MovesTo, Workers
  <2>3. LauncherOK("done", s, loose[l], refused[l], fs, "error")
    BY <1>1, <1>3, <1>5 DEF Sound, LauncherOK
  <2> QED
    BY <2>2, <2>3, <1>0, OneLauncherSteps
<1> QED
  BY <1>4, <1>5

LEMMA MkdirInv ==
  ASSUME FileInv, NEW l \in Launchers, Mkdir(l)
  PROVE  FileInv'
<1>1. at[l] = "mkdir" /\ UNCHANGED <<staged, loose, cacheVars, refused>> /\ FileTypes /\ Sound(l)
  BY DEF Mkdir, FileInv
<1>0. \A a, e, w : CacheMoves(l, a, e, w)
  BY <1>1, CacheRests
<1>2. staged[l] = Absent /\ Became(staged, staged', NodeOrNone, l, staged[l])
  BY <1>1, RestFacts DEF Sound, LauncherOK
<1>3. CASE Goto(l, "stage") /\ UNCHANGED <<failed, worker>>
  <2>1. MovesTo(l, "stage", staged[l], loose[l], refused[l], failed[l], worker[l])
    BY <1>1, <1>3, RestFacts, GotoFacts DEF MovesTo, Steps
  <2>2. LauncherOK("stage", staged[l], loose[l], refused[l], failed[l], worker[l])
    BY <1>1 DEF Sound, LauncherOK
  <2> QED
    BY <1>1, <2>1, <2>2, <1>0, OneLauncherSteps
<1>4. ASSUME NEW why \in Reasons, CreateFails(l, "mkdir", why) PROVE FileInv'
  BY <1>1, <1>2, <1>4, CreateFailsInv
<1> QED
  BY <1>3, <1>4 DEF Mkdir

LEMMA StageInv ==
  ASSUME FileInv, NEW l \in Launchers, Stage(l)
  PROVE  FileInv'
<1>1. at[l] = "stage" /\ UNCHANGED <<loose, cacheVars, refused>> /\ FileTypes /\ Sound(l)
  BY DEF Stage, FileInv
<1>0. \A a, e, w : CacheMoves(l, a, e, w)
  BY <1>1, CacheRests
<1>2. staged[l] = Absent
  BY <1>1 DEF Sound, LauncherOK
<1> DEFINE s == Node(FALSE, FALSE)
<1>3. s \in NodeOrNone
  BY DEF Node, Nodes, NodeOrNone
<1>4. ASSUME NEW why \in Reasons, CreateFails(l, "stage", why), UNCHANGED staged
      PROVE  FileInv'
  <2>1. Became(staged, staged', NodeOrNone, l, staged[l])
    BY <1>1, <1>4, RestFacts
  <2> QED
    BY <1>1, <1>2, <1>4, <2>1, CreateFailsInv
<1>5. CASE staged' = [staged EXCEPT ![Staging(l)] = Made(@)]
  <2>1. staged' = [staged EXCEPT ![l] = s] /\ staged \in [Launchers -> NodeOrNone]
    BY <1>1, <1>2, <1>5 DEF Staging, Made, FileTypes
  <2> HIDE DEF s
  <2>2. Became(staged, staged', NodeOrNone, l, s)
    BY <1>3, <2>1, SetPlace
  <2>3. CASE Goto(l, "write") /\ UNCHANGED <<failed, worker>>
    <3>1. MovesTo(l, "write", s, loose[l], refused[l], failed[l], worker[l])
      BY <1>1, <2>2, <2>3, RestFacts, GotoFacts DEF MovesTo, Steps
    <3>2. LauncherOK("write", s, loose[l], refused[l], failed[l], worker[l])
      BY <1>1 DEF Sound, LauncherOK
    <3> QED
      BY <1>1, <3>1, <3>2, <1>0, OneLauncherSteps
  <2>4. CASE CreateFails(l, "stage", "unanswered")
    BY <1>1, <2>2, <2>4, CreateFailsInv DEF Reasons
  <2> QED
    BY <1>5, <2>3, <2>4, <1>4 DEF Stage
<1> QED
  BY <1>4, <1>5 DEF Stage

\* A request on the staging node: it is done, or the node is to be removed and
\* the failure, which is no denial of the cache, is kept.
LEMMA OnStagedInv ==
  ASSUME FileInv, NEW l \in Launchers, NEW request \in {"write", "mark"}, at[l] = request,
         NEW change, staged[l] # Absent => change \in Nodes, NEW next \in {"mark", "put"},
         next = "put" => change.executable = TRUE, OnStaged(l, request, change, next)
  PROVE  FileInv'
<1>1. FileTypes /\ Sound(l) /\ request \in Steps /\ UNCHANGED <<loose, cacheVars, worker>>
      /\ staged \in [Launchers -> NodeOrNone]
  BY DEF FileInv, FileTypes, Steps, OnStaged
<1>0. \A a, e, w : CacheMoves(l, a, e, w)
  BY <1>1, CacheRests
<1>2. ASSUME NEW s, Became(staged, staged', NodeOrNone, l, s), NEW why \in Reasons,
             NEW e \in {"reported", "unanswered"}, Goto(l, "remove"), Blame(l, request, why),
             Keep(l, e)
      PROVE  FileInv'
  <2> DEFINE fs == Plus(failed[l], request, why)
  <2>1. Became(failed, failed', SUBSET Failures, l, fs) /\ Excuses(fs)
        /\ (Denies(failed[l]) => Denies(fs))
    BY <1>1, <1>2, BlameFacts, PlusFacts DEF Denied
  <2> HIDE DEF fs
  <2>2. Became(refused, refused', Errors, l, e)
    BY <1>1, <1>2, KeepFacts DEF Errors
  <2>3. MovesTo(l, "remove", s, loose[l], e, fs, worker[l])
    BY <1>1, <1>2, <2>1, <2>2, RestFacts, GotoFacts DEF MovesTo, Steps
  <2>4. LauncherOK("remove", s, loose[l], e, fs, worker[l])
    BY <1>1, <2>1, AbsentAssumption DEF Sound, LauncherOK
  <2> QED
    BY <1>1, <2>3, <2>4, <1>0, OneLauncherSteps
<1>3. ASSUME NEW why \in Reasons, Goto(l, "remove"), Blame(l, request, why),
             Keep(l, "reported"), UNCHANGED staged
      PROVE  FileInv'
  <2>1. Became(staged, staged', NodeOrNone, l, staged[l])
    BY <1>1, <1>3, RestFacts
  <2> QED
    BY <1>2, <1>3, <2>1
<1>4. CASE staged[Staging(l)] # Absent /\ staged' = [staged EXCEPT ![Staging(l)] = change]
  <2>1. change \in NodeOrNone /\ staged' = [staged EXCEPT ![l] = change]
    BY <1>4 DEF Staging, NodeOrNone
  <2>2. Became(staged, staged', NodeOrNone, l, change)
    BY <1>1, <2>1, SetPlace
  <2>3. CASE Goto(l, next) /\ UNCHANGED <<failed, refused>>
    <3>1. MovesTo(l, next, change, loose[l], refused[l], failed[l], worker[l])
      BY <1>1, <2>2, <2>3, RestFacts, GotoFacts DEF MovesTo, Steps
    <3>2. LauncherOK(next, change, loose[l], refused[l], failed[l], worker[l])
      BY <1>1, AbsentAssumption DEF Sound, LauncherOK
    <3> QED
      BY <1>1, <3>1, <3>2, <1>0, OneLauncherSteps
  <2>4. CASE Goto(l, "remove") /\ Blame(l, request, "unanswered") /\ Keep(l, "unanswered")
    BY <1>2, <2>2, <2>4 DEF Reasons
  <2> QED
    BY <1>3, <2>3, <2>4 DEF OnStaged
<1> QED
  BY <1>3, <1>4 DEF OnStaged

LEMMA WriteInv ==
  ASSUME FileInv, NEW l \in Launchers, Write(l)
  PROVE  FileInv'
<1> DEFINE change == [staged[l] EXCEPT !.whole = TRUE]
<1>1. at[l] = "write" /\ OnStaged(l, "write", change, "mark")
  BY DEF Write, Staging
<1>2. ASSUME staged[l] # Absent PROVE change \in Nodes
  <2>1. staged[l] \in Nodes
    BY <1>2 DEF FileInv, FileTypes, NodeOrNone
  <2> QED
    BY <2>1 DEF Nodes
<1> HIDE DEF change
<1> QED
  BY <1>1, <1>2, OnStagedInv

LEMMA MarkInv ==
  ASSUME FileInv, NEW l \in Launchers, Mark(l)
  PROVE  FileInv'
<1> DEFINE change == [staged[l] EXCEPT !.executable = TRUE]
<1>1. at[l] = "mark" /\ OnStaged(l, "mark", change, "put")
  BY DEF Mark, Staging
<1>2. ASSUME staged[l] # Absent PROVE change \in Nodes /\ change.executable = TRUE
  <2>1. staged[l] \in Nodes
    BY <1>2 DEF FileInv, FileTypes, NodeOrNone
  <2> QED
    BY <2>1 DEF Nodes
<1> HIDE DEF change
<1>3. CASE staged[l] # Absent
  BY <1>1, <1>2, <1>3, OnStagedInv
<1>4. CASE staged[l] = Absent
  <2>1. OnStaged(l, "mark", Node(TRUE, TRUE), "put")
    BY <1>1, <1>4 DEF OnStaged, Staging
  <2>2. Node(TRUE, TRUE).executable = TRUE
    BY DEF Node
  <2> QED
    BY <1>1, <1>4, <2>1, <2>2, OnStagedInv
<1> QED
  BY <1>3, <1>4

\* The cache is handed a node that is whole and marked, and may lose the mark.
LEMMA PutInv ==
  ASSUME FileInv, NEW l \in Launchers, Put(l)
  PROVE  FileInv'
<1>1. FileTypes /\ Sound(l) /\ UNCHANGED <<loose, worker>> /\ Goto(l, "remove")
      /\ at[l] = "put" /\ staged \in [Launchers -> NodeOrNone]
  BY DEF FileInv, FileTypes, Put
<1>2. /\ \E s : Became(staged, staged', NodeOrNone, l, s)
      /\ \/ UNCHANGED cacheVars
         \/ /\ cache' \in Nodes /\ cache'.whole = TRUE
            /\ cache'.executable = TRUE \/ (handed'.kept = FALSE /\ handed'.by = l)
  <2>1. CASE /\ staged[Staging(l)] # Absent /\ staged[Staging(l)].whole
             /\ Handover(l, staged[Staging(l)]) \/ UNCHANGED cacheVars
             /\ staged' \in {staged, [staged EXCEPT ![Staging(l)] = Absent]}
    <3>1. staged[l] \in Nodes /\ staged[l].whole = TRUE /\ staged[l].executable = TRUE
      BY <1>1, <2>1 DEF Staging, NodeOrNone, Nodes, Sound, LauncherOK
    <3>2. Absent \in NodeOrNone
      BY DEF NodeOrNone
    <3>3. \E s : Became(staged, staged', NodeOrNone, l, s)
      <4>1. CASE staged' = staged
        BY <1>1, <4>1, RestFacts
      <4>2. CASE staged' = [staged EXCEPT ![l] = Absent]
        BY <1>1, <3>2, <4>2, SetPlace
      <4> QED
        BY <2>1, <4>1, <4>2 DEF Staging
    <3>4. ASSUME Handover(l, staged[l])
          PROVE  /\ cache' \in Nodes /\ cache'.whole = TRUE
                 /\ cache'.executable = TRUE \/ (handed'.kept = FALSE /\ handed'.by = l)
      <4>1. PICK kept \in BOOLEAN :
              /\ cache' = [staged[l] EXCEPT !.executable = @ /\ kept]
              /\ handed' = [by |-> l, kept |-> kept]
        BY <3>4 DEF Handover
      <4>2. cache' \in Nodes /\ cache'.whole = TRUE /\ cache'.executable = kept
        BY <3>1, <4>1 DEF Nodes
      <4> QED
        BY <4>1, <4>2
    <3> QED
      BY <2>1, <3>3, <3>4 DEF Staging
  <2>2. CASE UNCHANGED <<cacheVars, staged>>
    BY <1>1, <2>2, RestFacts
  <2> QED
    BY <2>1, <2>2 DEF Put
<1>3. PICK s : Became(staged, staged', NodeOrNone, l, s)
  BY <1>2
<1>4. CASE Keep(l, Absent) /\ UNCHANGED failed
  <2>1. Became(refused, refused', Errors, l, Absent)
    BY <1>1, <1>4, KeepFacts DEF Errors
  <2>2. MovesTo(l, "remove", s, loose[l], Absent, failed[l], worker[l])
    BY <1>1, <1>3, <1>4, <2>1, RestFacts, GotoFacts DEF MovesTo, Steps
  <2>3. LauncherOK("remove", s, loose[l], Absent, failed[l], worker[l])
    BY <1>1, AbsentAssumption DEF Sound, LauncherOK
  <2>4. CacheMoves(l, "remove", Absent, worker[l])
    BY <1>1, <1>2 DEF CacheMoves, Unmarked
  <2> QED
    BY <2>2, <2>3, <2>4, OneLauncherSteps
<1>5. ASSUME NEW why \in Reasons, Blame(l, "put", why), NEW e \in {"denied", "reported", "unanswered"},
             Keep(l, e), e = "denied" <=> Denied("put", why),
             UNCHANGED cacheVars \/ e = "unanswered"
      PROVE  FileInv'
  <2> DEFINE fs == Plus(failed[l], "put", why)
  <2>1. Became(failed, failed', SUBSET Failures, l, fs)
    BY <1>1, <1>5, BlameFacts DEF Steps
  <2>2. (e = "denied" => Denies(fs)) /\ (e # "denied" => Excuses(fs))
        /\ (Denies(failed[l]) => Denies(fs))
    BY <1>5, PlusFacts
  <2> HIDE DEF fs
  <2>3. Became(refused, refused', Errors, l, e)
    BY <1>1, <1>5, KeepFacts DEF Errors
  <2>4. MovesTo(l, "remove", s, loose[l], e, fs, worker[l])
    BY <1>1, <1>3, <1>5, <2>1, <2>3, RestFacts, GotoFacts DEF MovesTo, Steps
  <2>5. LauncherOK("remove", s, loose[l], e, fs, worker[l])
    BY <1>1, <2>2, AbsentAssumption DEF Sound, LauncherOK
  <2>6. CacheMoves(l, "remove", e, worker[l])
    BY <1>1, <1>2, <1>5 DEF CacheMoves, Unmarked
  <2> QED
    BY <2>4, <2>5, <2>6, OneLauncherSteps
<1>6. CASE Keep(l, "unanswered") /\ Blame(l, "put", "unanswered")
  BY <1>5, <1>6 DEF Reasons, Denied
<1>7. ASSUME NEW why \in Reasons, Blame(l, "put", why), UNCHANGED cacheVars,
             Keep(l, IF Denied("put", why) THEN "denied" ELSE "reported")
      PROVE  FileInv'
  BY <1>5, <1>7
<1> QED
  BY <1>4, <1>6, <1>7 DEF Put

\* The staging node goes either way; why the launcher then leaves the cache, or
\* fails, is known.
LEMMA RemoveInv ==
  ASSUME FileInv, NEW l \in Launchers, RemoveStaged(l)
  PROVE  FileInv'
<1>1. FileTypes /\ Sound(l) /\ UNCHANGED <<loose, cacheVars, refused>> /\ at[l] = "remove"
      /\ staged \in [Launchers -> NodeOrNone]
  BY DEF FileInv, FileTypes, RemoveStaged
<1>2. PICK why \in Reasons \cup {Absent} :
        /\ staged' = IF why \in {Absent, "unanswered"}
                     THEN [staged EXCEPT ![l] = Absent] ELSE staged
        /\ IF why = Absent THEN UNCHANGED failed ELSE Blame(l, "remove", why)
        /\ CASE refused[l] = "denied" -> Goto(l, "create") /\ UNCHANGED worker
             [] refused[l] = Absent /\ why = Absent -> Goto(l, "markCached") /\ UNCHANGED worker
             [] OTHER -> Return(l, "error")
  BY DEF RemoveStaged, Staging
<1> DEFINE s == IF why \in {Absent, "unanswered"} THEN Absent ELSE staged[l]
<1> DEFINE fs == IF why = Absent THEN failed[l] ELSE Plus(failed[l], "remove", why)
<1>3. Became(staged, staged', NodeOrNone, l, s)
  <2>1. Absent \in NodeOrNone
    BY DEF NodeOrNone
  <2> QED
    BY <1>1, <1>2, <2>1, RestFacts, SetPlace
<1>4. Became(failed, failed', SUBSET Failures, l, fs)
  <2>1. CASE why = Absent
    BY <1>1, <1>2, <2>1, RestFacts
  <2>2. CASE why # Absent
    BY <1>1, <1>2, <2>2, BlameFacts DEF Steps
  <2> QED
    BY <2>1, <2>2
<1>5. /\ why # Absent => Leaves(fs) /\ Excuses(fs)
      /\ Denies(failed[l]) => Denies(fs)
      /\ Excuses(failed[l]) => Excuses(fs)
      /\ why = Absent => s = Absent
  BY PlusFacts DEF Denied
<1> HIDE DEF s, fs
<1>9. ASSUME NEW a, NEW w, a = "markCached" \/ refused[l] = "denied" \/ (a = "done" /\ w = "error")
      PROVE  CacheMoves(l, a, refused[l], w)
  BY <1>1, <1>9, AbsentAssumption DEF CacheMoves, Unmarked
<1>6. CASE refused[l] = "denied" /\ Goto(l, "create") /\ UNCHANGED worker
  <2>1. MovesTo(l, "create", s, loose[l], refused[l], fs, worker[l])
    BY <1>1, <1>3, <1>4, <1>6, RestFacts, GotoFacts DEF MovesTo, Steps
  <2>2. LauncherOK("create", s, loose[l], refused[l], fs, worker[l])
    BY <1>1, <1>5, <1>6, AbsentAssumption DEF Sound, LauncherOK
  <2> QED
    BY <1>6, <1>9, <2>1, <2>2, OneLauncherSteps
<1>7. CASE refused[l] = Absent /\ why = Absent /\ Goto(l, "markCached") /\ UNCHANGED worker
  <2>1. MovesTo(l, "markCached", s, loose[l], refused[l], fs, worker[l])
    BY <1>1, <1>3, <1>4, <1>7, RestFacts, GotoFacts DEF MovesTo, Steps
  <2>2. LauncherOK("markCached", s, loose[l], refused[l], fs, worker[l])
    BY <1>1, <1>5, <1>7, AbsentAssumption DEF Sound, LauncherOK
  <2> QED
    BY <1>9, <2>1, <2>2, OneLauncherSteps
<1>8. CASE refused[l] # "denied" /\ ~(refused[l] = Absent /\ why = Absent) /\ Return(l, "error")
  <2>1. refused[l] \in Errors
    BY <1>1 DEF FileTypes
  <2>2. MovesTo(l, "done", s, loose[l], refused[l], fs, "error")
    BY <1>1, <1>3, <1>4, <1>8, RestFacts, ReturnFacts DEF MovesTo, Workers
  <2>3. Excuses(fs)
    BY <1>1, <1>5, <1>8, <2>1 DEF Sound, LauncherOK, Errors
  <2>4. LauncherOK("done", s, loose[l], refused[l], fs, "error")
    BY <1>1, <1>5, <2>3, AbsentAssumption DEF Sound, LauncherOK
  <2> QED
    BY <1>9, <2>2, <2>4, OneLauncherSteps
<1> QED
  BY <1>2, <1>6, <1>7, <1>8

LEMMA MarkCachedInv ==
  ASSUME FileInv, NEW l \in Launchers, MarkCached(l)
  PROVE  FileInv'
<1>1. FileTypes /\ Sound(l) /\ UNCHANGED <<staged, loose, handed, refused>> /\ at[l] = "markCached"
  BY DEF FileInv, MarkCached
<1>2. ASSUME NEW why \in Reasons, Return(l, "error"), Blame(l, "markCached", why),
             CacheMoves(l, "done", refused[l], "error")
      PROVE  FileInv'
  <2> DEFINE fs == Plus(failed[l], "markCached", why)
  <2>1. Became(failed, failed', SUBSET Failures, l, fs)
    BY <1>1, <1>2, BlameFacts DEF Steps
  <2>2. Excuses(fs) /\ (Leaves(failed[l]) => Leaves(fs)) /\ (Denies(failed[l]) => Denies(fs))
    BY PlusFacts DEF Denied
  <2> HIDE DEF fs
  <2>3. MovesTo(l, "done", staged[l], loose[l], refused[l], fs, "error")
    BY <1>1, <1>2, <2>1, RestFacts, ReturnFacts DEF MovesTo, Workers
  <2>4. LauncherOK("done", staged[l], loose[l], refused[l], fs, "error")
    BY <1>1, <2>2 DEF Sound, LauncherOK
  <2> QED
    BY <1>2, <2>3, <2>4, OneLauncherSteps
<1>3. CASE /\ cache # Absent /\ cache' = [cache EXCEPT !.executable = TRUE]
           /\ \/ Return(l, "cached") /\ UNCHANGED failed
              \/ Return(l, "error") /\ Blame(l, "markCached", "unanswered")
  <2>1. cache \in Nodes /\ cache.whole = TRUE
    BY <1>3 DEF FileInv, FileTypes, NodeOrNone, HandoverOK
  <2>2. cache' \in Nodes /\ cache'.whole = TRUE /\ cache'.executable = TRUE
    BY <1>3, <2>1 DEF Nodes
  <2>3. \A a, e, w : CacheMoves(l, a, e, w)
    BY <2>2 DEF CacheMoves
  <2>4. CASE Return(l, "cached") /\ UNCHANGED failed
    <3>1. MovesTo(l, "done", staged[l], loose[l], refused[l], failed[l], "cached")
      BY <1>1, <2>4, RestFacts, ReturnFacts DEF MovesTo, Workers
    <3>2. LauncherOK("done", staged[l], loose[l], refused[l], failed[l], "cached")
      BY <1>1 DEF Sound, LauncherOK
    <3> QED
      BY <2>3, <3>1, <3>2, OneLauncherSteps
  <2>5. CASE Return(l, "error") /\ Blame(l, "markCached", "unanswered")
    BY <1>2, <2>3, <2>5 DEF Reasons
  <2> QED
    BY <1>3, <2>4, <2>5
<1>4. CASE \E why \in Reasons : Return(l, "error") /\ Blame(l, "markCached", why) /\ UNCHANGED cache
  <2>1. CacheMoves(l, "done", refused[l], "error")
    BY <1>1, <1>4 DEF CacheMoves, Unmarked, cacheVars
  <2> QED
    BY <1>2, <1>4, <2>1
<1> QED
  BY <1>3, <1>4 DEF MarkCached

\* One request of an upload outside the cache, which only a denied launcher makes.
LEMMA ElsewhereInv ==
  ASSUME FileInv, NEW l \in Launchers, NEW step \in {"create", "fill", "allow"}, NEW change \in Nodes,
         NEW next \in {"fill", "allow", "done"}, Elsewhere(l, step, change, next),
         next = "allow" => change.whole = TRUE, next = "done" => change = Node(TRUE, TRUE)
  PROVE  FileInv'
<1>1. FileTypes /\ Sound(l) /\ UNCHANGED <<staged, cacheVars, refused>> /\ at[l] = step
      /\ loose \in [Launchers -> NodeOrNone] /\ step \in Steps
  BY DEF FileInv, FileTypes, Elsewhere, Steps
<1>0. \A a, e, w : CacheMoves(l, a, e, w)
  BY <1>1, CacheRests
<1>2. change \in NodeOrNone /\ change # Absent
  BY AbsentAssumption DEF NodeOrNone, Nodes
<1>3. ASSUME NEW o, Became(loose, loose', NodeOrNone, l, o), NEW why \in Reasons,
             Return(l, "error"), Blame(l, step, why)
      PROVE  FileInv'
  <2> DEFINE fs == Plus(failed[l], step, why)
  <2>1. Became(failed, failed', SUBSET Failures, l, fs)
    BY <1>1, <1>3, BlameFacts
  <2>2. Excuses(fs) /\ (Leaves(failed[l]) => Leaves(fs)) /\ (Denies(failed[l]) => Denies(fs))
    BY PlusFacts DEF Denied
  <2> HIDE DEF fs
  <2>3. MovesTo(l, "done", staged[l], o, refused[l], fs, "error")
    BY <1>1, <1>3, <2>1, RestFacts, ReturnFacts DEF MovesTo, Workers
  <2>4. LauncherOK("done", staged[l], o, refused[l], fs, "error")
    BY <1>1, <2>2 DEF Sound, LauncherOK
  <2> QED
    BY <1>1, <2>3, <2>4, <1>0, OneLauncherSteps
<1>4. CASE loose' = [loose EXCEPT ![Loose(l)] = change]
  <2>1. Became(loose, loose', NodeOrNone, l, change)
    BY <1>1, <1>2, <1>4, SetPlace DEF Loose
  <2>2. CASE next = "done" /\ Return(l, "uncached") /\ UNCHANGED failed
    <3>1. MovesTo(l, "done", staged[l], change, refused[l], failed[l], "uncached")
      BY <1>1, <2>1, <2>2, RestFacts, ReturnFacts DEF MovesTo, Workers
    <3>2. LauncherOK("done", staged[l], change, refused[l], failed[l], "uncached")
      BY <1>1, <2>2 DEF Sound, LauncherOK
    <3> QED
      BY <1>1, <3>1, <3>2, <1>0, OneLauncherSteps
  <2>3. CASE next # "done" /\ Goto(l, next) /\ UNCHANGED <<worker, failed>>
    <3>1. MovesTo(l, next, staged[l], change, refused[l], failed[l], worker[l])
      BY <1>1, <2>1, <2>3, RestFacts, GotoFacts DEF MovesTo, Steps
    <3>2. LauncherOK(next, staged[l], change, refused[l], failed[l], worker[l])
      BY <1>1, <1>2, <2>3, AbsentAssumption DEF Sound, LauncherOK
    <3> QED
      BY <1>1, <3>1, <3>2, <1>0, OneLauncherSteps
  <2>4. ASSUME NEW why \in Reasons, Return(l, "error"), Blame(l, step, why) PROVE FileInv'
    BY <1>3, <2>1, <2>4
  <2> QED
    BY <2>2, <2>3, <2>4 DEF Elsewhere, Reasons
<1>5. ASSUME NEW why \in Reasons, Return(l, "error"), Blame(l, step, why), UNCHANGED loose
      PROVE  FileInv'
  BY <1>1, <1>3, <1>5, RestFacts
<1> QED
  BY <1>4, <1>5 DEF Elsewhere

LEMMA UploadUncachedInv ==
  ASSUME FileInv, NEW l \in Launchers, UploadUncached(l)
  PROVE  FileInv'
<1>1. FileTypes /\ Sound(l) /\ loose[l] \in NodeOrNone
  BY DEF FileInv, FileTypes
<1>2. CASE Elsewhere(l, "create", Made(loose[Loose(l)]), "fill")
  <2>1. Made(loose[l]) \in Nodes
    BY <1>1 DEF Made, Node, Nodes, NodeOrNone
  <2> QED
    BY <1>2, <2>1, ElsewhereInv DEF Loose
<1>3. CASE /\ loose[l] # Absent
           /\ Elsewhere(l, "fill", [loose[l] EXCEPT !.whole = TRUE], "allow")
  <2> DEFINE change == [loose[l] EXCEPT !.whole = TRUE]
  <2>1. change \in Nodes /\ change.whole = TRUE
    BY <1>1, <1>3 DEF NodeOrNone, Nodes
  <2>2. Elsewhere(l, "fill", change, "allow")
    BY <1>3
  <2> HIDE DEF change
  <2> QED
    BY <2>1, <2>2, ElsewhereInv
<1>4. CASE /\ loose[l] # Absent
           /\ Elsewhere(l, "allow", [loose[l] EXCEPT !.executable = TRUE], "done")
  <2> DEFINE change == [loose[l] EXCEPT !.executable = TRUE]
  <2>1. loose[l] \in Nodes /\ loose[l].whole = TRUE
    BY <1>1, <1>4 DEF NodeOrNone, Sound, LauncherOK, Elsewhere
  <2>2. change \in Nodes /\ change.whole = TRUE /\ change.executable = TRUE
    BY <2>1 DEF Nodes
  <2>3. Elsewhere(l, "allow", change, "done")
    BY <1>4
  <2> HIDE DEF change
  <2> QED
    BY <2>2, <2>3, NodeIs, ElsewhereInv
<1> QED
  BY <1>2, <1>3, <1>4 DEF UploadUncached, Loose

LEMMA DieInv ==
  ASSUME FileInv, NEW l \in Launchers, Die(l)
  PROVE  FileInv'
<1>1. FileTypes /\ Sound(l) /\ Goto(l, "dead") /\ at[l] # "done"
      /\ UNCHANGED <<staged, loose, cacheVars, refused, failed, worker>>
  BY DEF FileInv, Die
<1>2. MovesTo(l, "dead", staged[l], loose[l], refused[l], failed[l], worker[l])
  BY <1>1, RestFacts, GotoFacts DEF MovesTo, Steps
<1>3. LauncherOK("dead", staged[l], loose[l], refused[l], failed[l], worker[l])
  BY <1>1, AbsentAssumption DEF Sound, LauncherOK
<1>4. CacheMoves(l, "dead", refused[l], worker[l])
  BY <1>1 DEF CacheMoves, Unmarked
<1> QED
  BY <1>1, <1>2, <1>3, <1>4, OneLauncherSteps

LEMMA FilesInductive == FileInv /\ [FilesNext]_fileVars => FileInv'
<1> SUFFICES ASSUME FileInv, [FilesNext]_fileVars PROVE FileInv'
  OBVIOUS
<1>1. ASSUME NEW l \in Launchers,
             \/ Lookup(l) \/ Mkdir(l) \/ Stage(l) \/ Write(l) \/ Mark(l) \/ Put(l)
             \/ RemoveStaged(l) \/ MarkCached(l) \/ UploadUncached(l) \/ Die(l)
      PROVE  FileInv'
  BY <1>1, LookupInv, MkdirInv, StageInv, WriteInv, MarkInv, PutInv, RemoveInv, MarkCachedInv,
     UploadUncachedInv, DieInv
<1>2. CASE UNCHANGED <<at, staged, loose, refused, failed, worker>>
           /\ (UNCHANGED cacheVars \/ cache' = Absent)
  <2>1. \A l \in Launchers : Sound(l)'
    BY <1>2 DEF FileInv, Sound
  <2>2. FileTypes'
    BY <1>2 DEF FileInv, FileTypes, NodeOrNone, Nodes, Steps, Errors, Failures, Reasons, Workers, cacheVars
  <2>3. HandoverOK'
    BY <1>2 DEF FileInv, HandoverOK, cacheVars
  <2> QED
    BY <2>1, <2>2, <2>3 DEF FileInv
<1> QED
  BY <1>1, <1>2 DEF FilesNext, Expire, fileVars

\* However many launchers send the same worker at the same time, and whichever
\* requests fail or launchers die: what is in the cache is whole, and can be
\* executed unless it lost its mark on the way there and the launcher that handed it
\* over has not got as far as to set it again, died first or was told of an error;
\* what is outside runs; a staging node stays behind only where the cluster did not
\* answer for it; and only a denied cache makes a launcher leave it.
THEOREM UploadsHold == FilesSpec => []UploadsAreSound
<1>1. FilesInit => FileInv
  <2> SUFFICES ASSUME FilesInit PROVE FileInv
    OBVIOUS
  <2>1. FileTypes
    BY DEF FilesInit, FileTypes, NodeOrNone, Steps, Errors, Workers
  <2>2. ASSUME NEW l \in Launchers PROVE Sound(l)
    BY AbsentAssumption DEF FilesInit, Sound, LauncherOK
  <2> QED
    BY <2>1, <2>2 DEF FilesInit, FileInv, HandoverOK
<1> QED
  BY <1>1, FilesInductive, FileInvSuffices, PTL DEF FilesSpec

-----------------------------------------------------------------------------
(***************************************************************************)
(* CypressLocks.                                                           *)
(***************************************************************************)
Locks == [of : Lockers, mode : Modes, state : {"pending", "acquired"}]

LockTypes ==
  /\ tx \in [Lockers -> {"none", "open", "ended"}]
  /\ locksMade \in Nat
  /\ queue \in [DOMAIN queue -> Locks]
  /\ \A i \in DOMAIN queue : i \in Nat /\ i <= locksMade
  /\ lockPhase \in [Lockers -> {"idle", "poll", "judge", "sleep", "done"}]
  /\ lockId \in [Lockers -> Nat]
  /\ lockState \in [Lockers -> {"none", "pending", "acquired"}]
  /\ lockResult \in [Lockers -> {"none", "Ok", "Config", "error"}]

\* The queue is served in order: a lock that is held was free of everything
\* before it when it was granted, and nothing joins the queue but at its end.
InOrder ==
  \A i, k \in DOMAIN queue :
    k < i /\ queue[i].state = "acquired" => ~Conflict(queue[k], queue[i])

\* What a client whose transaction lives has of the lock with id i, at the phase p,
\* having read the state s and returned r.
ClientOK(c, p, i, s, r) ==
  /\ p \in {"poll", "judge", "sleep"} \/ r = "Ok" =>
       i \in DOMAIN queue /\ queue[i].of = c
  /\ (p = "judge" /\ s = "acquired") \/ r = "Ok" => queue[i].state = "acquired"

LockSound(c) ==
  /\ lockPhase[c] # "done" => lockResult[c] = "none"
  /\ tx[c] = "open" => ClientOK(c, lockPhase[c], lockId[c], lockState[c], lockResult[c])

LocksInv == LockTypes /\ InOrder /\ \A c \in Lockers : LockSound(c)

LEMMA ConflictIsMutual ==
  ASSUME NEW l \in Locks, NEW m \in Locks
  PROVE  /\ Conflict(l, m) <=> Conflict(m, l)
         /\ ~Conflict(l, l)
<1>1. {l.mode, m.mode} = {m.mode, l.mode}
  OBVIOUS
<1>2. {l.mode, l.mode} # {"snapshot", "exclusive"}
  OBVIOUS
<1> QED
  BY <1>1, <1>2 DEF Conflict

LEMMA LocksInvSuffices == LocksInv => ToldIsHeld
<1> SUFFICES ASSUME LocksInv, NEW c \in Lockers, lockResult[c] = "Ok", tx[c] = "open"
             PROVE  /\ queue[lockId[c]].state = "acquired"
                    /\ \A i \in DOMAIN queue :
                         queue[i].state = "acquired" => ~Conflict(queue[i], queue[lockId[c]])
  BY DEF ToldIsHeld
<1> DEFINE mine == lockId[c]
<1>1. mine \in DOMAIN queue /\ queue[mine].state = "acquired"
  BY DEF LocksInv, LockSound, ClientOK
<1> HIDE DEF mine
<1>2. ASSUME NEW i \in DOMAIN queue, queue[i].state = "acquired"
      PROVE  ~Conflict(queue[i], queue[mine])
  <2>1. queue[i] \in Locks /\ queue[mine] \in Locks /\ i \in Nat /\ mine \in Nat
    BY <1>1 DEF LocksInv, LockTypes
  <2>2. CASE i = mine
    BY <2>1, <2>2, ConflictIsMutual
  <2>3. CASE i < mine
    BY <1>1, <2>3 DEF LocksInv, InOrder
  <2>4. CASE mine < i
    <3>1. ~Conflict(queue[mine], queue[i])
      BY <1>1, <1>2, <2>4 DEF LocksInv, InOrder
    <3> QED
      BY <2>1, <3>1, ConflictIsMutual
  <2> QED
    BY <2>1, <2>2, <2>3, <2>4
<1> QED
  BY <1>1, <1>2 DEF mine

\* A client's own step that leaves the queue alone.
LEMMA ClientStepInv ==
  ASSUME LocksInv, NEW c \in Lockers, UNCHANGED <<tx, locksMade, queue>>, LockTypes',
         \A b \in Lockers : b # c =>
           /\ lockPhase'[b] = lockPhase[b] /\ lockId'[b] = lockId[b]
           /\ lockState'[b] = lockState[b] /\ lockResult'[b] = lockResult[b],
         LockSound(c)'
  PROVE  LocksInv'
<1>1. InOrder'
  BY DEF LocksInv, InOrder, Conflict
<1>2. ASSUME NEW b \in Lockers PROVE LockSound(b)'
  <2>1. CASE b # c
    BY <2>1 DEF LocksInv, LockSound, ClientOK
  <2> QED
    BY <2>1
<1> QED
  BY <1>1, <1>2 DEF LocksInv

\* One client's variables change, and nobody else's.
ClientBecomes(c, p, i, s, r) ==
  /\ lockPhase' = [lockPhase EXCEPT ![c] = p] /\ lockId' = [lockId EXCEPT ![c] = i]
  /\ lockState' = [lockState EXCEPT ![c] = s] /\ lockResult' = [lockResult EXCEPT ![c] = r]

\* The steps of lock and lock_waiting that queue nothing.
LEMMA QuietStepInv ==
  ASSUME LocksInv, NEW c \in Lockers, UNCHANGED <<tx, locksMade, queue>>,
         NEW p \in {"idle", "poll", "judge", "sleep", "done"}, NEW i \in Nat,
         NEW s \in {"none", "pending", "acquired"}, NEW r \in {"none", "Ok", "Config", "error"},
         ClientBecomes(c, p, i, s, r),
         p # "done" => r = "none", tx[c] = "open" => ClientOK(c, p, i, s, r)
  PROVE  LocksInv'
<1>1. LockTypes'
  <2>1. UNCHANGED <<tx, locksMade, queue>> /\ LockTypes
    BY DEF LocksInv
  <2>2. /\ lockPhase' \in [Lockers -> {"idle", "poll", "judge", "sleep", "done"}]
        /\ lockId' \in [Lockers -> Nat]
        /\ lockState' \in [Lockers -> {"none", "pending", "acquired"}]
        /\ lockResult' \in [Lockers -> {"none", "Ok", "Config", "error"}]
    BY <2>1 DEF LockTypes, ClientBecomes
  <2> QED
    BY <2>1, <2>2 DEF LockTypes, Locks, Modes
<1>2. lockPhase'[c] = p /\ lockId'[c] = i /\ lockState'[c] = s /\ lockResult'[c] = r
  BY DEF LocksInv, LockTypes, ClientBecomes
<1>3. LockSound(c)'
  BY <1>2 DEF LockSound, ClientOK
<1>4. \A b \in Lockers : b # c =>
        /\ lockPhase'[b] = lockPhase[b] /\ lockId'[b] = lockId[b]
        /\ lockState'[b] = lockState[b] /\ lockResult'[b] = lockResult[b]
  BY DEF LocksInv, LockTypes, ClientBecomes
<1> QED
  BY <1>1, <1>3, <1>4, ClientStepInv

\* What the steps of one client are made of.
LEMMA LockReturnsInv ==
  ASSUME LocksInv, NEW c \in Lockers, UNCHANGED <<tx, locksMade, queue, lockId>>,
         NEW verdict \in {"Config", "error"}, LockReturns(c, verdict)
  PROVE  LocksInv'
<1>1. lockId' = [lockId EXCEPT ![c] = lockId[c]] /\ lockId[c] \in Nat
  BY DEF LocksInv, LockTypes
<1>2. ClientOK(c, "done", lockId[c], "none", verdict)
  BY DEF ClientOK
<1>3. ClientBecomes(c, "done", lockId[c], "none", verdict)
  BY <1>1 DEF LockReturns, ClientBecomes
<1> QED
  BY <1>1, <1>2, <1>3, QuietStepInv

LEMMA LockPollsInv ==
  ASSUME LocksInv, NEW c \in Lockers, LockPolls(c)
  PROVE  LocksInv'
<1>1. CASE LockReturns(c, "error")
  BY <1>1, LockReturnsInv DEF LockPolls
<1>2. CASE /\ tx[c] = "open" /\ lockState' = [lockState EXCEPT ![c] = queue[lockId[c]].state]
           /\ lockPhase' = [lockPhase EXCEPT ![c] = "judge"] /\ lockResult' = lockResult
  <2>1. UNCHANGED <<tx, locksMade, queue, lockId>> /\ lockPhase[c] = "poll"
    BY <1>2 DEF LockPolls
  <2>2. lockId' = [lockId EXCEPT ![c] = lockId[c]] /\ lockId[c] \in Nat
        /\ lockResult' = [lockResult EXCEPT ![c] = lockResult[c]] /\ lockResult[c] = "none"
    BY <1>2, <2>1 DEF LocksInv, LockTypes, LockSound
  <2>3. ClientOK(c, "poll", lockId[c], lockState[c], lockResult[c])
    BY <1>2, <2>1 DEF LocksInv, LockSound
  <2>4. queue[lockId[c]] \in Locks
    BY <2>3 DEF ClientOK, LocksInv, LockTypes
  <2>5. queue[lockId[c]].state \in {"none", "pending", "acquired"}
    BY <2>4 DEF Locks
  <2>6. ClientOK(c, "judge", lockId[c], queue[lockId[c]].state, "none")
    BY <2>3 DEF ClientOK
  <2>7. /\ UNCHANGED <<tx, locksMade, queue>> /\ lockPhase' = [lockPhase EXCEPT ![c] = "judge"]
        /\ lockState' = [lockState EXCEPT ![c] = queue[lockId[c]].state]
    BY <1>2, <2>1 DEF LockPolls
  <2>8. "judge" \in {"idle", "poll", "judge", "sleep", "done"} /\ "none" \in {"none", "Ok", "Config", "error"}
    OBVIOUS
  <2>9. lockId[c] \in Nat /\ lockResult' = [lockResult EXCEPT ![c] = "none"]
    BY <2>2
  <2>10. ClientBecomes(c, "judge", lockId[c], queue[lockId[c]].state, "none")
    BY <2>2, <2>7, <2>9 DEF ClientBecomes
  <2> QED
    BY <2>5, <2>6, <2>7, <2>8, <2>9, <2>10, QuietStepInv
<1> QED
  BY <1>1, <1>2 DEF LockPolls

LEMMA LockJudgesInv ==
  ASSUME LocksInv, NEW c \in Lockers, LockJudges(c)
  PROVE  LocksInv'
<1>1. UNCHANGED <<tx, locksMade, queue, lockId>> /\ lockPhase[c] = "judge"
  BY DEF LockJudges
<1>2. /\ lockId' = [lockId EXCEPT ![c] = lockId[c]] /\ lockId[c] \in Nat
      /\ lockState[c] \in {"none", "pending", "acquired"} /\ lockResult[c] = "none"
      /\ tx[c] = "open" => ClientOK(c, "judge", lockId[c], lockState[c], "none")
  BY <1>1 DEF LocksInv, LockTypes, LockSound
<1>3. CASE lockState[c] = "acquired" /\ LockReturns(c, "Ok")
  <2>1. tx[c] = "open" => ClientOK(c, "done", lockId[c], "none", "Ok")
    BY <1>2, <1>3 DEF ClientOK
  <2>2. ClientBecomes(c, "done", lockId[c], "none", "Ok")
    BY <1>2, <1>3 DEF LockReturns, ClientBecomes
  <2> QED
    BY <1>1, <1>2, <2>1, <2>2, QuietStepInv
<1>4. CASE LockReturns(c, "Config")
  BY <1>1, <1>4, LockReturnsInv
<1>5. CASE LockSleeps(c)
  <2>1. /\ lockPhase' = [lockPhase EXCEPT ![c] = "sleep"]
        /\ lockState' = [lockState EXCEPT ![c] = lockState[c]]
        /\ lockResult' = [lockResult EXCEPT ![c] = "none"]
    BY <1>2, <1>5 DEF LockSleeps, LocksInv, LockTypes
  <2>2. tx[c] = "open" => ClientOK(c, "sleep", lockId[c], lockState[c], "none")
    BY <1>2 DEF ClientOK
  <2>3. ClientBecomes(c, "sleep", lockId[c], lockState[c], "none")
    BY <1>2, <2>1 DEF ClientBecomes
  <2> QED
    BY <1>1, <1>2, <2>2, <2>3, QuietStepInv
<1> QED
  BY <1>3, <1>4, <1>5 DEF LockJudges

LEMMA LockWakesInv ==
  ASSUME LocksInv, NEW c \in Lockers, LockWakes(c) \/ LockAgain(c)
  PROVE  LocksInv'
<1>1. UNCHANGED <<tx, locksMade, queue>> /\ lockState' = [lockState EXCEPT ![c] = lockState[c]]
      /\ lockState[c] \in {"none", "pending", "acquired"} /\ lockId[c] \in Nat
  BY DEF LockWakes, LockAgain, LocksInv, LockTypes
<1>2. CASE LockWakes(c)
  <2>1. /\ lockPhase' = [lockPhase EXCEPT ![c] = "poll"] /\ lockPhase[c] = "sleep"
        /\ UNCHANGED <<lockId, lockResult>> /\ lockResult[c] = "none"
    BY <1>2 DEF LockWakes, LocksInv, LockSound
  <2>2. /\ lockId' = [lockId EXCEPT ![c] = lockId[c]]
        /\ lockResult' = [lockResult EXCEPT ![c] = "none"]
    BY <2>1 DEF LocksInv, LockTypes
  <2>3. tx[c] = "open" => ClientOK(c, "poll", lockId[c], lockState[c], "none")
    BY <2>1 DEF LocksInv, LockSound, ClientOK
  <2>4. lockId[c] \in Nat /\ lockState[c] \in {"none", "pending", "acquired"} /\ "poll" # "done"
    BY <1>1
  <2>5. UNCHANGED <<tx, locksMade, queue>> /\ lockState' = [lockState EXCEPT ![c] = lockState[c]]
        /\ lockPhase' = [lockPhase EXCEPT ![c] = "poll"]
    BY <1>1, <2>1
  <2>6. "poll" \in {"idle", "poll", "judge", "sleep", "done"} /\ "none" \in {"none", "Ok", "Config", "error"}
    OBVIOUS
  <2>7. ClientBecomes(c, "poll", lockId[c], lockState[c], "none")
    BY <2>2, <2>5 DEF ClientBecomes
  <2> QED
    BY <2>3, <2>4, <2>5, <2>6, <2>7, QuietStepInv
<1>3. CASE LockAgain(c)
  <2>1. ClientOK(c, "idle", 0, lockState[c], "none")
    BY DEF ClientOK
  <2>2. ClientBecomes(c, "idle", 0, lockState[c], "none")
    BY <1>1, <1>3 DEF LockAgain, ClientBecomes
  <2> QED
    BY <1>1, <2>1, <2>2, QuietStepInv
<1> QED
  BY <1>2, <1>3

\* A lock joins the queue: at the end, and granted only when nothing is in its way.
LEMMA QueueFacts ==
  ASSUME LocksInv, NEW c \in Lockers, NEW mode \in Modes, NEW state \in {"pending", "acquired"},
         Queue(c, mode, state), state = "acquired" => Free(c, mode)
  PROVE  /\ locksMade' \in Nat /\ queue' \in [DOMAIN queue' -> Locks]
         /\ \A i \in DOMAIN queue' : i \in Nat /\ i <= locksMade'
         /\ InOrder'
         /\ \A i \in DOMAIN queue : i \in DOMAIN queue' /\ queue'[i] = queue[i]
         /\ locksMade + 1 \in DOMAIN queue' /\ locksMade + 1 \in Nat
         /\ queue'[locksMade + 1].of = c /\ queue'[locksMade + 1].state = state
<1> DEFINE n == locksMade + 1
<1> DEFINE new == [of |-> c, mode |-> mode, state |-> state]
<1>1. new \in Locks /\ new.of = c /\ new.mode = mode /\ new.state = state
  BY DEF Locks
<1>2. /\ locksMade \in Nat /\ n \in Nat /\ locksMade' = n
      /\ queue \in [DOMAIN queue -> Locks] /\ \A i \in DOMAIN queue : i \in Nat /\ i < n
  BY DEF LocksInv, LockTypes, Queue
<1>3. queue' = [i \in DOMAIN queue \cup {n} |-> IF i = n THEN new ELSE queue[i]]
  BY DEF Queue
<1>4. state = "acquired" => \A k \in DOMAIN queue : ~Conflict(queue[k], new)
  BY <1>1 DEF Free, Conflict
<1> HIDE DEF n, new
<1>5. /\ DOMAIN queue' = DOMAIN queue \cup {n} /\ queue'[n] = new
      /\ \A i \in DOMAIN queue : queue'[i] = queue[i]
  BY <1>2, <1>3
<1>6. queue' \in [DOMAIN queue' -> Locks]
  BY <1>1, <1>2, <1>3, <1>5
<1>7. InOrder'
  <2>1. ASSUME NEW i \in DOMAIN queue', NEW k \in DOMAIN queue', k < i,
               queue'[i].state = "acquired"
        PROVE  ~Conflict(queue'[k], queue'[i])
    <3>1. k \in DOMAIN queue
      BY <1>2, <1>5, <2>1
    <3>2. CASE i = n
      BY <1>1, <1>4, <1>5, <2>1, <3>1, <3>2
    <3>3. CASE i \in DOMAIN queue
      BY <1>5, <2>1, <3>1, <3>3 DEF LocksInv, InOrder
    <3> QED
      BY <1>5, <3>2, <3>3
  <2> QED
    BY <2>1 DEF InOrder, Conflict
<1> QED
  BY <1>1, <1>2, <1>5, <1>6, <1>7 DEF n

LEMMA QueueStepInv ==
  ASSUME LocksInv, NEW c \in Lockers, NEW mode \in Modes, NEW state \in {"pending", "acquired"},
         Queue(c, mode, state), state = "acquired" => Free(c, mode), tx' = tx,
         NEW p \in {"poll", "done"}, NEW i \in Nat, NEW s \in {"none", "pending", "acquired"},
         NEW r \in {"none", "Ok", "error"},
         lockPhase' = [lockPhase EXCEPT ![c] = p], lockId' = [lockId EXCEPT ![c] = i],
         lockState' = [lockState EXCEPT ![c] = s], lockResult' = [lockResult EXCEPT ![c] = r],
         p # "done" => r = "none",
         r # "error" => i = locksMade + 1, r = "Ok" => state = "acquired"
  PROVE  LocksInv'
<1>1. /\ locksMade' \in Nat /\ queue' \in [DOMAIN queue' -> Locks] /\ InOrder'
      /\ \A k \in DOMAIN queue' : k \in Nat /\ k <= locksMade'
      /\ \A k \in DOMAIN queue : k \in DOMAIN queue' /\ queue'[k] = queue[k]
      /\ locksMade + 1 \in DOMAIN queue' /\ locksMade + 1 \in Nat
      /\ queue'[locksMade + 1].of = c /\ queue'[locksMade + 1].state = state
  BY QueueFacts
<1>2. LockTypes'
  <2>1. LockTypes
    BY DEF LocksInv
  <2>2. /\ lockPhase' \in [Lockers -> {"idle", "poll", "judge", "sleep", "done"}]
        /\ lockId' \in [Lockers -> Nat]
        /\ lockState' \in [Lockers -> {"none", "pending", "acquired"}]
        /\ lockResult' \in [Lockers -> {"none", "Ok", "Config", "error"}]
    BY <2>1 DEF LockTypes
  <2> QED
    BY <1>1, <2>1, <2>2 DEF LockTypes, Locks, Modes
<1>3. ASSUME NEW b \in Lockers PROVE LockSound(b)'
  <2>1. CASE b = c
    <3>1. lockPhase'[c] = p /\ lockId'[c] = i /\ lockState'[c] = s /\ lockResult'[c] = r
      BY DEF LocksInv, LockTypes
    <3> QED
      BY <1>1, <2>1, <3>1 DEF LockSound, ClientOK
  <2>2. CASE b # c
    <3>1. /\ lockPhase'[b] = lockPhase[b] /\ lockId'[b] = lockId[b]
          /\ lockState'[b] = lockState[b] /\ lockResult'[b] = lockResult[b]
      BY <2>2 DEF LocksInv, LockTypes
    <3>2. LockSound(b)
      BY DEF LocksInv
    <3> QED
      BY <1>1, <3>1, <3>2 DEF LockSound, ClientOK
  <2> QED
    BY <2>1, <2>2
<1> QED
  BY <1>1, <1>2, <1>3 DEF LocksInv

LEMMA LockInv ==
  ASSUME LocksInv, NEW c \in Lockers, NEW mode \in Modes, Lock(c, mode) \/ LockWaiting(c, mode)
  PROVE  LocksInv'
<1>1. tx' = tx /\ lockPhase[c] = "idle" /\ lockId \in [Lockers -> Nat] /\ locksMade + 1 \in Nat
      /\ lockState[c] \in {"none", "pending", "acquired"}
  BY DEF Lock, LockWaiting, LocksInv, LockTypes
<1>2. lockResult[c] = "none"
  BY <1>1 DEF LocksInv, LockSound
<1>3. CASE NoLock(c)
  BY <1>1, <1>3, LockReturnsInv DEF NoLock
<1>4. CASE Queue(c, mode, "acquired") /\ Free(c, mode) /\ Told(c) /\ LockReturns(c, "Ok")
  BY <1>1, <1>4, QueueStepInv DEF Told, LockReturns
<1>5. ASSUME NEW state \in {"pending", "acquired"}, Queue(c, mode, state),
             state = "acquired" => Free(c, mode), Untold(c), LockReturns(c, "error")
      PROVE  LocksInv'
  <2>1. lockId' = [lockId EXCEPT ![c] = lockId[c]] /\ lockId[c] \in Nat
    BY <1>1, <1>5 DEF Untold
  <2> QED
    BY <1>1, <1>5, <2>1, QueueStepInv DEF LockReturns
<1>6. CASE /\ Queue(c, mode, "pending") /\ Told(c)
           /\ lockPhase' = [lockPhase EXCEPT ![c] = "poll"]
           /\ UNCHANGED <<lockState, lockAge, lockResult>>
  <2>1. /\ lockState' = [lockState EXCEPT ![c] = lockState[c]]
        /\ lockResult' = [lockResult EXCEPT ![c] = "none"]
    BY <1>2, <1>6 DEF LocksInv, LockTypes
  <2> QED
    BY <1>1, <1>6, <2>1, QueueStepInv DEF Told
<1> QED
  BY <1>3, <1>4, <1>5, <1>6 DEF Lock, LockWaiting

\* The cluster grants a lock: one that nothing before it conflicts with, so none
\* that is held.
LEMMA GrantInv ==
  ASSUME LocksInv, NEW i \in DOMAIN queue, Grant(i)
  PROVE  LocksInv'
<1>1. UNCHANGED <<tx, locksMade, lockPhase, lockId, lockState, lockResult>>
  BY DEF Grant
<1>2. /\ DOMAIN queue' = DOMAIN queue /\ queue' \in [DOMAIN queue' -> Locks]
      /\ \A k \in DOMAIN queue :
           /\ queue'[k].of = queue[k].of /\ queue'[k].mode = queue[k].mode
           /\ k # i => queue'[k].state = queue[k].state
      /\ queue'[i].state = "acquired"
  <2>1. queue \in [DOMAIN queue -> Locks] /\ queue[i] \in Locks
    BY DEF LocksInv, LockTypes
  <2> DEFINE new == [queue[i] EXCEPT !.state = "acquired"]
  <2>2. new \in Locks /\ new.of = queue[i].of /\ new.mode = queue[i].mode
        /\ new.state = "acquired"
    BY <2>1 DEF Locks
  <2>3. queue' = [queue EXCEPT ![i] = new]
    BY DEF Grant
  <2> HIDE DEF new
  <2> QED
    BY <2>1, <2>2, <2>3
<1>3. \A k, m \in DOMAIN queue : Conflict(queue'[k], queue'[m]) <=> Conflict(queue[k], queue[m])
  BY <1>2 DEF Conflict
<1>4. InOrder'
  <2>1. ASSUME NEW m \in DOMAIN queue, NEW k \in DOMAIN queue, k < m,
               queue'[m].state = "acquired"
        PROVE  ~Conflict(queue'[k], queue'[m])
    <3>1. CASE m = i
      BY <1>3, <2>1, <3>1 DEF Grant
    <3>2. CASE m # i
      BY <1>2, <1>3, <2>1, <3>2 DEF LocksInv, InOrder
    <3> QED
      BY <3>1, <3>2
  <2> QED
    BY <1>2, <2>1 DEF InOrder, Conflict
<1>5. LockTypes'
  BY <1>1, <1>2 DEF LocksInv, LockTypes, Locks, Modes
<1>6. ASSUME NEW c \in Lockers PROVE LockSound(c)'
  <2>1. LockSound(c)
    BY DEF LocksInv
  <2>2. \A k \in DOMAIN queue : queue[k].state = "acquired" => queue'[k].state = "acquired"
    BY <1>2
  <2> QED
    BY <1>1, <1>2, <2>1, <2>2 DEF LockSound, ClientOK
<1> QED
  BY <1>4, <1>5, <1>6 DEF LocksInv

\* A transaction ends: its own locks go, and nobody else's.
LEMMA TxEndsInv ==
  ASSUME LocksInv, NEW c \in Lockers, TxEnds(c)
  PROVE  LocksInv'
<1>1. UNCHANGED <<locksMade, lockPhase, lockId, lockState, lockResult>>
      /\ tx' = [tx EXCEPT ![c] = "ended"]
  BY DEF TxEnds
<1>2. /\ DOMAIN queue' = {k \in DOMAIN queue : queue[k].of # c}
      /\ \A k \in DOMAIN queue' : queue'[k] = queue[k]
      /\ queue' \in [DOMAIN queue' -> Locks]
  BY DEF TxEnds, LocksInv, LockTypes
<1>3. InOrder'
  <2>1. ASSUME NEW m \in DOMAIN queue', NEW k \in DOMAIN queue', k < m,
               queue'[m].state = "acquired"
        PROVE  ~Conflict(queue'[k], queue'[m])
    BY <1>2, <2>1 DEF LocksInv, InOrder
  <2> QED
    BY <2>1 DEF InOrder, Conflict
<1>4. LockTypes'
  <2>1. tx' \in [Lockers -> {"none", "open", "ended"}]
    BY <1>1 DEF LocksInv, LockTypes
  <2> QED
    BY <1>1, <1>2, <2>1 DEF LocksInv, LockTypes, Locks, Modes
<1>5. ASSUME NEW b \in Lockers PROVE LockSound(b)'
  <2>1. LockSound(b) /\ tx \in [Lockers -> {"none", "open", "ended"}]
    BY DEF LocksInv, LockTypes
  <2>2. tx'[b] = "open" => b # c /\ tx[b] = "open"
    BY <1>1, <2>1
  <2>3. ASSUME b # c, tx[b] = "open",
               ClientOK(b, lockPhase[b], lockId[b], lockState[b], lockResult[b])
        PROVE  ClientOK(b, lockPhase[b], lockId[b], lockState[b], lockResult[b])'
    BY <1>1, <1>2, <2>1, <2>3 DEF ClientOK, LockSound
  <2> QED
    BY <1>1, <2>1, <2>2, <2>3 DEF LockSound
<1> QED
  BY <1>3, <1>4, <1>5 DEF LocksInv

\* Nobody who was told that it has a lock has less than that while its
\* transaction lives, whatever the polls, waits, grants and ends of others.
THEOREM LocksHold == LocksSpec => []ToldIsHeld
<1>1. LocksInit => LocksInv
  <2> SUFFICES ASSUME LocksInit PROVE LocksInv
    OBVIOUS
  <2>1. DOMAIN queue = {}
    BY DEF LocksInit
  <2>2. LockTypes
    BY <2>1 DEF LocksInit, LockTypes
  <2>3. ASSUME NEW c \in Lockers PROVE LockSound(c)
    BY DEF LocksInit, LockSound, ClientOK
  <2> QED
    BY <2>1, <2>2, <2>3 DEF LocksInv, InOrder
<1>2. LocksInv /\ [LocksNext]_lockVars => LocksInv'
  <2> SUFFICES ASSUME LocksInv, [LocksNext]_lockVars PROVE LocksInv'
    OBVIOUS
  <2>1. ASSUME NEW c \in Lockers,
               \/ \E mode \in Modes : Lock(c, mode) \/ LockWaiting(c, mode)
               \/ LockSteps(c) \/ LockAgain(c) \/ TxEnds(c)
        PROVE  LocksInv'
    BY <2>1, LockInv, LockPollsInv, LockJudgesInv, LockWakesInv, TxEndsInv DEF LockSteps
  <2>2. ASSUME NEW i \in DOMAIN queue, Grant(i) PROVE LocksInv'
    BY <2>2, GrantInv
  <2>3. CASE UNCHANGED lockVars
    <3>1. UNCHANGED <<tx, locksMade, queue, lockPhase, lockId, lockState, lockResult>>
      BY <2>3 DEF lockVars
    <3>2. LockTypes' /\ InOrder'
      BY <3>1 DEF LocksInv, LockTypes, Locks, Modes, InOrder, Conflict
    <3>3. ASSUME NEW c \in Lockers PROVE LockSound(c)'
      BY <3>1 DEF LocksInv, LockSound, ClientOK
    <3> QED
      BY <3>2, <3>3 DEF LocksInv
  <2> QED
    BY <2>1, <2>2, <2>3 DEF LocksNext
<1> QED
  BY <1>1, <1>2, LocksInvSuffices, PTL DEF LocksSpec

-----------------------------------------------------------------------------
(***************************************************************************)
(* Batches: what is done and what is told of each part.                    *)
(***************************************************************************)
PartKindNames  == {"Read", "MasterMutation", "Raw"}
Pieces == [kind : PartKindNames, keyed : BOOLEAN]
ItemShapes == {"output", "bare", "empty", "odd", "error"}
Items  == [part : Nat, ok : BOOLEAN, shape : ItemShapes]

\* The chunks of which a request has been sent are those below this one.
Reached == IF tries = 0 THEN chunk ELSE chunk + 1

\* What the cluster remembers of part i, carried out in chunk c.
IdOf(c, i) == [id |-> MutationOf(c, i), part |-> i]

\* The part's place in the batch, seen from its chunk.
ItemFits(item, i) == item.ok => item.part = i

BatchTypes ==
  /\ batch \in Seq(Pieces) /\ size \in Nat \ {0} /\ given \in BOOLEAN
  /\ batchPhase \in {"check", "send", "answer", "done"}
  /\ chunk \in Nat /\ tries \in Nat
  /\ sent \subseteq [chunk : Nat, try : Nat]
  /\ partApplied \in [DOMAIN batch -> Nat]
  /\ reply \in Seq(Items) /\ results \in Seq(Items)

\* The chunks before the one under way have been answered, all of them whole.
Progress ==
  /\ batchPhase = "check" => chunk = 0 /\ tries = 0
  /\ batchPhase = "answer" => tries > 0
  /\ batchPhase \in {"send", "answer"} => chunk * size < Len(batch)
  /\ outcome # "Ok" => Len(results) = chunk * size /\ chunk * size <= Len(batch)
  /\ outcome = "Ok" => Len(results) = Len(batch) /\ batchPhase = "done"
  /\ outcome = NoOutcome <=> batchPhase # "done"
  /\ outcome \notin {NoOutcome, "Ok"} /\ results # <<>> => outcome = "BatchInterrupted"

\* Nothing of a chunk is done before its request is sent.
NothingAhead ==
  /\ \A r \in sent : r.chunk < Reached
  /\ \A i \in DOMAIN batch : i > Reached * size => partApplied[i] = 0

\* A batch that must not be repeated has one request for each chunk, and while it
\* is on its way nothing of the chunk is done.
SentOnce ==
  Repeatable = "Never" =>
    /\ batchPhase \in {"check", "send"} => tries = 0
    /\ tries <= 1
    /\ \A r \in sent : r.try = 1 /\ \A i \in Places(r.chunk) : partApplied[i] = 0
    /\ \A i \in DOMAIN batch : partApplied[i] <= 1

\* One id given by the caller serves one request.
OneRequest ==
  batchPhase \in {"send", "answer"} \/ sent # {} => (given => Len(batch) <= size)

\* The cluster remembers parts by the ids of their own chunks, and every mutation
\* that was done under an id is remembered.
Remembered(i) == \E c \in Nat : i \in Places(c) /\ IdOf(c, i) \in knownIds
IdsAreTrue ==
  /\ \A k \in knownIds : \E c \in Nat : \E i \in Places(c) : k = IdOf(c, i)
  /\ HasId => \A i \in DOMAIN batch :
       batch[i].kind = "MasterMutation" =>
         /\ partApplied[i] <= 1
         /\ partApplied[i] > 0 => Remembered(i)

\* An answer that has come in speaks of the parts of the chunk under way, unless
\* its length gives it away.
ReplyFits ==
  reply # <<>> =>
    /\ batchPhase = "answer"
    /\ Len(reply) = Len(ChunkParts(chunk)) =>
         \A k \in DOMAIN reply : ItemFits(reply[k], chunk * size + k)

BatchInv ==
  /\ BatchTypes /\ Progress /\ NothingAhead /\ SentOnce /\ OneRequest
  /\ IdsAreTrue /\ ReplyFits /\ AnswersFitParts

-----------------------------------------------------------------------------
(***************************************************************************)
(* How a batch is cut.                                                     *)
(***************************************************************************)
\* The methods of BatchRequest push parts of three kinds.
LEMMA PartsArePieces == Parts \subseteq Pieces
<1>1. ASSUME NEW kind \in PartKindNames, NEW keyed \in BOOLEAN PROVE Part(kind, keyed) \in Pieces
  BY DEF Part, Pieces
<1>2. ASSUME NEW r \in {"Freely", "WithMutationId", "Never"} PROVE PartRaw(r) \in Pieces
  <2>1. CASE r = "Freely"
    BY <1>1, <2>1 DEF PartRaw, PartKindNames
  <2>2. CASE r = "WithMutationId"
    BY <1>1, <2>2 DEF PartRaw, PartKindNames
  <2>3. CASE r = "Never"
    BY <1>1, <2>3 DEF PartRaw, PartKindNames
  <2> QED
    BY <2>1, <2>2, <2>3
<1>3. /\ {PartCreate, PartCreateTable, PartRemove, PartRemoveTree, PartSetAttribute} \subseteq Pieces
      /\ {PartExists, PartGet, PartList} \subseteq Pieces
  BY <1>1 DEF PartCreate, PartCreateTable, PartExists, PartGet, PartList, PartRemove, PartRemoveTree,
     PartSetAttribute, PartKindNames
<1> QED
  BY <1>2, <1>3 DEF Parts

\* Products grow with their factors.
LEMMA ProductGrows ==
  ASSUME NEW a \in Nat, NEW b \in Nat, NEW s \in Nat, a <= b
  PROVE  a * s \in Nat /\ b * s \in Nat /\ a * s <= b * s
<1>1. b - a \in Nat /\ b = a + (b - a)
  OBVIOUS
<1>2. (b - a) * s \in Nat /\ a * s \in Nat /\ b * s \in Nat
  BY <1>1
<1>3. b * s = a * s + (b - a) * s
  BY <1>1
<1> QED
  BY <1>2, <1>3

\* The next chunk begins where this one ends.
LEMMA ProductSteps ==
  ASSUME NEW c \in Nat, NEW s \in Nat
  PROVE  c * s \in Nat /\ (c + 1) * s = c * s + s
  OBVIOUS

\* A chunk is a run of places of the batch.
LEMMA PlacesAre ==
  ASSUME BatchTypes, NEW c \in Nat, NEW i \in Places(c)
  PROVE  /\ i \in Nat /\ i \in DOMAIN batch
         /\ c * size + 1 <= i /\ i <= c * size + size /\ i <= Len(batch)
<1>1. c * size \in Nat /\ (c + 1) * size = c * size + size /\ size \in Nat /\ Len(batch) \in Nat
  BY ProductSteps DEF BatchTypes
<1>2. DOMAIN batch = 1..Len(batch)
  BY DEF BatchTypes
<1> QED
  BY <1>1, <1>2 DEF Places, Lowest

\* A part is in one chunk.
LEMMA ChunksAreApart ==
  ASSUME BatchTypes, NEW c \in Nat, NEW d \in Nat, NEW i \in Places(c), i \in Places(d)
  PROVE  c = d
<1>1. c * size + 1 <= i /\ i <= c * size + size /\ d * size + 1 <= i /\ i <= d * size + size
  BY PlacesAre
<1>2. size \in Nat /\ c * size \in Nat /\ d * size \in Nat /\ i \in Nat
  BY ProductSteps, PlacesAre DEF BatchTypes
<1>3. ASSUME NEW a \in Nat, NEW b \in Nat, a < b PROVE a * size + size <= b * size
  BY <1>2, <1>3, ProductGrows, ProductSteps, a + 1 <= b
<1>4. CASE c < d
  BY <1>1, <1>2, <1>3, <1>4
<1>5. CASE d < c
  BY <1>1, <1>2, <1>3, <1>5
<1> QED
  BY <1>4, <1>5

\* The parts of a chunk, and where they stand in the batch.
LEMMA ChunkIs ==
  ASSUME BatchTypes, NEW c \in Nat, c * size < Len(batch)
  PROVE  /\ Len(ChunkParts(c)) \in Nat \ {0}
         /\ Len(ChunkParts(c)) = Lowest((c + 1) * size, Len(batch)) - c * size
         /\ \A k \in 1..Len(ChunkParts(c)) :
              ChunkParts(c)[k] = batch[c * size + k] /\ c * size + k \in Places(c)
<1>1. c * size \in Nat /\ (c + 1) * size = c * size + size /\ size \in Nat \ {0} /\ Len(batch) \in Nat
  BY ProductSteps DEF BatchTypes
<1> DEFINE m == Lowest((c + 1) * size, Len(batch))
<1>2. m \in Nat /\ c * size < m /\ m <= Len(batch)
  BY <1>1 DEF Lowest
<1>3. batch \in Seq(Pieces)
  BY DEF BatchTypes
<1>4. SubSeq(batch, c * size + 1, m) \in Seq(Pieces) /\ Len(SubSeq(batch, c * size + 1, m)) = m - c * size
  <2> HIDE DEF m
  <2> QED
    BY <1>1, <1>2, <1>3
<1>5. ASSUME NEW k \in 1..(m - c * size)
      PROVE  SubSeq(batch, c * size + 1, m)[k] = batch[c * size + k] /\ c * size + k \in (c * size + 1)..m
  <2> HIDE DEF m
  <2> QED
    BY <1>1, <1>2, <1>3
<1> QED
  BY <1>1, <1>2, <1>4, <1>5 DEF ChunkParts, Places

\* No two parts share an id.
LEMMA IdsAreApart ==
  ASSUME BatchTypes, given => Len(batch) <= size,
         NEW c \in Nat, NEW d \in Nat, NEW i \in Places(c), NEW j \in Places(d),
         MutationOf(c, i) = MutationOf(d, j)
  PROVE  i = j
<1>1. c * size \in Nat /\ d * size \in Nat /\ i \in Nat /\ j \in Nat /\ size \in Nat \ {0}
  BY ProductSteps, PlacesAre DEF BatchTypes
<1>2. i - c * size = j - d * size /\ (~given => c = d)
  BY DEF MutationOf
<1>3. CASE ~given
  BY <1>1, <1>2, <1>3
<1>4. CASE given
  <2>1. c * size + 1 <= i /\ d * size + 1 <= j /\ i <= Len(batch) /\ j <= Len(batch)
    BY PlacesAre
  <2>2. ASSUME NEW a \in Nat, a * size < size PROVE a = 0
    BY <1>1, <2>2, ProductGrows, a # 0 => 1 <= a, 1 * size = size
  <2>3. c * size < size /\ d * size < size
    <3>1. Len(batch) \in Nat /\ Len(batch) <= size
      BY <1>4 DEF BatchTypes
    <3> QED
      BY <1>1, <2>1, <3>1
  <2>4. c = 0 /\ d = 0
    BY <2>2, <2>3
  <2> QED
    BY <1>1, <1>2, <2>4
<1> QED
  BY <1>3, <1>4

-----------------------------------------------------------------------------
(***************************************************************************)
(* The client's steps.                                                     *)
(***************************************************************************)
\* What a batch is does not change on the way.
LEMMA CallerKept ==
  ASSUME UNCHANGED callerVars
  PROVE  /\ batch' = batch /\ size' = size /\ given' = given
         /\ Repeatable' = Repeatable /\ HasId' = HasId
         /\ \A c : Places(c)' = Places(c) /\ ChunkParts(c)' = ChunkParts(c)
         /\ \A c, i : MutationOf(c, i)' = MutationOf(c, i) /\ IdOf(c, i)' = IdOf(c, i)
  BY DEF callerVars, Repeatable, Has, HasId, Places, ChunkParts, Lowest, MutationOf, IdOf

\* The cluster's memory stays true while it and the batch rest.
LEMMA IdsKept ==
  ASSUME BatchInv, UNCHANGED <<callerVars, masterVars>>
  PROVE  IdsAreTrue'
<1>1. /\ UNCHANGED <<batch, knownIds, partApplied>> /\ HasId' = HasId
      /\ \A c : Places(c)' = Places(c)
      /\ \A c, i : IdOf(c, i)' = IdOf(c, i)
  BY CallerKept DEF masterVars
<1>2. \A i : Remembered(i)' = Remembered(i)
  BY <1>1 DEF Remembered
<1> QED
  BY <1>1, <1>2 DEF BatchInv, IdsAreTrue

LEMMA CheckInv == ASSUME BatchInv, Check PROVE BatchInv'
<1>1. /\ batchPhase = "check" /\ chunk = 0 /\ tries = 0 /\ outcome = NoOutcome /\ reply = <<>>
      /\ outcome # "Ok"
  BY BatchAssumption DEF BatchInv, Check, Progress, ReplyFits
<1>2. /\ UNCHANGED callerVars /\ UNCHANGED masterVars /\ UNCHANGED <<chunk, tries, reply, sent, results>>
      /\ UNCHANGED <<batch, size, given>> /\ UNCHANGED partApplied
  BY DEF Check, callerVars, masterVars
<1>3. IdsAreTrue'
  BY <1>2, IdsKept
<1>4. \/ batchPhase' = "done" /\ outcome' = "Config"
      \/ batchPhase' = "send" /\ outcome' = outcome /\ batch # <<>> /\ (given => ~(Len(batch) > size))
  BY DEF Check
<1>5. Len(batch) \in Nat /\ size \in Nat \ {0} /\ 0 * size = 0 /\ (batch # <<>> => Len(batch) > 0)
  BY DEF BatchInv, BatchTypes
<1>6. Len(results) = 0 /\ results = <<>>
  BY <1>1, <1>5 DEF BatchInv, BatchTypes, Progress
<1>7. BatchTypes'
  BY <1>2, <1>4 DEF BatchInv, BatchTypes
<1>8. Progress'
  BY <1>1, <1>2, <1>4, <1>5, <1>6, BatchAssumption DEF Progress
<1>9. NothingAhead' /\ SentOnce'
  BY <1>1, <1>2, <1>4, CallerKept DEF BatchInv, NothingAhead, Reached, SentOnce
<1>10. OneRequest' /\ ReplyFits' /\ AnswersFitParts'
  BY <1>1, <1>2, <1>4, <1>5 DEF BatchInv, OneRequest, ReplyFits, AnswersFitParts
<1> QED
  BY <1>3, <1>7, <1>8, <1>9, <1>10 DEF BatchInv

\* The part sends of a chunk that is not repeated are the first of it.
LEMMA SendChunkInv == ASSUME BatchInv, SendChunk PROVE BatchInv'
<1> DEFINE r == [chunk |-> chunk, try |-> tries + 1]
<1>1. /\ batchPhase = "send" /\ batchPhase' = "answer" /\ tries' = tries + 1
      /\ UNCHANGED <<callerVars, chunk, reply, masterVars, results, outcome>>
      /\ UNCHANGED callerVars /\ UNCHANGED masterVars /\ UNCHANGED <<batch, size, given, partApplied>>
      /\ sent' = sent \cup {r}
  BY DEF SendChunk, callerVars, masterVars
<1>2. IdsAreTrue'
  BY <1>1, IdsKept
<1>3. chunk \in Nat /\ tries \in Nat /\ size \in Nat \ {0} /\ r \in [chunk : Nat, try : Nat]
  BY DEF BatchInv, BatchTypes
<1>4. BatchTypes'
  BY <1>1, <1>3 DEF BatchInv, BatchTypes
<1>5. Progress'
  BY <1>1, <1>3, BatchAssumption DEF BatchInv, Progress
<1>6. Reached' = chunk + 1 /\ Reached <= Reached' /\ Reached \in Nat
  BY <1>1, <1>3 DEF Reached
<1>7. Reached * size <= Reached' * size /\ Reached * size \in Nat /\ Reached' * size \in Nat
  BY <1>3, <1>6, ProductGrows
<1>8. NothingAhead'
  <2>1. \A q \in sent' : q.chunk < Reached'
    BY <1>1, <1>3, <1>6 DEF BatchInv, NothingAhead, BatchTypes
  <2>2. ASSUME NEW i \in DOMAIN batch, i > Reached' * size PROVE partApplied[i] = 0
    BY <1>7, <2>2 DEF BatchInv, NothingAhead, BatchTypes
  <2> QED
    BY <1>1, <2>1, <2>2 DEF NothingAhead
<1>9. SentOnce'
  <2> SUFFICES ASSUME Repeatable = "Never" PROVE SentOnce'
    BY <1>1, CallerKept DEF SentOnce
  <2>1. tries = 0 /\ r.try = 1 /\ r.chunk = chunk
    BY <1>1 DEF BatchInv, SentOnce
  <2>2. ASSUME NEW i \in Places(chunk) PROVE partApplied[i] = 0
    <3>1. i \in DOMAIN batch /\ i \in Nat /\ chunk * size + 1 <= i
      BY <1>3, PlacesAre DEF BatchInv
    <3>2. i > Reached * size
      BY <1>3, <1>7, <2>1, <3>1 DEF Reached
    <3> QED
      BY <3>1, <3>2 DEF BatchInv, NothingAhead
  <2>3. \A q \in sent' : q.try = 1 /\ \A i \in Places(q.chunk) : partApplied[i] = 0
    BY <1>1, <2>1, <2>2 DEF BatchInv, SentOnce
  <2> QED
    BY <1>1, <2>1, <2>3, CallerKept DEF BatchInv, SentOnce
<1>10. OneRequest' /\ ReplyFits' /\ AnswersFitParts'
  BY <1>1, CallerKept DEF BatchInv, OneRequest, ReplyFits, AnswersFitParts
<1> QED
  BY <1>2, <1>4, <1>5, <1>8, <1>9, <1>10 DEF BatchInv

LEMMA ChunkFailsInv == ASSUME BatchInv, ChunkFails PROVE BatchInv'
<1>1. /\ batchPhase = "answer" /\ reply = <<>>
      /\ UNCHANGED callerVars /\ UNCHANGED masterVars /\ UNCHANGED <<batch, size, given, partApplied>>
      /\ UNCHANGED <<chunk, tries, reply, sent, results>>
  BY DEF ChunkFails, Fail, callerVars, masterVars
<1>2. \/ batchPhase' = "send" /\ outcome' = outcome /\ tries < AllowedTries
      \/ batchPhase' = "done" /\ outcome' = (IF results = <<>> THEN "error" ELSE "BatchInterrupted")
  BY DEF ChunkFails, Fail
<1>3. IdsAreTrue'
  BY <1>1, IdsKept
<1>4. BatchTypes'
  BY <1>1, <1>2 DEF BatchInv, BatchTypes
<1>5. Progress'
  BY <1>1, <1>2, BatchAssumption DEF BatchInv, Progress
<1>6. NothingAhead'
  BY <1>1 DEF BatchInv, NothingAhead, Reached
<1>7. SentOnce'
  BY <1>1, <1>2, CallerKept DEF BatchInv, SentOnce, AllowedTries, Progress, BatchTypes
<1>8. OneRequest' /\ ReplyFits' /\ AnswersFitParts'
  BY <1>1, <1>2 DEF BatchInv, OneRequest, ReplyFits, AnswersFitParts
<1> QED
  BY <1>3, <1>4, <1>5, <1>6, <1>7, <1>8 DEF BatchInv

\* The answer's results stand at the places of the chunk's parts.
LEMMA ReadAnswerInv == ASSUME BatchInv, ReadAnswer PROVE BatchInv'
<1>1. /\ batchPhase = "answer" /\ reply # <<>> /\ reply' = <<>>
      /\ UNCHANGED callerVars /\ UNCHANGED masterVars
      /\ UNCHANGED <<batch, size, given, partApplied, sent>>
  BY DEF ReadAnswer, callerVars, masterVars
<1>2. /\ chunk \in Nat /\ tries \in Nat /\ tries > 0 /\ size \in Nat \ {0} /\ Len(batch) \in Nat
      /\ chunk * size < Len(batch) /\ Len(results) = chunk * size /\ outcome = NoOutcome
      /\ results \in Seq(Items) /\ reply \in Seq(Items) /\ batch \in Seq(Pieces)
  BY <1>1, BatchAssumption DEF BatchInv, BatchTypes, Progress
<1>3. chunk * size \in Nat /\ (chunk + 1) * size = chunk * size + size
  BY <1>2, ProductSteps
<1>4. IdsAreTrue'
  BY <1>1, IdsKept
<1>5. OneRequest' /\ ReplyFits'
  BY <1>1 DEF BatchInv, OneRequest, ReplyFits
<1>6. CASE ~Fits(reply, ChunkParts(chunk))
  <2>1. /\ UNCHANGED <<chunk, tries, results>> /\ batchPhase' = "done"
        /\ outcome' = (IF results = <<>> THEN "refused" ELSE "BatchInterrupted")
    BY <1>6 DEF ReadAnswer, Fail
  <2>2. BatchTypes'
    BY <1>1, <2>1 DEF BatchInv, BatchTypes
  <2>3. Progress'
    BY <1>1, <1>2, <2>1, BatchAssumption DEF Progress
  <2>4. NothingAhead' /\ SentOnce' /\ AnswersFitParts'
    BY <1>1, <2>1, CallerKept DEF BatchInv, NothingAhead, Reached, SentOnce, AnswersFitParts
  <2> QED
    BY <1>4, <1>5, <2>2, <2>3, <2>4 DEF BatchInv
<1>7. CASE Fits(reply, ChunkParts(chunk))
  <2> DEFINE n == Len(ChunkParts(chunk))
  <2>1. /\ n \in Nat /\ n = Lowest((chunk + 1) * size, Len(batch)) - chunk * size
        /\ \A k \in 1..n : ChunkParts(chunk)[k] = batch[chunk * size + k]
    BY <1>2, ChunkIs DEF BatchInv
  <2>2. /\ Len(reply) = n /\ DOMAIN reply = 1..n
        /\ \A k \in 1..n : /\ IsResult(reply[k], batch[chunk * size + k])
                           /\ ItemFits(reply[k], chunk * size + k)
    <3>1. Len(reply) = n /\ \A k \in DOMAIN reply : IsResult(reply[k], ChunkParts(chunk)[k])
      BY <1>7 DEF Fits
    <3>2. DOMAIN reply = 1..n
      BY <1>2, <3>1
    <3>3. \A k \in DOMAIN reply : ItemFits(reply[k], chunk * size + k)
      BY <1>1, <3>1 DEF BatchInv, ReplyFits
    <3> HIDE DEF n
    <3> QED
      BY <2>1, <3>1, <3>2, <3>3
  <2>3. results' = results \o reply
    BY <1>7 DEF ReadAnswer
  <2> HIDE DEF n
  <2>4. /\ results' \in Seq(Items) /\ Len(results') = chunk * size + n
        /\ DOMAIN results' = 1..(chunk * size + n)
    <3>1. results \o reply \in Seq(Items) /\ Len(results \o reply) = Len(results) + Len(reply)
      BY <1>2
    <3>2. DOMAIN (results \o reply) = 1..Len(results \o reply)
      BY <3>1
    <3> QED
      BY <1>2, <2>2, <2>3, <3>1, <3>2
  <2>5. AnswersFitParts'
    <3> SUFFICES ASSUME NEW i \in 1..(chunk * size + n)
                 PROVE  /\ results'[i].ok => results'[i].part = i
                        /\ results'[i].shape \in {"bare", "empty"} => ~batch[i].keyed
      BY <1>1, <2>4 DEF AnswersFitParts
    <3>1. CASE i <= chunk * size
      <4>1. i \in DOMAIN results /\ results'[i] = results[i]
        BY <1>2, <1>3, <2>1, <2>2, <2>3, <3>1
      <4> QED
        BY <4>1 DEF BatchInv, AnswersFitParts
    <3>2. CASE ~(i <= chunk * size)
      <4> DEFINE k == i - chunk * size
      <4>1. k \in 1..n /\ i = chunk * size + k
        BY <1>2, <1>3, <2>1, <3>2
      <4>2. results'[i] = reply[k]
        BY <1>2, <1>3, <2>1, <2>2, <2>3, <3>2, <4>1
      <4>3. IsResult(reply[k], batch[i]) /\ ItemFits(reply[k], i)
        BY <2>2, <4>1
      <4> QED
        BY <4>2, <4>3 DEF IsResult, ItemFits
    <3> QED
      BY <3>1, <3>2
  <2>6. CASE chunk + 1 \in Chunks
    <3>1. /\ batchPhase' = "send" /\ chunk' = chunk + 1 /\ tries' = 0 /\ outcome' = outcome
      BY <1>7, <2>6 DEF ReadAnswer
    <3>2. (chunk + 1) * size < Len(batch)
      <4>1. PICK i \in Places(chunk + 1) : TRUE
        BY <2>6 DEF Chunks
      <4>2. (chunk + 1) * size + 1 <= i /\ i <= Len(batch) /\ i \in Nat
        BY <1>2, <4>1, PlacesAre DEF BatchInv
      <4> QED
        BY <1>2, <1>3, <4>2
    <3>3. Len(results') = (chunk + 1) * size
      BY <1>2, <1>3, <2>1, <2>4, <3>2 DEF Lowest
    <3>4. BatchTypes'
      BY <1>1, <1>2, <2>4, <3>1 DEF BatchInv, BatchTypes
    <3>5. Progress'
      BY <1>1, <1>2, <1>3, <3>1, <3>2, <3>3, BatchAssumption DEF Progress
    <3>6. Reached' = Reached
      BY <1>2, <3>1 DEF Reached
    <3>7. NothingAhead' /\ SentOnce'
      BY <1>1, <3>1, <3>6, CallerKept DEF BatchInv, NothingAhead, SentOnce
    <3> QED
      BY <1>4, <1>5, <2>5, <3>4, <3>5, <3>7 DEF BatchInv
  <2>7. CASE chunk + 1 \notin Chunks
    <3>1. /\ batchPhase' = "done" /\ outcome' = "Ok" /\ UNCHANGED <<chunk, tries>>
      BY <1>7, <2>7 DEF ReadAnswer
    <3>2. Len(batch) <= (chunk + 1) * size
      <4> SUFFICES ASSUME (chunk + 1) * size < Len(batch) PROVE FALSE
        BY <1>2, <1>3
      <4>1. (chunk + 1 + 1) * size = (chunk + 1) * size + size
        BY <1>2, ProductSteps
      <4>2. (chunk + 1) * size + 1 \in Places(chunk + 1)
        BY <1>2, <1>3, <4>1 DEF Places, Lowest
      <4>3. chunk + 1 <= (chunk + 1) * size
        <5>1. 1 * (chunk + 1) <= size * (chunk + 1)
          BY <1>2, ProductGrows
        <5> QED
          BY <1>2, <5>1
      <4> QED
        BY <1>2, <1>3, <2>7, <4>2, <4>3 DEF Chunks
    <3>3. Len(results') = Len(batch)
      BY <1>2, <1>3, <2>1, <2>4, <3>2 DEF Lowest
    <3>4. BatchTypes'
      BY <1>1, <1>2, <2>4, <3>1 DEF BatchInv, BatchTypes
    <3>5. Progress'
      BY <1>1, <1>2, <3>1, <3>3, BatchAssumption DEF Progress
    <3>6. NothingAhead' /\ SentOnce'
      BY <1>1, <3>1, CallerKept DEF BatchInv, NothingAhead, Reached, SentOnce
    <3> QED
      BY <1>4, <1>5, <2>5, <3>4, <3>5, <3>6 DEF BatchInv
  <2> QED
    BY <2>6, <2>7
<1> QED
  BY <1>6, <1>7

-----------------------------------------------------------------------------
(***************************************************************************)
(* The cluster's steps.                                                    *)
(***************************************************************************)
\* What was done under the id of a place is the part at that place.
LEMMA DoneForItself ==
  ASSUME BatchInv, sent # {}, NEW c \in Nat, NEW doing
  PROVE  /\ DoneFor(c, doing) \in [Places(c) -> Nat]
         /\ \A i \in Places(c) : DoneFor(c, doing)[i] \in {0, i}
<1> SUFFICES ASSUME NEW i \in Places(c) PROVE DoneFor(c, doing)[i] \in {0, i} /\ i \in Nat
  BY DEF DoneFor
<1>1. i \in Nat
  BY PlacesAre DEF BatchInv
<1>2. given => Len(batch) <= size
  BY DEF BatchInv, OneRequest
<1>3. ASSUME NEW k \in KnownAs(c, i) PROVE k.part = i
  <2>1. k \in knownIds /\ k.id = MutationOf(c, i)
    BY DEF KnownAs
  <2>2. PICK d \in Nat : \E j \in Places(d) : k = IdOf(d, j)
    BY <2>1 DEF BatchInv, IdsAreTrue
  <2>3. PICK j \in Places(d) : k = IdOf(d, j)
    BY <2>2
  <2>4. MutationOf(d, j) = MutationOf(c, i) /\ k.part = j
    BY <2>1, <2>3 DEF IdOf
  <2> QED
    BY <1>2, <2>4, IdsAreApart DEF BatchInv
<1>4. KnownAs(c, i) # {} => (CHOOSE k \in KnownAs(c, i) : TRUE) \in KnownAs(c, i)
  OBVIOUS
<1> QED
  BY <1>1, <1>3, <1>4 DEF DoneFor

\* The cluster answers each part for itself, or at the wrong length.
LEMMA AnswersFit ==
  ASSUME BatchTypes, NEW c \in Nat, c * size < Len(batch),
         NEW did \in [Places(c) -> Nat], \A i \in Places(c) : did[i] \in {0, i},
         NEW items \in ChunkAnswers(c, did)
  PROVE  /\ items \in Seq(Items)
         /\ Len(items) = Len(ChunkParts(c)) => \A k \in DOMAIN items : ItemFits(items[k], c * size + k)
<1> DEFINE n == Len(ChunkParts(c))
           item(k, shape) == [part |-> did[c * size + k], ok |-> did[c * size + k] # 0, shape |-> shape]
           usual == [k \in 1..n |-> item(k, IF did[c * size + k] # 0 THEN "output" ELSE "error")]
<1>1. n \in Nat \ {0} /\ \A k \in 1..n : c * size + k \in Places(c)
  BY ChunkIs
<1>2. ASSUME NEW k \in 1..n, NEW shape \in ItemShapes
      PROVE  item(k, shape) \in Items /\ ItemFits(item(k, shape), c * size + k)
  <2>1. did[c * size + k] \in Nat /\ did[c * size + k] \in {0, c * size + k}
    BY <1>1
  <2>2. (did[c * size + k] # 0) \in BOOLEAN
    OBVIOUS
  <2>3. item(k, shape) \in Items
    BY <2>1, <2>2 DEF Items
  <2>4. ItemFits(item(k, shape), c * size + k)
    BY <2>1 DEF ItemFits
  <2> QED
    BY <2>3, <2>4
<1>3. ASSUME NEW k \in 1..n
      PROVE  usual[k] \in Items /\ ItemFits(usual[k], c * size + k)
  <2>1. "output" \in ItemShapes /\ "error" \in ItemShapes
    BY DEF ItemShapes
  <2> HIDE DEF n, item
  <2>2. usual[k] = item(k, "output") \/ usual[k] = item(k, "error")
    OBVIOUS
  <2> QED
    BY <1>2, <2>1, <2>2
<1>4. \/ items = usual \/ items = SubSeq(usual, 1, n - 1) \/ items = Tail(usual)
      \/ \E k \in 1..n, shape \in ItemShapes : items = [usual EXCEPT ![k] = item(k, shape)]
  <2>1. ChunkAnswers(c, did) = {usual, SubSeq(usual, 1, n - 1), Tail(usual)} \cup
          {[usual EXCEPT ![k] = item(k, shape)] : k \in 1..n, shape \in ItemShapes}
    BY DEF ChunkAnswers, ItemShapes
  <2> HIDE DEF n, item, usual
  <2> QED
    BY <2>1
<1> HIDE DEF n, item
<1>5. usual \in [1..n -> Items]
  BY <1>3
<1>6. usual \in Seq(Items) /\ Len(usual) = n
  <2> HIDE DEF usual
  <2> QED
    BY <1>1, <1>5
<1>7. CASE items = usual
  BY <1>3, <1>6, <1>7 DEF n
<1>8. CASE items = SubSeq(usual, 1, n - 1)
  <2> HIDE DEF usual
  <2>1. items \in Seq(Items) /\ Len(items) = n - 1
    BY <1>1, <1>6, <1>8
  <2>2. Len(items) # n
    BY <1>1, <2>1
  <2> QED
    BY <2>1, <2>2 DEF n
<1>9. CASE items = Tail(usual)
  <2> HIDE DEF usual
  <2>1. usual # <<>>
    BY <1>1, <1>6
  <2>2. items \in Seq(Items) /\ Len(items) = n - 1
    BY <1>1, <1>6, <1>9, <2>1
  <2>3. Len(items) # n
    BY <1>1, <2>2
  <2> QED
    BY <2>2, <2>3 DEF n
<1>10. ASSUME NEW k \in 1..n, NEW shape \in ItemShapes, items = [usual EXCEPT ![k] = item(k, shape)]
       PROVE  /\ items \in Seq(Items)
              /\ \A m \in DOMAIN items : ItemFits(items[m], c * size + m)
  <2> HIDE DEF usual
  <2>1. items \in [1..n -> Items]
    BY <1>2, <1>5, <1>10
  <2>2. items \in Seq(Items) /\ DOMAIN items = 1..n
    BY <1>1, <2>1
  <2>3. ASSUME NEW m \in 1..n PROVE ItemFits(items[m], c * size + m)
    <3>1. items[m] = IF m = k THEN item(k, shape) ELSE usual[m]
      BY <1>5, <1>10
    <3> QED
      BY <1>2, <1>3, <3>1
  <2> QED
    BY <2>2, <2>3
<1> QED
  BY <1>4, <1>7, <1>8, <1>9, <1>10

\* Late, repeated or partial, a request does no more than is still to be done.
LEMMA ExecuteBatchInv ==
  ASSUME BatchInv, NEW r \in sent, NEW doing, ExecuteBatch(r, doing) PROVE BatchInv'
<1> DEFINE c == r.chunk
           new == NewParts(c, doing)
<1>1. /\ UNCHANGED callerVars /\ UNCHANGED <<batch, size, given>>
      /\ UNCHANGED <<batchPhase, chunk, tries, results, outcome>>
      /\ sent' = sent \ {r} /\ doing \subseteq Places(c)
  BY DEF ExecuteBatch, callerVars
<1>2. /\ c \in Nat /\ size \in Nat \ {0} /\ c < Reached /\ Reached \in Nat
      /\ partApplied \in [DOMAIN batch -> Nat] /\ sent # {} /\ sent \subseteq [chunk : Nat, try : Nat]
  BY DEF BatchInv, BatchTypes, NothingAhead, Reached
<1>3. new \subseteq Places(c) /\ Places(c) \subseteq DOMAIN batch
  BY <1>1, <1>2, PlacesAre DEF NewParts, BatchInv
<1>4. partApplied' = [i \in DOMAIN batch |-> Lowest(partApplied[i] + (IF i \in new THEN 1 ELSE 0), 2)]
  BY DEF ExecuteBatch
<1>5. knownIds' = knownIds \cup {IdOf(c, i) : i \in {j \in new : HasId /\ batch[j].kind = "MasterMutation"}}
  BY DEF ExecuteBatch, IdOf
<1> HIDE DEF new
<1>6. ASSUME NEW i \in DOMAIN batch
      PROVE  /\ partApplied'[i] \in Nat /\ partApplied[i] \in Nat
             /\ i \in new => partApplied'[i] <= partApplied[i] + 1
             /\ i \notin new => partApplied'[i] <= partApplied[i]
  BY <1>2, <1>4 DEF Lowest
<1>7. IdsAreTrue'
  <2>1. \A k \in knownIds' : \E d \in Nat : \E i \in Places(d) : k = IdOf(d, i)
    BY <1>2, <1>3, <1>5 DEF BatchInv, IdsAreTrue
  <2>2. ASSUME HasId, NEW i \in DOMAIN batch, batch[i].kind = "MasterMutation"
        PROVE  /\ partApplied'[i] <= 1
               /\ partApplied'[i] > 0 => \E d \in Nat : i \in Places(d) /\ IdOf(d, i) \in knownIds'
    <3>1. /\ partApplied[i] <= 1
          /\ partApplied[i] > 0 => \E d \in Nat : i \in Places(d) /\ IdOf(d, i) \in knownIds
      BY <2>2 DEF BatchInv, IdsAreTrue, Remembered
    <3>2. CASE i \notin new
      BY <1>5, <1>6, <3>1, <3>2
    <3>3. CASE i \in new
      <4>1. KnownAs(c, i) = {} /\ i \in Places(c)
        BY <1>3, <3>3 DEF new, NewParts
      <4>2. partApplied[i] = 0
        <5> SUFFICES ASSUME partApplied[i] > 0 PROVE FALSE
          BY <1>6
        <5>1. PICK d \in Nat : i \in Places(d) /\ IdOf(d, i) \in knownIds
          BY <3>1
        <5>2. d = c
          BY <1>2, <4>1, <5>1, ChunksAreApart DEF BatchInv
        <5>3. IdOf(c, i) \in KnownAs(c, i)
          BY <2>2, <5>1, <5>2 DEF KnownAs, IdOf
        <5> QED
          BY <4>1, <5>3
      <4>3. IdOf(c, i) \in knownIds'
        BY <1>5, <2>2, <3>3
      <4> QED
        BY <1>2, <1>6, <3>3, <4>1, <4>2, <4>3
    <3> QED
      BY <3>2, <3>3
  <2> QED
    BY <1>1, <2>1, <2>2, CallerKept DEF IdsAreTrue, Remembered
<1>8. NothingAhead'
  <2>1. Reached' = Reached
    BY <1>1 DEF Reached
  <2>2. ASSUME NEW i \in DOMAIN batch, i > Reached * size PROVE partApplied'[i] = 0
    <3>1. i \notin new
      <4> SUFFICES ASSUME i \in Places(c) PROVE FALSE
        BY <1>3
      <4>1. i <= c * size + size /\ i \in Nat
        BY <1>2, PlacesAre DEF BatchInv
      <4>2. (c + 1) * size <= Reached * size /\ Reached * size \in Nat
        BY <1>2, ProductGrows, c + 1 <= Reached
      <4>3. c * size \in Nat /\ (c + 1) * size = c * size + size
        BY <1>2, ProductSteps
      <4> QED
        BY <1>2, <2>2, <4>1, <4>2, <4>3
    <3>2. partApplied[i] = 0
      BY <2>2 DEF BatchInv, NothingAhead
    <3> QED
      BY <1>6, <3>1, <3>2
  <2> QED
    BY <1>1, <2>1, <2>2 DEF BatchInv, NothingAhead
<1>9. SentOnce'
  <2> SUFFICES ASSUME Repeatable = "Never" PROVE SentOnce'
    BY <1>1, CallerKept DEF SentOnce
  <2>1. /\ r.try = 1 /\ \A i \in Places(c) : partApplied[i] = 0
        /\ \A i \in DOMAIN batch : partApplied[i] <= 1
    BY DEF BatchInv, SentOnce
  <2>2. ASSUME NEW q \in sent, q # r
        PROVE  q.try = 1 /\ \A i \in Places(q.chunk) : partApplied'[i] = 0
    <3>1. q.try = 1 /\ q.chunk \in Nat /\ \A i \in Places(q.chunk) : partApplied[i] = 0
      BY <1>2 DEF BatchInv, SentOnce
    <3>2. q.chunk # c
      <4>1. q \in [chunk : Nat, try : Nat] /\ r \in [chunk : Nat, try : Nat]
        BY <1>2
      <4> QED
        BY <2>1, <2>2, <3>1, <4>1
    <3>3. ASSUME NEW i \in Places(q.chunk) PROVE partApplied'[i] = 0
      <4>1. i \in DOMAIN batch
        BY <3>1, PlacesAre DEF BatchInv
      <4>2. i \notin new
        BY <1>2, <1>3, <3>1, <3>2, ChunksAreApart DEF BatchInv
      <4> QED
        BY <1>6, <3>1, <4>1, <4>2
    <3> QED
      BY <3>1, <3>3
  <2>3. ASSUME NEW i \in DOMAIN batch PROVE partApplied'[i] <= 1
    BY <1>3, <1>6, <2>1
  <2> QED
    BY <1>1, <2>2, <2>3, CallerKept DEF BatchInv, SentOnce
<1>10. reply' \in Seq(Items) /\ ReplyFits'
  <2>1. CASE reply' = reply
    BY <1>1, <2>1, CallerKept DEF BatchInv, BatchTypes, ReplyFits
  <2>2. CASE reply' # reply
    <3>1. /\ batchPhase = "answer" /\ c = chunk
          /\ reply' \in ChunkAnswers(chunk, DoneFor(chunk, doing))
      BY <2>2 DEF ExecuteBatch
    <3>2. chunk \in Nat /\ chunk * size < Len(batch)
      BY <3>1 DEF BatchInv, BatchTypes, Progress
    <3>3. /\ DoneFor(chunk, doing) \in [Places(chunk) -> Nat]
          /\ \A i \in Places(chunk) : DoneFor(chunk, doing)[i] \in {0, i}
      BY <1>2, <3>2, DoneForItself
    <3>4. /\ reply' \in Seq(Items)
          /\ Len(reply') = Len(ChunkParts(chunk)) =>
               \A k \in DOMAIN reply' : ItemFits(reply'[k], chunk * size + k)
      BY <3>1, <3>2, <3>3, AnswersFit DEF BatchInv
    <3> QED
      BY <1>1, <3>1, <3>4, CallerKept DEF ReplyFits, ItemFits
  <2> QED
    BY <2>1, <2>2
<1>11. partApplied' \in [DOMAIN batch -> Nat]
  BY <1>4, <1>6
<1>12. BatchTypes'
  BY <1>1, <1>10, <1>11 DEF BatchInv, BatchTypes
<1>13. Progress' /\ OneRequest' /\ AnswersFitParts'
  BY <1>1 DEF BatchInv, Progress, OneRequest, AnswersFitParts
<1> QED
  BY <1>7, <1>8, <1>9, <1>10, <1>12, <1>13 DEF BatchInv

-----------------------------------------------------------------------------
(***************************************************************************)
(* The theorem.                                                            *)
(***************************************************************************)
\* A part that is neither a read nor in a batch that is sent once has an id.
LEMMA BatchInvSuffices == BatchInv => BatchIsSound
<1> SUFFICES ASSUME BatchInv PROVE BatchIsSound
  OBVIOUS
<1>1. PartsApplyOnce
  <2> SUFFICES ASSUME NEW i \in DOMAIN batch, batch[i].kind # "Read" PROVE partApplied[i] <= 1
    BY DEF PartsApplyOnce
  <2>1. CASE Repeatable = "Never"
    BY <2>1 DEF BatchInv, SentOnce
  <2>2. CASE Repeatable # "Never"
    <3>1. batch[i].kind \in PartKindNames
      <4>1. batch \in Seq(Pieces)
        BY DEF BatchInv, BatchTypes
      <4>2. batch[i] \in Pieces
        BY <4>1
      <4> QED
        BY <4>2 DEF Pieces
    <3>2. batch[i].kind = "MasterMutation"
      BY <2>2, <3>1 DEF Repeatable, Has, PartKindNames
    <3>3. HasId
      BY <2>2, <3>2 DEF HasId, Repeatable, Has
    <3> QED
      BY <3>2, <3>3 DEF BatchInv, IdsAreTrue
  <2> QED
    BY <2>1, <2>2
<1>2. InterruptionIsExact
  <2> SUFFICES ASSUME outcome # NoOutcome, outcome # "Ok"
               PROVE  /\ \E c \in 0..Len(batch) : Len(results) = c * size
                      /\ \A i \in DOMAIN batch : i > Len(results) + size => partApplied[i] = 0
    BY DEF BatchInv, Progress, InterruptionIsExact, BatchTypes
  <2>1. /\ chunk \in Nat /\ size \in Nat \ {0} /\ Len(batch) \in Nat /\ Reached \in Nat
        /\ Len(results) = chunk * size /\ chunk * size <= Len(batch) /\ Reached <= chunk + 1
    BY DEF BatchInv, BatchTypes, Progress, Reached
  <2>2. 1 * chunk <= size * chunk /\ size * chunk = chunk * size /\ chunk * size \in Nat
    BY <2>1, ProductGrows
  <2>3. chunk \in 0..Len(batch)
    BY <2>1, <2>2
  <2>4. ASSUME NEW i \in DOMAIN batch, i > Len(results) + size PROVE partApplied[i] = 0
    <3>1. Reached * size <= (chunk + 1) * size /\ Reached * size \in Nat
      BY <2>1, ProductGrows
    <3>2. (chunk + 1) * size = chunk * size + size
      BY <2>1, ProductSteps
    <3>3. i \in Nat
      <4>1. DOMAIN batch = 1..Len(batch)
        BY DEF BatchInv, BatchTypes
      <4> QED
        BY <2>1, <4>1
    <3>4. i > Reached * size
      BY <2>1, <2>2, <2>4, <3>1, <3>2, <3>3
    <3> QED
      BY <3>4 DEF BatchInv, NothingAhead
  <2> QED
    BY <2>1, <2>3, <2>4
<1> QED
  BY <1>1, <1>2 DEF BatchInv, BatchIsSound, BatchIsTruthful

\* BatchIsSound for every batch, part size and number of attempts: however a batch
\* is cut, repeated, carried out late or in part, no part but a read is done twice,
\* no caller gets another part's answer, and an interruption reports whole chunks.
THEOREM BatchesAreSound == BatchSpec => []BatchIsSound
<1>1. BatchInit => BatchInv
  <2> SUFFICES ASSUME BatchInit PROVE BatchInv
    OBVIOUS
  <2>1. /\ batch \in Seq(Parts) /\ size \in Nat \ {0} /\ given \in BOOLEAN
        /\ batchPhase = "check" /\ chunk = 0 /\ tries = 0 /\ reply = <<>> /\ sent = {} /\ knownIds = {}
        /\ partApplied = [i \in DOMAIN batch |-> 0] /\ results = <<>> /\ outcome = NoOutcome
    BY BatchAssumption DEF BatchInit
  <2>2. batch \in Seq(Pieces)
    BY <2>1, PartsArePieces
  <2>3. BatchTypes
    BY <2>1, <2>2 DEF BatchTypes
  <2>4. Progress
    BY <2>1, <2>2, 0 * size = 0, BatchAssumption DEF Progress
  <2>5. NothingAhead /\ SentOnce /\ OneRequest /\ IdsAreTrue /\ ReplyFits /\ AnswersFitParts
    BY <2>1 DEF NothingAhead, SentOnce, OneRequest, IdsAreTrue, ReplyFits, AnswersFitParts
  <2> QED
    BY <2>3, <2>4, <2>5 DEF BatchInv
<1>2. BatchInv /\ [BatchNext]_batchVars => BatchInv'
  <2> SUFFICES ASSUME BatchInv, [BatchNext]_batchVars PROVE BatchInv'
    OBVIOUS
  <2>1. CASE UNCHANGED batchVars
    <3>1. /\ UNCHANGED callerVars /\ UNCHANGED masterVars
          /\ UNCHANGED <<batch, size, given, batchPhase, chunk, tries, reply, sent, partApplied, results, outcome>>
      BY <2>1 DEF batchVars, callerVars, masterVars
    <3>2. IdsAreTrue'
      BY <3>1, IdsKept
    <3>3. BatchTypes' /\ Progress' /\ NothingAhead' /\ OneRequest' /\ AnswersFitParts'
      BY <3>1 DEF BatchInv, BatchTypes, Progress, NothingAhead, Reached, OneRequest, AnswersFitParts
    <3>4. SentOnce' /\ ReplyFits'
      BY <3>1, CallerKept DEF BatchInv, SentOnce, ReplyFits, ItemFits
    <3> QED
      BY <3>2, <3>3, <3>4 DEF BatchInv
  <2> QED
    BY <2>1, CheckInv, SendChunkInv, ChunkFailsInv, ReadAnswerInv, ExecuteBatchInv DEF BatchNext
<1> QED
  BY <1>1, <1>2, BatchInvSuffices, PTL DEF BatchSpec

(***************************************************************************)
(* KeepAliveTiming: one lost ping is not a lost transaction, for every     *)
(* timeout that leaves room for it.                                        *)
(*                                                                         *)
(* While a handle is held, how old the transaction's clock can be follows  *)
(* from where the keep-alive thread is and from how many pings it has lost *)
(* since the last answer: the sum of what it may have waited for.  The     *)
(* largest such sum is RoomForOneLoss's.                                   *)
(***************************************************************************)
KTypes ==
  /\ starter \in {"starting", "attaching", "pinging", "held", "failed"}
  /\ took \in Nat /\ reached \in BOOLEAN /\ ago \in Nat
  /\ txOpen \in {"no", "yes", "expired"} /\ clock \in Nat
  /\ pinger \in {"none", "wait", "ping"} /\ pingWait \in Nat /\ elapsed \in Nat
  /\ fate \in {"good", "lost"} /\ pingApplied \in BOOLEAN /\ missed \in 0..2

\* The thread overstays neither its wait nor its ping, and a ping that has
\* restarted the clock is at least as old as the clock.
ThreadOnTime ==
  /\ pinger = "wait" => pingWait <= PingInterval /\ elapsed <= pingWait
  /\ pinger = "ping" =>
       /\ fate = "good" => elapsed <= Latency
       /\ fate = "lost" => elapsed <= PingRequestTimeout /\ missed >= 1
       /\ pingApplied => clock <= elapsed /\ txOpen = "yes"

\* Before there is a handle.
CallerOnTime ==
  /\ starter \in {"starting", "attaching"} => pinger = "none" /\ missed = 0
  /\ starter = "starting" => ~reached
  /\ starter = "starting" /\ txOpen # "no" => clock <= took
  /\ txOpen = "no" => starter = "starting"
  /\ txOpen = "expired" => clock >= Timeout
  /\ starter \in {"pinging", "attaching"} /\ reached =>
       txOpen = "yes" /\ clock <= ago /\ ago <= Latency
  /\ starter = "pinging" /\ pinger = "none" => txOpen = "expired"

\* With one: how old the clock can be.
ClockIsYoung ==
  starter = "held" /\ missed < 2 =>
    /\ txOpen = "yes"
    /\ pinger # "none"
    /\ pinger = "wait" /\ missed = 0 => clock + pingWait <= Latency + PingInterval + elapsed
    /\ pinger = "wait" /\ missed = 1 =>
         clock <= Latency + PingInterval + PingRequestTimeout + elapsed
    /\ pinger = "ping" /\ (missed = 0 \/ fate = "lost") => clock <= Latency + PingInterval + elapsed
    /\ pinger = "ping" /\ missed = 1 /\ fate = "good" =>
         clock <= Latency + 2 * PingInterval + PingRequestTimeout + elapsed

KInv == KTypes /\ ThreadOnTime /\ CallerOnTime /\ ClockIsYoung

\* The three lengths of time are natural numbers, the interval not zero.
LEMMA Lengths ==
  /\ Timeout \in Nat \ {0} /\ Latency \in Nat
  /\ PingInterval \in Nat \ {0}
  /\ PingRequestTimeout \in Nat
<1>1. Timeout \div 3 \in Nat
  BY TimingAssumption
<1>2. PingInterval \in Nat \ {0}
  BY <1>1, TimingAssumption DEF PingInterval, Greater
<1>3. PingInterval \div 2 \in Nat
  BY <1>2
<1>4. PingRequestTimeout \in Nat
  BY <1>3, TimingAssumption DEF PingRequestTimeout, Greater, Smaller
<1> QED
  BY <1>2, <1>4, TimingAssumption

\* Nothing is late at the start.
LEMMA KInitially == TimingInit => KInv
<1> SUFFICES ASSUME TimingInit PROVE KInv
  OBVIOUS
<1>a. reached \in BOOLEAN /\ pingApplied \in BOOLEAN
  BY Zenon DEF TimingInit
<1>1. KTypes
  BY <1>a, Lengths DEF TimingInit, KTypes
<1>2. ThreadOnTime /\ CallerOnTime /\ ClockIsYoung
  BY Lengths DEF TimingInit, ThreadOnTime, CallerOnTime, ClockIsYoung
<1> QED
  BY <1>1, <1>2 DEF KInv

\* No step of the caller, the thread, the cluster or time makes the clock older
\* than the thread's place accounts for.
LEMMA KInductive == RoomForOneLoss /\ KInv /\ [TimingNext]_timingVars => KInv'
<1> SUFFICES ASSUME RoomForOneLoss, KInv, [TimingNext]_timingVars PROVE KInv'
  OBVIOUS
<1> USE Lengths
<1>room. 2 * Latency + 2 * PingInterval + PingRequestTimeout < Timeout
  BY DEF RoomForOneLoss
<1>k. KTypes /\ ThreadOnTime /\ CallerOnTime /\ ClockIsYoung
  BY DEF KInv
<1> USE DEF starterVars, pingerVars, KTypes, ThreadOnTime, CallerOnTime, ClockIsYoung
<1>1. CASE TxCreated
  <2>1. KTypes'
    BY <1>1, <1>k, <1>room DEF TxCreated
  <2>2. ThreadOnTime'
    BY <1>1, <1>k, <1>room DEF TxCreated
  <2>3. CallerOnTime'
    BY <1>1, <1>k, <1>room DEF TxCreated
  <2>4. ClockIsYoung'
    BY <1>1, <1>k, <1>room DEF TxCreated
  <2> QED
    BY <2>1, <2>2, <2>3, <2>4 DEF KInv
<1>2. CASE StartReturns
  <2>1. KTypes'
    BY <1>2, <1>k, <1>room DEF StartReturns, SpawnThread, FirstPingIn
  <2>2. ThreadOnTime'
    BY <1>2, <1>k, <1>room DEF StartReturns, SpawnThread, FirstPingIn
  <2>3. CallerOnTime'
    BY <1>2, <1>k, <1>room DEF StartReturns, SpawnThread, FirstPingIn
  <2>4. ClockIsYoung'
    BY <1>2, <1>k, <1>room DEF StartReturns, SpawnThread, FirstPingIn
  <2> QED
    BY <2>1, <2>2, <2>3, <2>4 DEF KInv
<1>3. CASE CallerPingArrives
  <2>1. KTypes'
    BY <1>3, <1>k, <1>room DEF CallerPingArrives
  <2>2. ThreadOnTime'
    BY <1>3, <1>k, <1>room DEF CallerPingArrives
  <2>3. CallerOnTime'
    BY <1>3, <1>k, <1>room DEF CallerPingArrives
  <2>4. ClockIsYoung'
    BY <1>3, <1>k, <1>room DEF CallerPingArrives
  <2> QED
    BY <2>1, <2>2, <2>3, <2>4 DEF KInv
<1>4. CASE CallerPingAnswered
  <2>1. KTypes'
    BY <1>4, <1>k, <1>room DEF CallerPingAnswered, SpawnThread, FirstPingIn
  <2>2. ThreadOnTime'
    BY <1>4, <1>k, <1>room DEF CallerPingAnswered, SpawnThread, FirstPingIn
  <2>3. CallerOnTime'
    BY <1>4, <1>k, <1>room DEF CallerPingAnswered, SpawnThread, FirstPingIn
  <2>4. ClockIsYoung'
    BY <1>4, <1>k, <1>room DEF CallerPingAnswered, SpawnThread, FirstPingIn
  <2> QED
    BY <2>1, <2>2, <2>3, <2>4 DEF KInv
<1>5. CASE CallerPingFails
  <2>1. KTypes'
    BY <1>5, <1>k, <1>room DEF CallerPingFails
  <2>2. ThreadOnTime'
    BY <1>5, <1>k, <1>room DEF CallerPingFails
  <2>3. CallerOnTime'
    BY <1>5, <1>k, <1>room DEF CallerPingFails
  <2>4. ClockIsYoung'
    BY <1>5, <1>k, <1>room DEF CallerPingFails
  <2> QED
    BY <2>1, <2>2, <2>3, <2>4 DEF KInv
<1>6. CASE SendPing
  <2>a. pingApplied' \in BOOLEAN
    BY <1>6, Zenon DEF SendPing
  <2>b. missed' \in 0..2
    BY <1>6, <1>k DEF SendPing, Smaller
  <2>1. KTypes'
    BY <1>6, <1>k, <2>a, <2>b DEF SendPing
  <2>2. ThreadOnTime'
    BY <1>6, <1>k, <1>room DEF SendPing, Smaller
  <2>3. CallerOnTime'
    BY <1>6, <1>k, <1>room DEF SendPing, Smaller
  <2>4. ClockIsYoung'
    BY <1>6, <1>k, <1>room DEF SendPing, Smaller
  <2> QED
    BY <2>1, <2>2, <2>3, <2>4 DEF KInv
<1>7. CASE PingArrives
  <2>1. KTypes'
    BY <1>7, <1>k, <1>room DEF PingArrives
  <2>2. ThreadOnTime'
    BY <1>7, <1>k, <1>room DEF PingArrives
  <2>3. CallerOnTime'
    BY <1>7, <1>k, <1>room DEF PingArrives
  <2>4. ClockIsYoung'
    BY <1>7, <1>k, <1>room DEF PingArrives
  <2> QED
    BY <2>1, <2>2, <2>3, <2>4 DEF KInv
<1>8. CASE PingAnswered
  <2>1. KTypes'
    BY <1>8, <1>k, <1>room DEF PingAnswered
  <2>2. ThreadOnTime'
    BY <1>8, <1>k, <1>room DEF PingAnswered
  <2>3. CallerOnTime'
    BY <1>8, <1>k, <1>room DEF PingAnswered
  <2>4. ClockIsYoung'
    BY <1>8, <1>k, <1>room DEF PingAnswered
  <2> QED
    BY <2>1, <2>2, <2>3, <2>4 DEF KInv
<1>9. CASE PingFails
  <2>1. KTypes'
    BY <1>9, <1>k, <1>room DEF PingFails
  <2>2. ThreadOnTime'
    BY <1>9, <1>k, <1>room DEF PingFails
  <2>3. CallerOnTime'
    BY <1>9, <1>k, <1>room DEF PingFails
  <2>4. ClockIsYoung'
    BY <1>9, <1>k, <1>room DEF PingFails
  <2> QED
    BY <2>1, <2>2, <2>3, <2>4 DEF KInv
<1>10. CASE PingRefused
  <2>1. KTypes'
    BY <1>10, <1>k, <1>room DEF PingRefused
  <2>2. ThreadOnTime'
    BY <1>10, <1>k, <1>room DEF PingRefused
  <2>3. CallerOnTime'
    BY <1>10, <1>k, <1>room DEF PingRefused
  <2>4. ClockIsYoung'
    BY <1>10, <1>k, <1>room DEF PingRefused
  <2> QED
    BY <2>1, <2>2, <2>3, <2>4 DEF KInv
<1>11. CASE Pass
  <2>1. KTypes'
    BY <1>11, <1>k, <1>room DEF Pass, MayWait
  <2>2. ThreadOnTime'
    BY <1>11, <1>k, <1>room DEF Pass, MayWait
  <2>3. CallerOnTime'
    BY <1>11, <1>k, <1>room DEF Pass, MayWait
  <2>4. ClockIsYoung'
    BY <1>11, <1>k, <1>room DEF Pass, MayWait
  <2> QED
    BY <2>1, <2>2, <2>3, <2>4 DEF KInv
<1>12. CASE UNCHANGED timingVars
  BY <1>12, <1>k DEF timingVars, KInv
<1> QED
  BY <1>1, <1>2, <1>3, <1>4, <1>5, <1>6, <1>7, <1>8, <1>9, <1>10, <1>11, <1>12 DEF TimingNext

\* "a third of the timeout, so one lost ping is not a lost transaction": for
\* every timeout and latency with that much room, a handle whose keep-alive has
\* not lost two pings in a row has its transaction, however slow its start was
\* and whenever an attach came.
THEOREM OneLossIsSurvived ==
  ASSUME RoomForOneLoss
  PROVE  TimingSpec => []OneLostPingIsSurvived
<1>1. KInv => OneLostPingIsSurvived
  BY DEF KInv, ClockIsYoung, OneLostPingIsSurvived
<1>2. KInv /\ [TimingNext]_timingVars => KInv'
  BY KInductive
<1> QED
  BY <1>1, <1>2, KInitially, PTL DEF TimingSpec
=============================================================================
