----------------------------- MODULE CypressLocks -----------------------------
(***************************************************************************)
(* Clients that take a lock on one node: Client::lock, lock_waiting and    *)
(* lock_inner of crates/ytsaurus-client/src/lib.rs.                        *)
(*                                                                         *)
(* A lock belongs to its client's transaction.  The cluster queues a       *)
(* waitable lock and answers at once; the client polls the lock's state    *)
(* until it is acquired or its own wait runs out.  The cluster's queue is  *)
(* external: first come, first served, a snapshot conflicting with nothing *)
(* but an exclusive lock of its own transaction.                           *)
(***************************************************************************)
EXTENDS Integers

CONSTANTS
  Lockers,   \* clients
  WaitFor,   \* lock_waiting's wait_for, in poll intervals
  MaxLocks   \* bound: locks made, after which no client asks for another

ASSUME LocksAssumption == {WaitFor, MaxLocks} \subseteq Nat

VARIABLES
  tx,         \* each client's transaction: "none", "open" or "ended"
  locksMade,  \* locks made so far: their ids are 1..locksMade, in the order of the queue
  queue,      \* locks on the node, by id: [of, mode, state]
  lockPhase,  \* each client: "idle", "poll", "judge", "sleep", "done"
  lockId,     \* the lock its call was given, 0 for none
  lockState,  \* the state it has read
  lockAge,    \* time since its lock was queued
  lockResult  \* what its call returned

lockVars == <<tx, locksMade, queue, lockPhase, lockId, lockState, lockAge, lockResult>>

Modes == {"exclusive", "shared", "snapshot"}

\* Two locks that cannot both be held.
Conflict(l, m) ==
  IF l.of = m.of
  THEN {l.mode, m.mode} = {"snapshot", "exclusive"}
  ELSE "snapshot" \notin {l.mode, m.mode} /\ "exclusive" \in {l.mode, m.mode}

LocksInit ==
  /\ tx \in [Lockers -> {"none", "open"}]
  /\ locksMade = 0
  /\ queue = [i \in {} |-> 0]
  /\ lockPhase = [c \in Lockers |-> "idle"]
  /\ lockId = [c \in Lockers |-> 0]
  /\ lockState = [c \in Lockers |-> "none"]
  /\ lockAge = [c \in Lockers |-> 0]
  /\ lockResult = [c \in Lockers |-> "none"]

\* The call returns, and what it kept on its stack goes.
LockReturns(c, outcome) ==
  /\ lockPhase' = [lockPhase EXCEPT ![c] = "done"]
  /\ lockState' = [lockState EXCEPT ![c] = "none"]
  /\ lockAge' = [lockAge EXCEPT ![c] = 0]
  /\ lockResult' = [lockResult EXCEPT ![c] = outcome]

\* A lock joins the queue, and its id may reach the caller or not.
Queue(c, mode, state) ==
  /\ locksMade' = locksMade + 1
  /\ queue' = [i \in DOMAIN queue \cup {locksMade + 1} |->
                 IF i = locksMade + 1 THEN [of |-> c, mode |-> mode, state |-> state] ELSE queue[i]]
Told(c)   == lockId' = [lockId EXCEPT ![c] = locksMade + 1]
Untold(c) == UNCHANGED lockId

Free(c, mode) == \A i \in DOMAIN queue : ~Conflict(queue[i], [of |-> c, mode |-> mode])

\* lock_inner without a lock: outside a transaction, or refused.
NoLock(c) ==
  /\ \/ tx[c] = "none" /\ LockReturns(c, "Config")
     \/ tx[c] # "none" /\ LockReturns(c, "error")
  /\ UNCHANGED <<locksMade, queue, lockId>>

\* lock: granted now, or refused.  The grant's answers may all be lost.
Lock(c, mode) ==
  /\ lockPhase[c] = "idle"
  /\ \/ NoLock(c)
     \/ /\ tx[c] = "open" /\ Free(c, mode)
        /\ Queue(c, mode, "acquired")
        /\ \/ Told(c) /\ LockReturns(c, "Ok")
           \/ Untold(c) /\ LockReturns(c, "error")
  /\ UNCHANGED tx

\* lock_waiting: the lock is queued, or refused.
LockWaiting(c, mode) ==
  /\ lockPhase[c] = "idle"
  /\ \/ NoLock(c)
     \/ /\ tx[c] = "open"
        /\ Queue(c, mode, "pending")
        /\ \/ Untold(c) /\ LockReturns(c, "error")
           \/ /\ Told(c)
              /\ lockPhase' = [lockPhase EXCEPT ![c] = "poll"]
              /\ UNCHANGED <<lockState, lockAge, lockResult>>
  /\ UNCHANGED tx

\* The lock's state is read, or the request fails after its retries; the lock of
\* a transaction that has ended is no longer there to read.
LockPolls(c) ==
  /\ lockPhase[c] = "poll"
  /\ \/ /\ tx[c] = "open"
        /\ lockState' = [lockState EXCEPT ![c] = queue[lockId[c]].state]
        /\ lockPhase' = [lockPhase EXCEPT ![c] = "judge"]
        /\ UNCHANGED <<lockAge, lockResult>>
     \/ LockReturns(c, "error")
  /\ UNCHANGED <<tx, locksMade, queue, lockId>>

LockSleeps(c) ==
  /\ lockPhase' = [lockPhase EXCEPT ![c] = "sleep"]
  /\ UNCHANGED <<lockState, lockAge, lockResult>>

\* Mutant: when the wait is over the lock is taken for granted.
LockJudgesHopefully(c) ==
  /\ lockPhase[c] = "judge"
  /\ IF lockState[c] = "acquired" \/ lockAge[c] >= WaitFor
     THEN LockReturns(c, "Ok") ELSE LockSleeps(c)
  /\ UNCHANGED <<tx, locksMade, queue, lockId>>

\* Mutant: only the cluster ends a wait.
LockJudgesPatiently(c) ==
  /\ lockPhase[c] = "judge"
  /\ IF lockState[c] = "acquired" THEN LockReturns(c, "Ok") ELSE LockSleeps(c)
  /\ UNCHANGED <<tx, locksMade, queue, lockId>>

\* Acquired, given up, or asked again later.
LockJudges(c) ==
  /\ lockPhase[c] = "judge"
  /\ CASE lockState[c] = "acquired" -> LockReturns(c, "Ok")
       [] lockState[c] # "acquired" /\ lockAge[c] >= WaitFor -> LockReturns(c, "Config")
       [] OTHER -> LockSleeps(c)
  /\ UNCHANGED <<tx, locksMade, queue, lockId>>

\* The poll interval has passed.
LockWakes(c) ==
  /\ lockPhase[c] = "sleep"
  /\ lockPhase' = [lockPhase EXCEPT ![c] = "poll"]
  /\ lockAge' = [lockAge EXCEPT ![c] = IF @ < WaitFor THEN @ + 1 ELSE @]
  /\ UNCHANGED <<tx, locksMade, queue, lockId, lockState, lockResult>>

\* The client goes on to its next lock, in the same transaction.
LockAgain(c) ==
  /\ lockPhase[c] = "done" /\ locksMade < MaxLocks
  /\ lockPhase' = [lockPhase EXCEPT ![c] = "idle"]
  /\ lockId' = [lockId EXCEPT ![c] = 0]
  /\ lockResult' = [lockResult EXCEPT ![c] = "none"]
  /\ UNCHANGED <<tx, locksMade, queue, lockState, lockAge>>

-----------------------------------------------------------------------------
\* A lock nothing before it conflicts with is granted.
Grant(i) ==
  /\ queue[i].state = "pending"
  /\ \A k \in DOMAIN queue : k < i => ~Conflict(queue[k], queue[i])
  /\ queue' = [queue EXCEPT ![i].state = "acquired"]
  /\ UNCHANGED <<tx, locksMade, lockPhase, lockId, lockState, lockAge, lockResult>>

\* A transaction ends, by its owner or by itself, and its locks with it.
TxEnds(c) ==
  /\ tx[c] = "open"
  /\ tx' = [tx EXCEPT ![c] = "ended"]
  /\ queue' = [i \in {k \in DOMAIN queue : queue[k].of # c} |-> queue[i]]
  /\ UNCHANGED <<locksMade, lockPhase, lockId, lockState, lockAge, lockResult>>

LockSteps(c) == LockPolls(c) \/ LockJudges(c) \/ LockWakes(c)

LocksNext ==
  \/ \E c \in Lockers :
       \/ \E mode \in Modes : Lock(c, mode) \/ LockWaiting(c, mode)
       \/ LockSteps(c) \/ LockAgain(c) \/ TxEnds(c)
  \/ \E i \in DOMAIN queue : Grant(i)

LocksSpec == LocksInit /\ [][LocksNext]_lockVars

-----------------------------------------------------------------------------
\* A client told that it has the lock has it for as long as its transaction
\* lives, so no two are told so of locks that exclude each other, however their
\* polls, their waits and the queue interleave.
ToldIsHeld ==
  \A c \in Lockers :
    lockResult[c] = "Ok" /\ tx[c] = "open" =>
      /\ queue[lockId[c]].state = "acquired"
      /\ \A i \in DOMAIN queue :
           queue[i].state = "acquired" => ~Conflict(queue[i], queue[lockId[c]])
=============================================================================
