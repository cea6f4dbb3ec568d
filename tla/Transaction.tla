----------------------------- MODULE Transaction -----------------------------
(***************************************************************************)
(* Master transactions over HTTP: crates/ytsaurus-client/src/transaction.rs *)
(* on the retry loop of retry.rs and `Transport::call_with` of http.rs.    *)
(*                                                                         *)
(* A process holds a transaction through a handle; a thread of its own     *)
(* pings for it.  Requests and answers may be lost, and a request whose    *)
(* attempt has timed out may still arrive later, so mutating commands that *)
(* are repeated carry a mutation id by which the cluster recognises them.  *)
(* Time is abstracted: how long a start takes, whether an attempt times    *)
(* out and when an unpinged transaction expires are choices.               *)
(*                                                                         *)
(* The cluster is external.  It is modelled from what the code relies on:  *)
(* it answers a repeated mutation from its cache while it remembers it     *)
(* (retry.rs:7-10), refuses an unmarked duplicate (retry.rs:228), refuses  *)
(* a commit of a transaction that is gone and accepts such an abort.       *)
(***************************************************************************)
EXTENDS Integers, FiniteSets

CONSTANTS
  Starters,    \* processes that start a transaction
  Attachers,   \* processes that attach to one
  Attempts,    \* attempts of the client's retry policy
  CacheLife,   \* attempts after which the cluster may forget a mutation id
  MaxTx,       \* bound: transactions the cluster creates
  NoTx, NoMutation

Handles == Starters \cup Attachers
Txs     == 1..MaxTx

ASSUME HandlesAssumption == Starters \cap Attachers = {}
ASSUME AttemptsAssumption ==
  Attempts \in Nat \ {0} /\ CacheLife \in Nat /\ MaxTx \in Nat \ {0}
ASSUME NullAssumption ==
  /\ NoTx \notin Txs
  /\ NoMutation \notin Handles \X Nat
  /\ NoMutation \notin Handles \X Nat \X {"start", "commit", "abort"}

VARIABLES
  \* Processes
  pc,        \* what the handle's owner is doing
  id,        \* Transaction::id
  call,      \* the command under way: the state of retry::run
  calls,     \* how many mutating calls the process has made
  result,    \* history: what commit() returned
  decided,   \* history: the process called abort() or aborted by id
  \* Keep-alive threads
  thread,    \* where the thread is in its loop, "none" when there is none
  stop,      \* KeepAlive::stop
  lost,      \* KeepAlive::lost
  \* Cluster and network
  tx,        \* state of each transaction
  maker,     \* history: the mutating call that created, committed or aborted
             \* each transaction
  cache,     \* mutation ids remembered, with the answer each got
  net        \* mutating requests that may still arrive

procVars    == <<pc, id, call, calls, result, decided>>
threadVars  == <<thread, stop, lost>>
clusterVars == <<tx, maker, cache, net>>
vars == <<procVars, threadVars, clusterVars>>

Origin(h) == IF h \in Starters THEN "Started" ELSE "Attached"

NoCall == [cmd |-> "none"]
Answers == {"ok", "gone", "duplicate", "refused", "failed"}

\* An answer is final for retry::run unless it is a transport failure, a
\* timeout or an overloaded cluster, all "failed" here (retry::is_retriable).
IsRetriable(answer) == answer = "failed"

Init ==
  /\ pc = [h \in Handles |-> "none"]
  /\ id = [h \in Handles |-> NoTx]
  /\ call = [h \in Handles |-> NoCall]
  /\ calls = [h \in Handles |-> 0]
  /\ result = [h \in Handles |-> "none"]
  /\ decided = [h \in Handles |-> FALSE]
  /\ thread = [h \in Handles |-> "none"]
  /\ stop = [h \in Handles |-> FALSE]
  /\ lost = [h \in Handles |-> FALSE]
  /\ tx = [t \in Txs |-> "none"]
  /\ maker = [t \in Txs |-> [created |-> NoMutation, ended |-> NoMutation]]
  /\ cache = {}
  /\ net = {}

-----------------------------------------------------------------------------
(***************************************************************************)
(* Commands: Transport::call_with and retry::run.                          *)
(***************************************************************************)
Request(h, c) ==
  [h |-> h, n |-> c.n, attempt |-> c.attempt, cmd |-> c.cmd, tx |-> c.tx,
   mutation |-> c.mutation, retry |-> c.attempt > 1]

Mutates(cmd) == cmd \in {"start", "commit", "abort"}

\* Sends one attempt: a mutating request is on the network from here on, the
\* others only read.  A mutation id stays the same across attempts and only
\* the retry flag changes.
Send(h, c) ==
  /\ call' = [call EXCEPT ![h] = c]
  /\ net' = IF Mutates(c.cmd) THEN net \cup {Request(h, c)} ELSE net

\* Begins a command with a fresh mutation id, when it is one to repeat under.
Begin(h, cmd, t, repeatable, allowed) ==
  /\ calls' = IF Mutates(cmd) THEN [calls EXCEPT ![h] = @ + 1] ELSE calls
  /\ Send(h, [cmd |-> cmd, tx |-> t, n |-> calls'[h], attempt |-> 1, allowed |-> allowed,
              answer |-> "none",
              mutation |-> IF repeatable = "WithMutationId"
                           THEN <<h, calls'[h], cmd>> ELSE NoMutation])

Waiting(h) == call[h] # NoCall /\ call[h].answer = "none"

\* Mutant: a command is repeated for as long as its failure is retriable.
AttemptEndsUnbounded(h, answer) ==
  IF IsRetriable(answer)
  THEN Send(h, call[h])
  ELSE call' = [call EXCEPT ![h].answer = answer] /\ UNCHANGED net

\* One attempt ends; retry::run decides whether another follows.
AttemptEnds(h, answer) ==
  IF IsRetriable(answer) /\ call[h].attempt < call[h].allowed
  THEN Send(h, [call[h] EXCEPT !.attempt = @ + 1])
  ELSE call' = [call EXCEPT ![h].answer = answer] /\ UNCHANGED net

\* The attempt times out, or its connection breaks.  Its request may still be
\* under way.
AttemptFails(h) ==
  /\ Waiting(h)
  /\ AttemptEnds(h, "failed")
  /\ UNCHANGED <<pc, id, calls, result, decided, threadVars, tx, maker, cache>>

\* A read (`get` of the timeout, a ping) is answered.
AnswerRead(h) ==
  /\ Waiting(h)
  /\ ~Mutates(call[h].cmd)
  /\ AttemptEnds(h, IF tx[call[h].tx] = "open" THEN "ok" ELSE "gone")
  /\ UNCHANGED <<pc, id, calls, result, decided, threadVars, tx, maker, cache>>

-----------------------------------------------------------------------------
(***************************************************************************)
(* The cluster.                                                            *)
(***************************************************************************)
\* The process that sent r is told, unless it has stopped waiting for that
\* attempt or the answer is lost on its way.
Reply(r, answer, t) ==
  \/ /\ Waiting(r.h) /\ call[r.h].cmd = r.cmd /\ call[r.h].n = r.n
     /\ call[r.h].attempt = r.attempt
     /\ call' = [call EXCEPT ![r.h].answer = answer, ![r.h].tx = t]
  \/ UNCHANGED call

Call(r) == <<r.h, r.n>>

Remember(r, answer, t) ==
  cache' = IF r.mutation = NoMutation THEN cache
           ELSE cache \cup {[mutation |-> r.mutation, answer |-> answer, tx |-> t]}

Known(r) == \E e \in cache : e.mutation = r.mutation

\* A request the cluster has not seen, or has forgotten, is applied.
ApplyStart(r) ==
  /\ r.cmd = "start"
  /\ \E t \in Txs :
       /\ tx[t] = "none" /\ \A u \in Txs : u < t => tx[u] # "none"
       /\ tx' = [tx EXCEPT ![t] = "open"]
       /\ maker' = [maker EXCEPT ![t].created = Call(r)]
       /\ Remember(r, "ok", t)
       /\ Reply(r, "ok", t)

ApplyCommit(r) ==
  /\ r.cmd = "commit"
  /\ IF tx[r.tx] = "open"
     THEN /\ tx' = [tx EXCEPT ![r.tx] = "committed"]
          /\ maker' = [maker EXCEPT ![r.tx].ended = Call(r)]
          /\ Remember(r, "ok", r.tx)
          /\ Reply(r, "ok", r.tx)
     ELSE /\ UNCHANGED <<tx, maker>>
          /\ Remember(r, "gone", r.tx)
          /\ Reply(r, "gone", r.tx)

ApplyAbort(r) ==
  /\ r.cmd = "abort"
  /\ IF tx[r.tx] = "open"
     THEN /\ tx' = [tx EXCEPT ![r.tx] = "aborted"]
          /\ maker' = [maker EXCEPT ![r.tx].ended = Call(r)]
     ELSE UNCHANGED <<tx, maker>>
  /\ Remember(r, "ok", r.tx)
  /\ Reply(r, "ok", r.tx)

\* The request is turned down (access, limits, a lock) and the refusal is the
\* response that is kept.
Refuse(r) ==
  /\ Remember(r, "refused", r.tx)
  /\ Reply(r, "refused", r.tx)
  /\ UNCHANGED <<tx, maker>>

Deliver(r) ==
  /\ r \in net
  /\ net' = net \ {r}
  /\ IF Known(r)
     THEN /\ \E e \in cache : /\ e.mutation = r.mutation
                              /\ IF r.retry THEN Reply(r, e.answer, e.tx)
                                 ELSE Reply(r, "duplicate", r.tx)
          /\ UNCHANGED <<tx, maker, cache>>
     ELSE ApplyStart(r) \/ ApplyCommit(r) \/ ApplyAbort(r) \/ Refuse(r)
  /\ UNCHANGED <<pc, id, calls, result, decided, threadVars>>

\* "The cluster keeps the first response for five to ten minutes": once its
\* process has gone through CacheLife attempts it may be forgotten.
Forget(e) ==
  /\ e \in cache
  /\ LET h == e.mutation[1] IN
       call[h] # NoCall /\ call[h].mutation = e.mutation /\ call[h].attempt > CacheLife
  /\ cache' = cache \ {e}
  /\ UNCHANGED <<procVars, threadVars, tx, maker, net>>

\* A transaction whose pings do not arrive expires.
Expire(t) ==
  /\ tx[t] = "open"
  /\ tx' = [tx EXCEPT ![t] = "aborted"]
  /\ UNCHANGED <<procVars, threadVars, maker, cache, net>>

-----------------------------------------------------------------------------
(***************************************************************************)
(* The keep-alive thread.                                                  *)
(***************************************************************************)
\* `held`: the thread may fail to spawn, and the handle then lives without.
Spawn(h) == \E how \in {"wait", "none"} : thread' = [thread EXCEPT ![h] = how]

StopPinging(h) == stop' = [stop EXCEPT ![h] = TRUE]

\* The wait ends, by its timeout or by the condvar; the flag is checked on
\* both sides of it, under the lock, so no wake is lost.
ThreadWakes(h) ==
  /\ thread[h] = "wait"
  /\ thread' = [thread EXCEPT ![h] = IF stop[h] THEN "none" ELSE "ping"]
  /\ UNCHANGED <<procVars, stop, lost, clusterVars>>

\* One attempt, with no retries: a failed ping is retried by the next one, and
\* only "no such transaction" is final.
ThreadPings(h) ==
  /\ thread[h] = "ping"
  /\ \E answer \in {"failed", IF tx[id[h]] = "open" THEN "ok" ELSE "gone"} :
       IF answer = "gone"
       THEN /\ lost' = [lost EXCEPT ![h] = TRUE]
            /\ thread' = [thread EXCEPT ![h] = "none"]
       ELSE /\ thread' = [thread EXCEPT ![h] = IF stop[h] THEN "none" ELSE "wait"]
            /\ UNCHANGED lost
  /\ UNCHANGED <<procVars, stop, clusterVars>>

-----------------------------------------------------------------------------
(***************************************************************************)
(* Handles.                                                                *)
(***************************************************************************)
Goto(h, step) == pc' = [pc EXCEPT ![h] = step]
Finished(h, step) == pc[h] = step /\ call[h] # NoCall /\ call[h].answer # "none"
Ok(h) == call[h].answer = "ok"
HangUp(h) == call' = [call EXCEPT ![h] = NoCall]

\* Mutant: a start that is repeated without a mutation id.
StartUnmarked(h) ==
  /\ h \in Starters /\ pc[h] = "none"
  /\ Begin(h, "start", NoTx, "Freely", Attempts)
  /\ Goto(h, "starting")
  /\ UNCHANGED <<id, result, decided, threadVars, tx, maker, cache>>

Start(h) ==
  /\ h \in Starters /\ pc[h] = "none"
  /\ Begin(h, "start", NoTx, "WithMutationId", Attempts)
  /\ Goto(h, "starting")
  /\ UNCHANGED <<id, result, decided, threadVars, tx, maker, cache>>

\* A quick start is held at once.  A slow one is pinged before it is returned,
\* with the keep-alive already running.
Started(h) ==
  /\ Finished(h, "starting") /\ Ok(h)
  /\ id' = [id EXCEPT ![h] = call[h].tx]
  /\ Spawn(h)
  /\ \/ Goto(h, "held") /\ HangUp(h) /\ UNCHANGED <<calls, net>>
     \/ Goto(h, "firstPing") /\ Begin(h, "ping", call[h].tx, "Freely", Attempts)
  /\ UNCHANGED <<result, decided, stop, lost, tx, maker, cache>>

StartFailed(h) ==
  /\ Finished(h, "starting") /\ ~Ok(h)
  /\ Goto(h, "gone") /\ HangUp(h)
  /\ UNCHANGED <<id, calls, result, decided, threadVars, clusterVars>>

\* Drop of a started handle: one attempt to abort, the thread pinging if it is
\* still there.
BeginDropAbort(h) ==
  /\ Begin(h, "abort", id[h], "WithMutationId", 1)
  /\ Goto(h, "dropAbort")

FirstPing(h) ==
  /\ Finished(h, "firstPing")
  /\ IF Ok(h) THEN Goto(h, "held") /\ HangUp(h) /\ UNCHANGED <<calls, net>>
     ELSE BeginDropAbort(h)
  /\ UNCHANGED <<id, result, decided, threadVars, tx, maker, cache>>

\* The id reaches the attacher from a process that holds or held it.
Attach(h) ==
  /\ h \in Attachers /\ pc[h] = "none"
  /\ \E s \in Starters :
       /\ id[s] # NoTx
       /\ id' = [id EXCEPT ![h] = id[s]]
       /\ Begin(h, "get", id[s], "Freely", Attempts)
  /\ Goto(h, "attachGet")
  /\ UNCHANGED <<result, decided, threadVars, tx, maker, cache>>

AttachGot(h) ==
  /\ Finished(h, "attachGet")
  /\ IF Ok(h) THEN Begin(h, "ping", id[h], "Freely", Attempts) /\ Goto(h, "attachPing")
     ELSE Goto(h, "gone") /\ HangUp(h) /\ UNCHANGED <<calls, net>>
  /\ UNCHANGED <<id, result, decided, threadVars, tx, maker, cache>>

AttachPinged(h) ==
  /\ Finished(h, "attachPing")
  /\ IF Ok(h) THEN Goto(h, "held") /\ Spawn(h) ELSE Goto(h, "gone") /\ UNCHANGED thread
  /\ HangUp(h)
  /\ UNCHANGED <<id, calls, result, decided, stop, lost, clusterVars>>

\* Mutant: a commit that is repeated without a mutation id.
CommitUnmarked(h) ==
  /\ pc[h] \in {"held", "detached"}
  /\ Begin(h, "commit", id[h], "Freely", Attempts)
  /\ Goto(h, IF pc[h] = "held" THEN "commit" ELSE "commitById")
  /\ UNCHANGED <<id, result, decided, threadVars, tx, maker, cache>>

\* `commit()`, and `Client::commit_transaction` on a bare id.
Commit(h) ==
  /\ pc[h] \in {"held", "detached"}
  /\ Begin(h, "commit", id[h], "WithMutationId", Attempts)
  /\ Goto(h, IF pc[h] = "held" THEN "commit" ELSE "commitById")
  /\ UNCHANGED <<id, result, decided, threadVars, tx, maker, cache>>

\* finish("commit_transaction") returns: the pings stop either way.  The handle
\* is dropped: a success left it done; a failure makes a started handle abort
\* and an attached one let go.
Committed(h) ==
  /\ Finished(h, "commit")
  /\ result' = [result EXCEPT ![h] = call[h].answer]
  /\ StopPinging(h)
  /\ IF Ok(h) \/ Origin(h) = "Attached"
     THEN Goto(h, "gone") /\ HangUp(h) /\ UNCHANGED <<calls, net>>
     ELSE BeginDropAbort(h)
  /\ UNCHANGED <<id, decided, thread, lost, tx, maker, cache>>

CommittedById(h) ==
  /\ Finished(h, "commitById")
  /\ result' = [result EXCEPT ![h] = call[h].answer]
  /\ Goto(h, "gone") /\ HangUp(h)
  /\ UNCHANGED <<id, calls, decided, threadVars, clusterVars>>

\* `abort()` under a mutation id, `Client::abort_transaction` without.
Abort(h) ==
  /\ pc[h] \in {"held", "detached"}
  /\ decided' = [decided EXCEPT ![h] = TRUE]
  /\ Begin(h, "abort", id[h], IF pc[h] = "held" THEN "WithMutationId" ELSE "Freely", Attempts)
  /\ Goto(h, IF pc[h] = "held" THEN "abort" ELSE "abortById")
  /\ UNCHANGED <<id, result, threadVars, tx, maker, cache>>

\* An abort is finished whatever came back.
Aborted(h) ==
  /\ Finished(h, "abort") \/ Finished(h, "dropAbort") \/ Finished(h, "abortById")
  /\ StopPinging(h)
  /\ Goto(h, "gone") /\ HangUp(h)
  /\ UNCHANGED <<id, calls, result, decided, thread, lost, clusterVars>>

\* Mutant: Drop aborts whatever the origin.
DropAnyOrigin(h) ==
  /\ pc[h] = "held"
  /\ BeginDropAbort(h)
  /\ UNCHANGED <<id, result, decided, threadVars, tx, maker, cache>>

\* Mutant: an attached handle is dropped without stopping its pings.
DropStillPinging(h) ==
  /\ pc[h] = "held"
  /\ IF Origin(h) = "Attached" THEN Goto(h, "gone") /\ UNCHANGED <<call, calls, net>>
     ELSE BeginDropAbort(h)
  /\ UNCHANGED <<id, result, decided, threadVars, tx, maker, cache>>

\* The handle goes out of scope, by a `?` or at the end of a block.
Drop(h) ==
  /\ pc[h] = "held"
  /\ IF Origin(h) = "Attached"
     THEN StopPinging(h) /\ Goto(h, "gone") /\ UNCHANGED <<call, calls, net>>
     ELSE BeginDropAbort(h) /\ UNCHANGED stop
  /\ UNCHANGED <<id, result, decided, thread, lost, tx, maker, cache>>

\* Mutant: detach lets the thread ping on.
DetachStillPinging(h) ==
  /\ pc[h] = "held"
  /\ Goto(h, "joining")
  /\ UNCHANGED <<id, call, calls, result, decided, threadVars, clusterVars>>

\* `detach`: stop, then wait for the thread, but not for ever.
Detach(h) ==
  /\ pc[h] = "held"
  /\ StopPinging(h)
  /\ Goto(h, "joining")
  /\ UNCHANGED <<id, call, calls, result, decided, thread, lost, clusterVars>>

\* The thread has exited, or DETACH_JOIN_TIMEOUT has passed.
Detached(h) ==
  /\ pc[h] = "joining"
  /\ Goto(h, "detached")
  /\ UNCHANGED <<id, call, calls, result, decided, threadVars, clusterVars>>

\* The process dies, and its thread with it.
Crash(h) ==
  /\ pc[h] \notin {"none", "gone"}
  /\ Goto(h, "gone") /\ HangUp(h)
  /\ thread' = [thread EXCEPT ![h] = "none"]
  /\ UNCHANGED <<id, calls, result, decided, stop, lost, clusterVars>>

-----------------------------------------------------------------------------
CallStep(h) == AttemptFails(h) \/ AnswerRead(h)
ThreadStep(h) == ThreadWakes(h) \/ ThreadPings(h)
HandleReturns(h) ==
  \/ Started(h) \/ StartFailed(h) \/ FirstPing(h) \/ AttachGot(h) \/ AttachPinged(h)
  \/ Committed(h) \/ CommittedById(h) \/ Aborted(h) \/ Detached(h)
HandleActs(h) ==
  Start(h) \/ Attach(h) \/ Commit(h) \/ Abort(h) \/ Drop(h) \/ Detach(h) \/ Crash(h)

Next ==
  \/ \E h \in Handles : CallStep(h) \/ ThreadStep(h) \/ HandleReturns(h) \/ HandleActs(h)
  \/ \E r \in net : Deliver(r)
  \/ \E e \in cache : Forget(e)
  \/ \E t \in Txs : Expire(t)

Spec == Init /\ [][Next]_vars

Pinged(t) == \E h \in Handles : id[h] = t /\ thread[h] \in {"wait", "ping"}

\* Attempts end and threads run; a transaction nobody pings expires.  Nothing
\* is assumed of the network or of what a process decides to do.
Fairness ==
  /\ \A h \in Handles : /\ WF_vars(AttemptFails(h) \/ HandleReturns(h))
                        /\ WF_vars(ThreadStep(h))
  /\ \A t \in Txs : WF_vars(~Pinged(t) /\ Expire(t))

FairSpec == Spec /\ Fairness

-----------------------------------------------------------------------------
(***************************************************************************)
(* Safety.                                                                 *)
(***************************************************************************)

\* The commit that published t is one this process sent.
PublishedBy(h, t) == tx[t] = "committed" /\ maker[t].ended[1] = h

\* A commit that returns Ok has published the handle's transaction, whatever
\* was lost, late or repeated on the way.
OkMeansPublished == \A h \in Handles : result[h] = "ok" => tx[id[h]] = "committed"

\* "a second one is refused with `No such transaction`, which reads as if the
\* first failed": a process is never told so of a commit of its own that was
\* applied.
RefusalIsTruthful ==
  \A h \in Handles : result[h] \in {"gone", "duplicate", "refused"} => ~PublishedBy(h, id[h])

\* What a commit answers is true of the transaction, in both directions.
CommitAnswersAreTrue == OkMeansPublished /\ RefusalIsTruthful

\* "a retried start cannot leave an orphan transaction": one start, however
\* often its request arrives, creates one transaction.
OneTransactionPerStart ==
  \A t, u \in Txs : tx[t] # "none" /\ tx[u] # "none"
                      /\ maker[t].created = maker[u].created => t = u

\* An attacher's `?` cannot destroy the starter's work: a transaction aborted
\* by an attached process was aborted because it asked for that.
AttachedNeverAborts ==
  \A t \in Txs : tx[t] = "aborted" /\ maker[t].ended # NoMutation =>
    LET h == maker[t].ended[1] IN h \in Attachers => decided[h]

\* The keep-alive gives up only on a transaction that cannot come back: a lost
\* ping, a slow one or a busy cluster never makes is_lost() true.
LostIsTrue == \A h \in Handles : lost[h] => tx[id[h]] \in {"committed", "aborted"}

\* Whichever way a handle goes (commit, abort, drop, detach, crash, a first
\* ping that failed), its keep-alive has been told to stop or has ended, so a
\* process that lets go of a transaction does not keep it alive.
GoneMeansStopped ==
  \A h \in Handles : pc[h] \in {"detached", "commitById", "abortById", "gone"} =>
    stop[h] \/ thread[h] = "none"

\* The keep-alive ends neither too early, on a transaction that is still there, nor
\* too late, after its handle.
KeepAliveIsTrue == LostIsTrue /\ GoneMeansStopped

-----------------------------------------------------------------------------
(***************************************************************************)
(* Claims of the source that the code does not meet (see README).          *)
(***************************************************************************)
\* "The handle is consumed either way and `Drop` then aborts, so nothing is
\* published": a commit that returns an error has published nothing.
FailedCommitPublishesNothing ==
  \A h \in Handles : result[h] \notin {"none", "ok"} => ~PublishedBy(h, id[h])

-----------------------------------------------------------------------------
(***************************************************************************)
(* Liveness, under FairSpec.                                               *)
(***************************************************************************)
\* Nothing is held for ever: once the handles of a transaction are gone, by
\* whichever way (commit, abort, drop, detach, crash, a failed start), it ends
\* or somebody holds it again.  A keep-alive thread left running would hold it.
TransactionsEnd ==
  \A t \in Txs :
    LET Held == \E h \in Handles : id[h] = t /\ pc[h] \notin {"detached", "gone"}
    IN (tx[t] = "open" /\ ~Held) ~> (tx[t] # "open" \/ Held)

\* Retries are bounded: every command under way returns to its process even if
\* no request ever gets through.
CommandsReturn == \A h \in Handles : Waiting(h) ~> ~Waiting(h)
=============================================================================
