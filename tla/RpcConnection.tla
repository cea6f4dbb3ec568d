---------------------------- MODULE RpcConnection ----------------------------
(***************************************************************************)
(* The connection actor of crates/ytsaurus-rpc/src/connection.rs.          *)
(*                                                                         *)
(* One socket carries many concurrent calls.  Callers run `invoke_raw`     *)
(* concurrently; a writer task drains two bounded channels (requests and   *)
(* cancellations), a reader task routes answers to the callers by request  *)
(* id.  A semaphore bounds the calls in flight; the permit of an abandoned *)
(* call travels with its cancellation packet.  Every `await` of the code   *)
(* is a place where another process may run, and where the caller may drop *)
(* the future, so every stretch between two awaits is one action here.     *)
(*                                                                         *)
(* The proxy at the other end is external.  It is modelled from how this   *)
(* code uses it: it accepts requests in the order they are written, works  *)
(* on each until it answers it or a cancellation for it arrives, and may   *)
(* stop reading.                                                           *)
(***************************************************************************)
EXTENDS Integers, Sequences, FiniteSets, Functions

CONSTANTS
  Callers,        \* tasks that call `invoke_raw`, one call at a time each
  Deadlined,      \* the callers that pass a timeout
  MaxInFlight,    \* MAX_IN_FLIGHT, and so CANCEL_QUEUE
  OutboundQueue,  \* OUTBOUND_QUEUE
  MaxCalls,       \* bound: calls per caller
  MaxTotal,       \* bound: calls of all callers together
  MayStall        \* whether the proxy may stop reading its socket

ASSUME CallersAssumption == IsFiniteSet(Callers) /\ Deadlined \subseteq Callers
ASSUME BoundsAssumption == /\ MaxInFlight \in Nat \ {0}
                           /\ OutboundQueue \in Nat \ {0}
                           /\ MaxCalls \in Nat /\ MaxTotal \in Nat
                           /\ MayStall \in BOOLEAN

VARIABLES
  \* Callers
  pc,             \* where each caller is inside `invoke_raw`
  seq,            \* how many calls it has started: its current request id
  outcome,        \* history: how each call ended
  \* Shared by callers and tasks
  permits,        \* permits available in the `in_flight` semaphore
  semClosed,      \* `in_flight.close()` was called
  pending,        \* request ids in `Waiters::by_request`
  waitersClosed,  \* `Waiters::closed`
  delivered,      \* ids whose oneshot holds an answer not yet read
  removals,       \* ids that a spawned removal task has yet to remove
  leaked,         \* history: ids whose removal was skipped by `try_lock`
  outbound,       \* channel of requests: a sequence of ids
  cancels,        \* channel of cancellations: a sequence of ids
  \* Tasks
  task,           \* where the reader and the writer task are
  outgoing,       \* what the writer has taken from a channel and is sending
  closed,         \* `Connection::closed`
  alive,          \* the `Connection` value has not been dropped
  \* The proxy and the network
  accepted,       \* history: ids whose request reached the proxy
  work,           \* ids the proxy is working on
  answers,        \* answers on their way to the reader
  stalled         \* the proxy has stopped reading

callerVars == <<pc, seq, outcome>>
sharedVars == <<permits, semClosed, pending, waitersClosed, delivered,
                removals, leaked, outbound, cancels>>
taskVars   == <<task, outgoing, closed, alive>>
proxyVars  == <<accepted, work, answers, stalled>>
vars == <<callerVars, sharedVars, taskVars, proxyVars>>

CancelQueue == MaxInFlight

Ids     == Callers \X (1..MaxCalls)
Cur(c)  == <<c, seq[c]>>

Steps    == {"idle", "permit", "register", "queue", "wait"}
Outcomes == {"none", "answer", "closed", "timeout", "dropped"}

\* A caller owns a permit from the acquisition to its return.
HoldsPermit(c) == pc[c] \in {"register", "queue", "wait"}
\* The guard is armed once the entry is in the map.
Armed(c) == pc[c] \in {"queue", "wait"}

Nothing == [kind |-> "nothing"]
Packets == [kind : {"request", "cancel"}, id : Ids]
TaskSteps == {"select", "polled", "send", "receive", "mark", "closeWaiters",
             "shutdown", "ended", "aborted"}

Init ==
  /\ pc = [c \in Callers |-> "idle"]
  /\ seq = [c \in Callers |-> 0]
  /\ outcome = [i \in Ids |-> "none"]
  /\ permits = MaxInFlight
  /\ semClosed = FALSE
  /\ pending = {}
  /\ waitersClosed = FALSE
  /\ delivered = {}
  /\ removals = {}
  /\ leaked = {}
  /\ outbound = <<>>
  /\ cancels = <<>>
  /\ task = [t \in {"reader", "writer"} |->
               IF t = "reader" THEN "receive" ELSE "select"]
  /\ outgoing = Nothing
  /\ closed = FALSE
  /\ alive = TRUE
  /\ accepted = {}
  /\ work = {}
  /\ answers = {}
  /\ stalled = FALSE

-----------------------------------------------------------------------------
(***************************************************************************)
(* Callers: invoke_raw and the PendingGuard.                               *)
(***************************************************************************)
Goto(c, step) == pc' = [pc EXCEPT ![c] = step]

Return(c, o) ==
  /\ Goto(c, "idle")
  /\ outcome' = [outcome EXCEPT ![Cur(c)] = o]

\* A call borrows the connection, so it needs a live one; every call draws a
\* fresh random request id.
Call(c) ==
  /\ alive
  /\ pc[c] = "idle"
  /\ seq[c] < MaxCalls
  /\ Cardinality({i \in Ids : i[2] <= seq[i[1]]}) < MaxTotal
  /\ seq' = [seq EXCEPT ![c] = @ + 1]
  /\ Goto(c, "permit")
  /\ UNCHANGED <<outcome, sharedVars, taskVars, proxyVars>>

AcquirePermit(c) ==
  /\ pc[c] = "permit"
  /\ ~semClosed
  /\ permits > 0
  /\ permits' = permits - 1
  /\ Goto(c, "register")
  /\ UNCHANGED <<seq, outcome, semClosed, pending, waitersClosed, delivered,
                 removals, leaked, outbound, cancels, taskVars, proxyVars>>

AcquireClosed(c) ==
  /\ pc[c] = "permit"
  /\ semClosed
  /\ Return(c, "closed")
  /\ UNCHANGED <<seq, sharedVars, taskVars, proxyVars>>

\* `timeout_at` polls the acquisition before the clock: it reports a timeout
\* only when there is no permit to have.
AcquireTimeout(c) ==
  /\ pc[c] = "permit"
  /\ c \in Deadlined
  /\ ~semClosed
  /\ permits = 0
  /\ Return(c, "timeout")
  /\ UNCHANGED <<seq, sharedVars, taskVars, proxyVars>>

\* Mutant: the closed flag is not looked at under the lock.
RegisterUnchecked(c) ==
  /\ pc[c] = "register"
  /\ pending' = pending \cup {Cur(c)}
  /\ Goto(c, "queue")
  /\ UNCHANGED <<seq, outcome, permits, semClosed, waitersClosed, delivered,
                 removals, leaked, outbound, cancels, taskVars, proxyVars>>

\* Under the lock of `Waiters`: refuse on a closed connection, else insert.
Register(c) ==
  /\ pc[c] = "register"
  /\ ~waitersClosed
  /\ pending' = pending \cup {Cur(c)}
  /\ Goto(c, "queue")
  /\ UNCHANGED <<seq, outcome, permits, semClosed, waitersClosed, delivered,
                 removals, leaked, outbound, cancels, taskVars, proxyVars>>

RegisterClosed(c) ==
  /\ pc[c] = "register"
  /\ waitersClosed
  /\ permits' = permits + 1
  /\ Return(c, "closed")
  /\ UNCHANGED <<seq, semClosed, pending, waitersClosed, delivered, removals,
                 leaked, outbound, cancels, taskVars, proxyVars>>

ReceiversGone == task["writer"] = "ended"

\* Mutant: an unbounded outbound channel.
EnqueueUnbounded(c) ==
  /\ pc[c] = "queue"
  /\ ~ReceiversGone
  /\ outbound' = Append(outbound, Cur(c))
  /\ Goto(c, "wait")
  /\ UNCHANGED <<seq, outcome, permits, semClosed, pending, waitersClosed,
                 delivered, removals, leaked, cancels, taskVars, proxyVars>>

Enqueue(c) ==
  /\ pc[c] = "queue"
  /\ ~ReceiversGone
  /\ Len(outbound) < OutboundQueue
  /\ outbound' = Append(outbound, Cur(c))
  /\ Goto(c, "wait")
  /\ UNCHANGED <<seq, outcome, permits, semClosed, pending, waitersClosed,
                 delivered, removals, leaked, cancels, taskVars, proxyVars>>

\* Mutant: the map entry is left behind.
RemoveEntryNever(id, how) ==
  how = "spawned" /\ UNCHANGED <<pending, removals, leaked>>

\* `PendingGuard::drop`, first half: the map entry.  Inside a runtime the
\* removal is spawned; outside one it happens at once, or not at all when
\* somebody else holds the lock.
RemoveEntry(id, how) ==
  \/ /\ how = "spawned"
     /\ removals' = removals \cup {id}
     /\ UNCHANGED <<pending, leaked>>
  \/ /\ how = "locked"
     /\ pending' = pending \ {id}
     /\ UNCHANGED <<removals, leaked>>
  \/ /\ how = "contended"
     /\ leaked' = leaked \cup {id}
     /\ UNCHANGED <<pending, removals>>

\* Mutant: the permit is released when the cancellation is queued, not when it
\* is written.
ReleaseAndCancel(c) ==
  /\ permits' = permits + 1
  /\ IF pc[c] = "wait" /\ ~ReceiversGone /\ Len(cancels) < CancelQueue
     THEN cancels' = Append(cancels, Cur(c)) ELSE UNCHANGED cancels

\* Second half: a request that was queued is cancelled, its permit moving with
\* the packet.  A `try_send` that fails drops the packet and the permit.
ReleaseOrCancel(c) ==
  IF pc[c] = "wait" /\ ~ReceiversGone /\ Len(cancels) < CancelQueue
  THEN cancels' = Append(cancels, Cur(c)) /\ UNCHANGED permits
  ELSE permits' = permits + 1 /\ UNCHANGED cancels

GuardDrop(c, how) ==
  /\ RemoveEntry(Cur(c), how)
  /\ ReleaseOrCancel(c)
  /\ delivered' = delivered \ {Cur(c)}
  /\ UNCHANGED <<semClosed, waitersClosed, outbound>>

EnqueueClosed(c) ==
  /\ pc[c] = "queue"
  /\ ReceiversGone
  /\ GuardDrop(c, "spawned")
  /\ Return(c, "closed")
  /\ UNCHANGED <<seq, taskVars, proxyVars>>

\* Mutant: the deadline starts once the request is queued.
EnqueueTimeoutNever(c) == FALSE /\ UNCHANGED vars

EnqueueTimeout(c) ==
  /\ pc[c] = "queue"
  /\ c \in Deadlined
  /\ ~ReceiversGone
  /\ Len(outbound) >= OutboundQueue
  /\ GuardDrop(c, "spawned")
  /\ Return(c, "timeout")
  /\ UNCHANGED <<seq, taskVars, proxyVars>>

\* Mutant: the guard is not stood down by an answer.
TakeAnswerArmed(c) ==
  /\ pc[c] = "wait"
  /\ Cur(c) \in delivered
  /\ GuardDrop(c, "spawned")
  /\ Return(c, "answer")
  /\ UNCHANGED <<seq, taskVars, proxyVars>>

\* The answer is in hand: the guard is stood down and its permit released.  An
\* answer that carries an error is an answer.
TakeAnswer(c) ==
  /\ pc[c] = "wait"
  /\ Cur(c) \in delivered
  /\ delivered' = delivered \ {Cur(c)}
  /\ permits' = permits + 1
  /\ Return(c, "answer")
  /\ UNCHANGED <<seq, semClosed, pending, waitersClosed, removals, leaked,
                 outbound, cancels, taskVars, proxyVars>>

\* The oneshot's sender was dropped without an answer.
SenderGone(c) == Cur(c) \notin pending /\ Cur(c) \notin delivered

TakeClosed(c) ==
  /\ pc[c] = "wait"
  /\ SenderGone(c)
  /\ permits' = permits + 1
  /\ Return(c, "closed")
  /\ UNCHANGED <<seq, semClosed, pending, waitersClosed, delivered, removals,
                 leaked, outbound, cancels, taskVars, proxyVars>>

WaitTimeout(c) ==
  /\ pc[c] = "wait"
  /\ c \in Deadlined
  /\ Cur(c) \notin delivered
  /\ ~SenderGone(c)
  /\ GuardDrop(c, "spawned")
  /\ Return(c, "timeout")
  /\ UNCHANGED <<seq, taskVars, proxyVars>>

\* The caller drops the future at one of its awaits.
DropUnarmed(c) ==
  /\ pc[c] \in {"permit", "register"}
  /\ permits' = IF HoldsPermit(c) THEN permits + 1 ELSE permits
  /\ Return(c, "dropped")
  /\ UNCHANGED <<seq, semClosed, pending, waitersClosed, delivered, removals,
                 leaked, outbound, cancels, taskVars, proxyVars>>

DropArmed(c) ==
  /\ Armed(c)
  /\ \E how \in {"spawned", "locked", "contended"} : GuardDrop(c, how)
  /\ Return(c, "dropped")
  /\ UNCHANGED <<seq, taskVars, proxyVars>>

\* A removal task spawned by a guard runs.
RunRemoval(id) ==
  /\ id \in removals
  /\ removals' = removals \ {id}
  /\ pending' = pending \ {id}
  /\ UNCHANGED <<callerVars, permits, semClosed, waitersClosed, delivered,
                 leaked, outbound, cancels, taskVars, proxyVars>>

-----------------------------------------------------------------------------
(***************************************************************************)
(* The writer task.                                                        *)
(***************************************************************************)
TaskGoto(t, step) == task' = [task EXCEPT ![t] = step]

\* `select!` is biased: the cancellations are polled first.  The two polls are
\* not one atomic step, so a request may still be taken after a cancellation
\* has arrived behind the first poll.
PollCancels ==
  /\ task["writer"] = "select"
  /\ IF cancels = <<>>
     THEN TaskGoto("writer", "polled") /\ UNCHANGED <<cancels, outgoing>>
     ELSE /\ TaskGoto("writer", "send")
          /\ outgoing' = [kind |-> "cancel", id |-> Head(cancels)]
          /\ cancels' = Tail(cancels)
  /\ UNCHANGED <<callerVars, permits, semClosed, pending, waitersClosed,
                 delivered, removals, leaked, outbound, closed, alive,
                 proxyVars>>

PollOutbound ==
  /\ task["writer"] = "polled"
  /\ outbound # <<>>
  /\ TaskGoto("writer", "send")
  /\ outgoing' = [kind |-> "request", id |-> Head(outbound)]
  /\ outbound' = Tail(outbound)
  /\ UNCHANGED <<callerVars, permits, semClosed, pending, waitersClosed,
                 delivered, removals, leaked, cancels, closed, alive,
                 proxyVars>>

\* A parked `select!` is woken by a cancellation and polls again.
Repoll ==
  /\ task["writer"] = "polled"
  /\ cancels # <<>>
  /\ TaskGoto("writer", "select")
  /\ UNCHANGED <<callerVars, sharedVars, outgoing, closed, alive, proxyVars>>

\* The `else` branch: both channels are drained and have no sender left.
SendersGone ==
  /\ task["writer"] = "polled"
  /\ ~alive /\ cancels = <<>> /\ outbound = <<>>
  /\ TaskGoto("writer", "mark")
  /\ UNCHANGED <<callerVars, sharedVars, outgoing, closed, alive, proxyVars>>

\* The permit inside a cancellation is released when the packet is dropped,
\* after its write.
ReleaseOutgoing ==
  permits' = IF outgoing.kind = "cancel" THEN permits + 1 ELSE permits

\* The packet reaches the proxy.  A request starts work there, a cancellation
\* stops it, and one for an id the proxy does not know is ignored.
WriteDone ==
  /\ task["writer"] = "send"
  /\ ~stalled
  /\ TaskGoto("writer", "select")
  /\ ReleaseOutgoing
  /\ outgoing' = Nothing
  /\ IF outgoing.kind = "request"
     THEN accepted' = accepted \cup {outgoing.id} /\ work' = work \cup {outgoing.id}
     ELSE work' = work \ {outgoing.id} /\ UNCHANGED accepted
  /\ UNCHANGED <<callerVars, semClosed, pending, waitersClosed, delivered,
                 removals, leaked, outbound, cancels, closed, alive, answers,
                 stalled>>

WriteFail ==
  /\ task["writer"] = "send"
  /\ TaskGoto("writer", "mark")
  /\ ReleaseOutgoing
  /\ outgoing' = Nothing
  /\ UNCHANGED <<callerVars, semClosed, pending, waitersClosed, delivered,
                 removals, leaked, outbound, cancels, closed, alive, proxyVars>>

\* The writer returns: its receivers go, and with them what they hold.
EndWriter ==
  /\ task["writer"] = "shutdown"
  /\ TaskGoto("writer", "ended")
  /\ permits' = permits + Len(cancels)
  /\ cancels' = <<>>
  /\ outbound' = <<>>
  /\ UNCHANGED <<callerVars, semClosed, pending, waitersClosed, delivered,
                 removals, leaked, outgoing, closed, alive, proxyVars>>

-----------------------------------------------------------------------------
(***************************************************************************)
(* The reader task, and the tail both tasks share.                         *)
(***************************************************************************)

\* Acks, undecodable packets and answers without a request id are skipped and
\* change nothing.  The send on the oneshot fails when the caller has gone.
Receive(id) ==
  /\ task["reader"] = "receive"
  /\ id \in answers
  /\ answers' = answers \ {id}
  /\ pending' = pending \ {id}
  /\ delivered' = IF id \in pending /\ Armed(id[1]) /\ Cur(id[1]) = id
                  THEN delivered \cup {id} ELSE delivered
  /\ UNCHANGED <<callerVars, permits, semClosed, waitersClosed, removals,
                 leaked, outbound, cancels, taskVars, accepted, work, stalled>>

\* End of stream, a corrupted packet, or a reset.
ReceiveFail ==
  /\ task["reader"] = "receive"
  /\ TaskGoto("reader", "mark")
  /\ UNCHANGED <<callerVars, sharedVars, outgoing, closed, alive, proxyVars>>

\* Mutant: `closed` is not set before the callers are woken.
MarkClosedLate(t) ==
  /\ task[t] = "mark"
  /\ semClosed' = TRUE
  /\ TaskGoto(t, "closeWaiters")
  /\ UNCHANGED <<callerVars, permits, pending, waitersClosed, delivered,
                 removals, leaked, outbound, cancels, outgoing, closed, alive,
                 proxyVars>>

\* No await separates the flag from the semaphore.
MarkClosed(t) ==
  /\ task[t] = "mark"
  /\ closed' = TRUE
  /\ semClosed' = TRUE
  /\ TaskGoto(t, "closeWaiters")
  /\ UNCHANGED <<callerVars, permits, pending, waitersClosed, delivered,
                 removals, leaked, outbound, cancels, outgoing, alive,
                 proxyVars>>

\* Mutant: the map is marked closed and keeps its senders.
CloseWaitersKeeping(t) ==
  /\ task[t] = "closeWaiters"
  /\ waitersClosed' = TRUE
  /\ TaskGoto(t, IF t = "writer" THEN "shutdown" ELSE "ended")
  /\ UNCHANGED <<callerVars, permits, semClosed, pending, delivered, removals,
                 leaked, outbound, cancels, outgoing, closed, alive, proxyVars>>

\* `Waiters::close`: dropping the senders wakes every caller.
CloseWaiters(t) ==
  /\ task[t] = "closeWaiters"
  /\ waitersClosed' = TRUE
  /\ pending' = {}
  /\ TaskGoto(t, IF t = "writer" THEN "shutdown" ELSE "ended")
  /\ UNCHANGED <<callerVars, permits, semClosed, delivered, removals, leaked,
                 outbound, cancels, outgoing, closed, alive, proxyVars>>

\* `Drop for Connection`: no call can be under way, since each borrows it.
\* The reader is aborted wherever it is; the writer finds its senders gone.
DropConnection ==
  /\ alive
  /\ \A c \in Callers : pc[c] = "idle"
  /\ alive' = FALSE
  /\ task' = IF task["reader"] = "ended" THEN task
             ELSE [task EXCEPT !["reader"] = "aborted"]
  /\ UNCHANGED <<callerVars, sharedVars, outgoing, closed, proxyVars>>

-----------------------------------------------------------------------------
(***************************************************************************)
(* The proxy (external).                                                   *)
(***************************************************************************)
Answer(id) ==
  /\ id \in work
  /\ work' = work \ {id}
  /\ answers' = answers \cup {id}
  /\ UNCHANGED <<callerVars, sharedVars, taskVars, accepted, stalled>>

Stall ==
  /\ MayStall
  /\ ~stalled
  /\ stalled' = TRUE
  /\ UNCHANGED <<callerVars, sharedVars, taskVars, accepted, work, answers>>

-----------------------------------------------------------------------------
CallerStep(c) ==
  \/ Call(c) \/ AcquirePermit(c) \/ AcquireClosed(c) \/ AcquireTimeout(c)
  \/ Register(c) \/ RegisterClosed(c)
  \/ Enqueue(c) \/ EnqueueClosed(c) \/ EnqueueTimeout(c)
  \/ TakeAnswer(c) \/ TakeClosed(c) \/ WaitTimeout(c)
  \/ DropUnarmed(c) \/ DropArmed(c)

TailStep(t) == MarkClosed(t) \/ CloseWaiters(t)

WriterStep == PollCancels \/ PollOutbound \/ Repoll \/ SendersGone
              \/ WriteDone \/ WriteFail \/ EndWriter

Next ==
  \/ \E c \in Callers : CallerStep(c)
  \/ \E t \in {"reader", "writer"} : TailStep(t)
  \/ WriterStep
  \/ ReceiveFail
  \/ DropConnection
  \/ Stall
  \/ \E id \in Ids : RunRemoval(id) \/ Receive(id) \/ Answer(id)

Spec == Init /\ [][Next]_vars

(***************************************************************************)
(* Fairness.  The tokio scheduler runs every task that is ready, and its   *)
(* timers fire.  Its semaphore and its channels serve waiters in order of  *)
(* arrival, so a caller that waits for a permit or for a slot is not       *)
(* passed over for ever although others take them in between: strong       *)
(* fairness.  Nothing is assumed of the proxy (it may never answer), of    *)
(* the network, of answers being read, of removal tasks or of callers      *)
(* dropping futures.                                                       *)
(***************************************************************************)
CallerProgress(c) ==
  \/ AcquireClosed(c) \/ Register(c) \/ RegisterClosed(c) \/ EnqueueClosed(c)
  \/ TakeAnswer(c) \/ TakeClosed(c)

DeadlinePasses(c) == AcquireTimeout(c) \/ EnqueueTimeout(c) \/ WaitTimeout(c)

WriterProgress == PollCancels \/ PollOutbound \/ Repoll \/ SendersGone
                  \/ WriteDone \/ EndWriter

Fairness ==
  /\ \A c \in Callers : /\ SF_vars(AcquirePermit(c))
                         /\ SF_vars(Enqueue(c))
                         /\ WF_vars(CallerProgress(c))
                         /\ WF_vars(DeadlinePasses(c))
  /\ WF_vars(WriterProgress)
  /\ \A t \in {"reader", "writer"} : WF_vars(TailStep(t))

FairSpec == Spec /\ Fairness

-----------------------------------------------------------------------------
(***************************************************************************)
(* Safety.                                                                 *)
(***************************************************************************)
\* Every variable has its type, and no channel exceeds its capacity.
TypeOK ==
  /\ pc \in [Callers -> Steps]
  /\ seq \in [Callers -> 0..MaxCalls]
  /\ outcome \in [Ids -> Outcomes]
  /\ permits \in 0..MaxInFlight
  /\ semClosed \in BOOLEAN
  /\ pending \subseteq Ids
  /\ waitersClosed \in BOOLEAN
  /\ delivered \subseteq Ids
  /\ removals \subseteq Ids
  /\ leaked \subseteq Ids
  /\ outbound \in Seq(Ids) /\ Len(outbound) <= OutboundQueue
  /\ cancels \in Seq(Ids) /\ Len(cancels) <= CancelQueue
  /\ task \in [{"reader", "writer"} -> TaskSteps]
  /\ outgoing \in Packets \cup {Nothing}
  /\ closed \in BOOLEAN
  /\ alive \in BOOLEAN
  /\ accepted \subseteq Ids
  /\ work \subseteq accepted
  /\ answers \subseteq accepted
  /\ stalled \in BOOLEAN

Cancelling == Range(cancels) \cup
              (IF outgoing.kind = "cancel" THEN {outgoing.id} ELSE {})

\* Whenever a guard may still turn its permit into a cancellation there is
\* room for it: `try_send` never answers `Full` (the debug_assert of
\* PendingGuard::drop), however calls, drops and writes interleave.
CancelHasRoom ==
  \A c \in Callers : pc[c] = "wait" => Len(cancels) < CancelQueue

\* The map does not leak: an entry belongs to a call under way or to a removal
\* task still to run.  The exception is the one Drop admits, a future dropped
\* outside a runtime while somebody holds the lock.
EntryHasOwner ==
  \A id \in pending :
    \/ Armed(id[1]) /\ Cur(id[1]) = id
    \/ id \in removals \cup leaked

\* Registration and closing cannot interleave: once the waiters are closed no
\* caller sits in the map waiting for a reader that is gone.
NobodyParkedAfterClose == waitersClosed => pending = {}

\* A caller sees its sender dropped only because the connection was closed,
\* never because another call's cleanup took its entry: a late answer or a
\* late removal task touches no call but its own.
HangUpMeansClosed ==
  \A c \in Callers : Armed(c) /\ SenderGone(c) => waitersClosed

\* Closing is orderly, whoever closes and whoever registers, answers or cleans
\* up meanwhile: nobody is left parked, and nobody else is sent away.
ClosingIsOrderly == NobodyParkedAfterClose /\ HangUpMeansClosed

\* A call whose answer or error was handed to its caller is never cancelled:
\* the guard was stood down.
OnlyAbandonedIsCancelled ==
  \A id \in Cancelling : outcome[id] \in {"timeout", "dropped"}

\* No cancellation for a request that never reached the outbound channel: it
\* is there still, in the writer's hands, or at the proxy (or was lost with
\* the socket, which ends the writer).
OnlyQueuedIsCancelled ==
  task["writer"] \in {"select", "polled", "send"} =>
    \A id \in Cancelling :
      id \in accepted \cup Range(outbound) \cup
            (IF outgoing.kind = "request" THEN {outgoing.id} ELSE {})

\* A cancellation is sent only for a request that was queued and whose caller
\* gave up without an answer (PendingGuard::drop).
CancelsAreDue == OnlyAbandonedIsCancelled /\ OnlyQueuedIsCancelled

\* The connection implements the promise of RpcCalls: its flag `closed` is set
\* before any caller can be told so.
Calls == INSTANCE RpcCalls WITH
           open <- {Cur(c) : c \in {d \in Callers : pc[d] # "idle"}},
           lost <- closed

\* Every behaviour of the connection is one of RpcCalls: calls end once, with
\* an answer only when the proxy saw the request, and no request is sent twice.
ImplementsCalls == Calls!Spec

-----------------------------------------------------------------------------
(***************************************************************************)
(* Claims of the source that the code does not meet (see README).          *)
(***************************************************************************)
\* "requests the proxy has accepted and has not answered.  This is the latter
\* bound": MAX_IN_FLIGHT bounds what the proxy works on.
ProxyLoadBounded == Cardinality(work) <= MaxInFlight

-----------------------------------------------------------------------------
(***************************************************************************)
(* Liveness, under FairSpec.                                               *)
(***************************************************************************)
\* A deadline covers the whole call: whatever the proxy does, a caller that
\* passed a timeout gets control back.
DeadlinedCallsReturn ==
  \A c \in Deadlined : pc[c] # "idle" ~> pc[c] = "idle"

\* A lost connection is an error for each caller rather than a hang: once the
\* waiters are closed every call under way returns, with a deadline or not, as
\* long as the proxy reads what is sent to it.
CloseWakesUnlessStalled ==
  \A c \in Callers :
    (waitersClosed /\ pc[c] # "idle") ~> (pc[c] = "idle" \/ stalled)

\* Dropping the connection ends both background tasks, on the same condition.
DropEndsUnlessStalled ==
  ~alive ~> \/ task["writer"] = "ended" /\ task["reader"] \in {"ended", "aborted"}
            \/ stalled

\* A connection that is lost or dropped leaves nobody waiting and nothing running,
\* unless the peer stalls.
EndsUnlessStalled == CloseWakesUnlessStalled /\ DropEndsUnlessStalled

\* "A lost connection is an error for each caller rather than a hang", without
\* the condition: a claim of the source that the code does not meet.
CloseWakesCallers ==
  \A c \in Callers : (waitersClosed /\ pc[c] # "idle") ~> pc[c] = "idle"
=============================================================================
