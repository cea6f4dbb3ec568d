------------------------- MODULE RpcConnectionProofs -------------------------
(***************************************************************************)
(* Proofs about RpcConnection, for every number of callers and every value *)
(* of the limits.                                                          *)
(***************************************************************************)
EXTENDS RpcConnection, FiniteSetTheorems, TLAPS

\* TypeOK without the two bounds that only the count of permits gives.
Types ==
  /\ pc \in [Callers -> Steps]
  /\ seq \in [Callers -> 0..MaxCalls]
  /\ outcome \in [Ids -> Outcomes]
  /\ permits \in Nat
  /\ semClosed \in BOOLEAN
  /\ pending \subseteq Ids
  /\ waitersClosed \in BOOLEAN
  /\ delivered \subseteq Ids
  /\ removals \subseteq Ids
  /\ leaked \subseteq Ids
  /\ outbound \in Seq(Ids) /\ Len(outbound) <= OutboundQueue
  /\ cancels \in Seq(Ids)
  /\ task \in [{"reader", "writer"} -> TaskSteps]
  /\ outgoing \in Packets \cup {Nothing}
  /\ closed \in BOOLEAN
  /\ alive \in BOOLEAN
  /\ accepted \subseteq Ids
  /\ work \subseteq accepted
  /\ answers \subseteq accepted
  /\ stalled \in BOOLEAN
  /\ \A c \in Callers : pc[c] # "idle" => seq[c] # 0

\* Taking the first element of a queue.
LEMMA HeadTail ==
  ASSUME NEW S, NEW s \in Seq(S), s # <<>>
  PROVE  /\ Head(s) \in S
         /\ Tail(s) \in Seq(S)
         /\ Len(Tail(s)) = Len(s) - 1
         /\ Range(s) = {Head(s)} \cup Range(Tail(s))
<1>1. \A i \in 1..Len(Tail(s)) : Tail(s)[i] = s[i + 1]
  OBVIOUS
<1>2. Head(s) = s[1] /\ Len(s) \in Nat \ {0} /\ Len(Tail(s)) = Len(s) - 1
  OBVIOUS
<1>3. \A i \in 2..Len(s) : s[i] = Tail(s)[i - 1] /\ i - 1 \in 1..Len(Tail(s))
  BY <1>1, <1>2
<1>4. DOMAIN s = 1..Len(s) /\ DOMAIN Tail(s) = 1..Len(Tail(s))
  OBVIOUS
<1>5. Range(s) \subseteq {Head(s)} \cup Range(Tail(s))
  <2>1. ASSUME NEW i \in 1..Len(s)
        PROVE  s[i] \in {Head(s)} \cup Range(Tail(s))
    <3>1. CASE i = 1
      BY <1>2, <3>1
    <3>2. CASE i # 1
      <4>1. i \in 2..Len(s)
        BY <1>2, <3>2
      <4>2. s[i] = Tail(s)[i - 1] /\ i - 1 \in DOMAIN Tail(s)
        BY <1>3, <1>4, <4>1
      <4> QED
        BY <4>2 DEF Range
    <3> QED
      BY <3>1, <3>2
  <2> QED
    BY <1>4, <2>1 DEF Range
<1>6. {Head(s)} \cup Range(Tail(s)) \subseteq Range(s)
  <2>1. \A i \in 1..Len(Tail(s)) : i + 1 \in 1..Len(s)
    BY <1>2
  <2> QED
    BY <1>1, <1>2, <1>4, <2>1 DEF Range
<1> QED
  BY <1>2, <1>5, <1>6

\* Adding one at its end.
LEMMA RangeAppend ==
  ASSUME NEW S, NEW s \in Seq(S), NEW x \in S
  PROVE  Range(Append(s, x)) = Range(s) \cup {x}
<1>1. DOMAIN s = 1..Len(s) /\ DOMAIN Append(s, x) = 1..(Len(s) + 1) /\ Len(s) \in Nat
  OBVIOUS
<1>2. \A i \in 1..Len(s) : Append(s, x)[i] = s[i]
  OBVIOUS
<1>3. Append(s, x)[Len(s) + 1] = x
  OBVIOUS
<1>4. Range(Append(s, x)) \subseteq Range(s) \cup {x}
  BY <1>1, <1>2, <1>3 DEF Range
<1>5. Range(s) \cup {x} \subseteq Range(Append(s, x))
  BY <1>1, <1>2, <1>3 DEF Range
<1> QED
  BY <1>4, <1>5

\* A caller inside a call has a request id.
LEMMA CurIsId ==
  ASSUME Types, NEW c \in Callers, pc[c] # "idle"
  PROVE  Cur(c) \in Ids
BY BoundsAssumption DEF Types, Cur, Ids

\* So has a packet in the writer's hands.
LEMMA OutgoingIsId ==
  ASSUME Types, outgoing.kind \in {"request", "cancel"}
  PROVE  outgoing.id \in Ids /\ outgoing \in Packets
BY DEF Types, Packets, Nothing

\* The types hold at the start (from_bus).
LEMMA TypesInit == Init => Types
<1> SUFFICES ASSUME Init PROVE Types
  OBVIOUS
<1>1. task \in [{"reader", "writer"} -> TaskSteps]
  BY DEF Init, TaskSteps
<1>2. outbound \in Seq(Ids) /\ cancels \in Seq(Ids) /\ Len(outbound) <= OutboundQueue
  BY BoundsAssumption DEF Init
<1>3. pc \in [Callers -> Steps] /\ seq \in [Callers -> 0..MaxCalls] /\ permits \in Nat
  BY BoundsAssumption DEF Init, Steps
<1>4. outcome \in [Ids -> Outcomes]
  BY DEF Init, Outcomes
<1> QED
  BY <1>1, <1>2, <1>3, <1>4 DEF Init, Types

\* What dropping the guard of a call under way does to the shared state.
LEMMA TypesGuard ==
  ASSUME Types, NEW c \in Callers, pc[c] # "idle", NEW how, GuardDrop(c, how)
  PROVE  /\ permits' \in Nat
         /\ pending' \subseteq Ids
         /\ delivered' \subseteq Ids
         /\ removals' \subseteq Ids
         /\ leaked' \subseteq Ids
         /\ cancels' \in Seq(Ids)
         /\ UNCHANGED <<semClosed, waitersClosed, outbound>>
<1>1. Cur(c) \in Ids
  BY CurIsId
<1>2. /\ pending' \subseteq Ids
      /\ removals' \subseteq Ids
      /\ leaked' \subseteq Ids
  BY <1>1 DEF Types, GuardDrop, RemoveEntry
<1>3. permits' \in Nat /\ cancels' \in Seq(Ids)
  <2>1. \/ cancels' = Append(cancels, Cur(c)) /\ permits' = permits
        \/ cancels' = cancels /\ permits' = permits + 1
    BY DEF GuardDrop, ReleaseOrCancel
  <2>2. cancels \in Seq(Ids) /\ permits \in Nat
    BY DEF Types
  <2>3. Append(cancels, Cur(c)) \in Seq(Ids) /\ permits + 1 \in Nat
    BY <1>1, <2>2
  <2> QED
    BY <2>1, <2>2, <2>3
<1> QED
  BY <1>2, <1>3 DEF Types, GuardDrop

\* Every caller step preserves Types.
LEMMA TypesCaller ==
  ASSUME Types, NEW c \in Callers, CallerStep(c)
  PROVE  Types'
<1> USE BoundsAssumption DEF Types, Steps, Outcomes, Goto, Return, sharedVars, taskVars, proxyVars
<1>1. CASE Call(c)
  BY <1>1 DEF Call
<1>2. CASE AcquirePermit(c)
  BY <1>2 DEF AcquirePermit
<1>3. CASE AcquireClosed(c)
  BY <1>3, CurIsId DEF AcquireClosed
<1>4. CASE AcquireTimeout(c)
  BY <1>4, CurIsId DEF AcquireTimeout
<1>5. CASE Register(c)
  BY <1>5, CurIsId DEF Register
<1>6. CASE RegisterClosed(c)
  BY <1>6, CurIsId DEF RegisterClosed
<1>7. CASE Enqueue(c)
  BY <1>7, CurIsId DEF Enqueue
<1>8. CASE EnqueueClosed(c)
  BY <1>8, CurIsId, TypesGuard DEF EnqueueClosed
<1>9. CASE EnqueueTimeout(c)
  BY <1>9, CurIsId, TypesGuard DEF EnqueueTimeout
<1>10. CASE TakeAnswer(c)
  BY <1>10, CurIsId DEF TakeAnswer
<1>11. CASE TakeClosed(c)
  BY <1>11, CurIsId DEF TakeClosed
<1>12. CASE WaitTimeout(c)
  BY <1>12, CurIsId, TypesGuard DEF WaitTimeout
<1>13. CASE DropUnarmed(c)
  BY <1>13, CurIsId DEF DropUnarmed, HoldsPermit
<1>14. CASE DropArmed(c)
  BY <1>14, CurIsId, TypesGuard DEF DropArmed, Armed
<1> QED
  BY <1>1, <1>2, <1>3, <1>4, <1>5, <1>6, <1>7, <1>8, <1>9, <1>10, <1>11, <1>12,
     <1>13, <1>14 DEF CallerStep

\* And so does every step of the tasks, of the removals and of the proxy.
LEMMA TypesOther ==
  ASSUME Types, Next, ~\E c \in Callers : CallerStep(c)
  PROVE  Types'
<1> USE BoundsAssumption DEF Types, callerVars, sharedVars, taskVars, proxyVars, TaskGoto
<1>1. ASSUME NEW t \in {"reader", "writer"}, TailStep(t)
      PROVE  Types'
  BY <1>1 DEF TailStep, MarkClosed, CloseWaiters, TaskSteps
<1>2. CASE PollCancels
  <2>2. cancels # <<>> => Head(cancels) \in Ids /\ Tail(cancels) \in Seq(Ids)
    BY HeadTail
  <2>1. cancels' \in Seq(Ids)
    BY <1>2, <2>2 DEF PollCancels
  <2>3. outgoing' \in Packets \cup {Nothing}
    BY <1>2, <2>2 DEF PollCancels, Packets
  <2>4. task' \in [{"reader", "writer"} -> TaskSteps]
    BY <1>2 DEF PollCancels, TaskSteps
  <2> QED
    BY <1>2, <2>1, <2>3, <2>4 DEF PollCancels
<1>3. CASE PollOutbound
  BY <1>3 DEF PollOutbound, TaskSteps, Packets
<1>4. CASE Repoll
  BY <1>4 DEF Repoll, TaskSteps
<1>5. CASE SendersGone
  BY <1>5 DEF SendersGone, TaskSteps
<1>6. CASE WriteDone
  <2>1. accepted' \subseteq Ids /\ work' \subseteq accepted' /\ answers' \subseteq accepted'
    BY <1>6, OutgoingIsId DEF WriteDone
  <2> QED
    BY <1>6, <2>1 DEF WriteDone, TaskSteps, ReleaseOutgoing
<1>7. CASE WriteFail
  BY <1>7 DEF WriteFail, TaskSteps, ReleaseOutgoing
<1>8. CASE EndWriter
  BY <1>8 DEF EndWriter, TaskSteps
<1>9. CASE ReceiveFail
  BY <1>9 DEF ReceiveFail, TaskSteps
<1>10. CASE DropConnection
  BY <1>10 DEF DropConnection, TaskSteps
<1>11. CASE Stall
  BY <1>11 DEF Stall
<1>12. ASSUME NEW id \in Ids, RunRemoval(id)
       PROVE  Types'
  BY <1>12 DEF RunRemoval
<1>13. ASSUME NEW id \in Ids, Receive(id)
       PROVE  Types'
  BY <1>13 DEF Receive
<1>14. ASSUME NEW id \in Ids, Answer(id)
       PROVE  Types'
  BY <1>14 DEF Answer
<1> QED
  BY <1>1, <1>2, <1>3, <1>4, <1>5, <1>6, <1>7, <1>8, <1>9, <1>10, <1>11, <1>12,
     <1>13, <1>14 DEF Next, WriterStep

\* Every step of callers, tasks, removals and proxy preserves the types.
LEMMA TypesStep == Types /\ [Next]_vars => Types'
<1> SUFFICES ASSUME Types, [Next]_vars PROVE Types'
  OBVIOUS
<1>1. CASE UNCHANGED vars
  BY <1>1 DEF Types, vars, callerVars, sharedVars, taskVars, proxyVars
<1>2. CASE Next
  BY <1>2, TypesCaller, TypesOther
<1> QED
  BY <1>1, <1>2

-----------------------------------------------------------------------------
(***************************************************************************)
(* Permits.  A permit is available, with a caller, in the cancellation     *)
(* channel or in the writer's hands, and there are MaxInFlight of them.    *)
(* That is why a cancellation always finds room in its channel.            *)
(***************************************************************************)
Holders  == {c \in Callers : HoldsPermit(c)}
InWriter == IF outgoing.kind = "cancel" THEN 1 ELSE 0

PermitsConserved ==
  permits + Cardinality(Holders) + Len(cancels) + InWriter = MaxInFlight

\* The writer holds a packet only while it sends it.
HandsEmpty == task["writer"] # "send" => outgoing = Nothing

Permits == PermitsConserved /\ HandsEmpty

\* Finitely many callers hold a permit, so they can be counted.
LEMMA HoldersFinite ==
  IsFiniteSet(Holders) /\ Cardinality(Holders) \in Nat
BY CallersAssumption, FS_Subset, FS_CardinalityType DEF Holders

\* A caller that acquires a permit adds one to the holders.
LEMMA HolderJoins ==
  ASSUME Types, NEW c \in Callers, ~HoldsPermit(c), HoldsPermit(c)',
         \A d \in Callers \ {c} : pc'[d] = pc[d]
  PROVE  Cardinality(Holders') = Cardinality(Holders) + 1
<1>1. Holders' = Holders \cup {c} /\ c \notin Holders
  BY DEF Holders, HoldsPermit
<1> QED
  BY <1>1, HoldersFinite, FS_AddElement

\* A caller that returns takes one away from them.
LEMMA HolderLeaves ==
  ASSUME Types, NEW c \in Callers, HoldsPermit(c), ~HoldsPermit(c)',
         \A d \in Callers \ {c} : pc'[d] = pc[d]
  PROVE  Cardinality(Holders') = Cardinality(Holders) - 1
<1>1. Holders' = Holders \ {c} /\ c \in Holders
  BY DEF Holders, HoldsPermit
<1> QED
  BY <1>1, HoldersFinite, FS_RemoveElement

\* A caller that keeps its permit, or has none, leaves their number alone.
LEMMA HoldersStay ==
  ASSUME Types, NEW c \in Callers, HoldsPermit(c) <=> HoldsPermit(c)',
         \A d \in Callers \ {c} : pc'[d] = pc[d]
  PROVE  Holders' = Holders
BY DEF Holders, HoldsPermit

\* The cancellation channel can never hold more than the permits it carries.
LEMMA RoomLeft ==
  ASSUME Types, PermitsConserved
  PROVE  /\ Len(cancels) <= CancelQueue
         /\ permits <= MaxInFlight
         /\ CancelHasRoom
<1>1. Cardinality(Holders) \in Nat /\ Len(cancels) \in Nat /\ InWriter \in Nat
  BY HoldersFinite DEF Types, InWriter
<1>2. ASSUME NEW c \in Callers, pc[c] = "wait"
      PROVE  Cardinality(Holders) # 0
  BY <1>2, HoldersFinite, FS_EmptySet DEF Holders, HoldsPermit
<1> QED
  BY <1>1, <1>2, BoundsAssumption DEF Types, PermitsConserved, CancelHasRoom, CancelQueue

\* A caller that returns gives its permit back or hands it to a cancellation.
LEMMA PermitsGuard ==
  ASSUME Types, Permits, NEW c \in Callers, HoldsPermit(c),
         pc' = [pc EXCEPT ![c] = "idle"], UNCHANGED <<outgoing, task>>,
         \/ permits' = permits + 1 /\ cancels' = cancels
         \/ permits' = permits /\ cancels' = Append(cancels, Cur(c))
  PROVE  Permits'
<1>1. ~HoldsPermit(c)' /\ \A d \in Callers \ {c} : pc'[d] = pc[d]
  BY DEF Types, HoldsPermit
<1>2. Cardinality(Holders') = Cardinality(Holders) - 1
  BY <1>1, HolderLeaves
<1>3. Cardinality(Holders) \in Nat /\ Len(cancels) \in Nat /\ InWriter \in Nat
  BY HoldersFinite DEF Types, InWriter
<1>4. cancels' = cancels \/ Len(cancels') = Len(cancels) + 1
  BY CurIsId DEF HoldsPermit, Types
<1>5. InWriter' = InWriter
  BY DEF InWriter
<1>6. CASE permits' = permits + 1 /\ cancels' = cancels
  BY <1>2, <1>3, <1>5, <1>6 DEF Permits, PermitsConserved, HandsEmpty, Types
<1>7. CASE permits' = permits /\ cancels' = Append(cancels, Cur(c))
  <2>1. Len(cancels') = Len(cancels) + 1
    BY <1>7, CurIsId DEF HoldsPermit, Types
  <2> QED
    BY <1>2, <1>3, <1>5, <1>7, <2>1 DEF Permits, PermitsConserved, HandsEmpty, Types
<1> QED
  BY <1>6, <1>7

\* Every step of a caller conserves the permits of the semaphore.
LEMMA PermitsCaller ==
  ASSUME Types, Permits, NEW c \in Callers, CallerStep(c)
  PROVE  Permits'
<1> USE DEF sharedVars, taskVars, Goto, Return
<1>0. \A step : pc' = [pc EXCEPT ![c] = step] =>
                  pc'[c] = step /\ \A d \in Callers \ {c} : pc'[d] = pc[d]
  BY DEF Types
<1>1. CASE \/ Call(c) \/ AcquireClosed(c) \/ AcquireTimeout(c)
           \/ Register(c) \/ Enqueue(c)
  <2>1. Holders' = Holders
    BY <1>0, <1>1, HoldersStay
       DEF Call, AcquireClosed, AcquireTimeout, Register, Enqueue, HoldsPermit
  <2>2. UNCHANGED <<permits, cancels, outgoing, task>>
    BY <1>1 DEF Call, AcquireClosed, AcquireTimeout, Register, Enqueue
  <2> QED
    BY <2>1, <2>2 DEF Permits, PermitsConserved, HandsEmpty, InWriter
<1>2. CASE AcquirePermit(c)
  <2>1. Cardinality(Holders') = Cardinality(Holders) + 1
    BY <1>0, <1>2, HolderJoins DEF AcquirePermit, HoldsPermit
  <2>2. permits' = permits - 1 /\ UNCHANGED <<cancels, outgoing, task>>
    BY <1>2 DEF AcquirePermit
  <2>3. Cardinality(Holders) \in Nat /\ Len(cancels) \in Nat /\ InWriter \in Nat
    BY HoldersFinite DEF Types, InWriter
  <2> QED
    BY <2>1, <2>2, <2>3 DEF Permits, PermitsConserved, HandsEmpty, InWriter, Types
<1>3. CASE RegisterClosed(c) \/ TakeAnswer(c) \/ TakeClosed(c)
  BY <1>3, PermitsGuard DEF RegisterClosed, TakeAnswer, TakeClosed, HoldsPermit
<1>4. CASE EnqueueClosed(c) \/ EnqueueTimeout(c) \/ WaitTimeout(c) \/ DropArmed(c)
  <2>1. HoldsPermit(c) /\ pc' = [pc EXCEPT ![c] = "idle"] /\ UNCHANGED <<outgoing, task>>
    BY <1>4 DEF EnqueueClosed, EnqueueTimeout, WaitTimeout, DropArmed, Armed, HoldsPermit
  <2>2. ReleaseOrCancel(c)
    BY <1>4 DEF EnqueueClosed, EnqueueTimeout, WaitTimeout, DropArmed, GuardDrop
  <2> QED
    BY <2>1, <2>2, PermitsGuard DEF ReleaseOrCancel
<1>5. CASE DropUnarmed(c)
  <2>1. CASE HoldsPermit(c)
    BY <1>5, <2>1, PermitsGuard DEF DropUnarmed
  <2>2. CASE ~HoldsPermit(c)
    <3>1. Holders' = Holders
      BY <1>0, <1>5, <2>2, HoldersStay DEF DropUnarmed, HoldsPermit
    <3> QED
      BY <1>5, <2>2, <3>1 DEF DropUnarmed, Permits, PermitsConserved, HandsEmpty, InWriter
  <2> QED
    BY <2>1, <2>2
<1> QED
  BY <1>1, <1>2, <1>3, <1>4, <1>5 DEF CallerStep

\* So does every step of the tasks: a permit leaves a cancellation when the
\* packet is written, or with the channel.
LEMMA PermitsOther ==
  ASSUME Types, Permits, Next, ~\E c \in Callers : CallerStep(c)
  PROVE  Permits'
<1> USE DEF callerVars, sharedVars, taskVars, TaskGoto, HandsEmpty
<1>0. Cardinality(Holders) \in Nat /\ Len(cancels) \in Nat /\ permits \in Nat
  BY HoldersFinite DEF Types
<1>a. Nothing.kind = "nothing"
  BY DEF Nothing
<1>b. ASSUME UNCHANGED pc
      PROVE  Holders' = Holders
  BY <1>b DEF Holders, HoldsPermit
<1>1. CASE PollCancels
  <2>1. CASE cancels = <<>>
    BY <1>1, <1>b, <2>1 DEF PollCancels, Permits, PermitsConserved, InWriter, Types
  <2>2. CASE cancels # <<>>
    <3>1. Len(cancels') = Len(cancels) - 1
      BY <1>1, <2>2, HeadTail DEF PollCancels, Types
    <3>2. InWriter = 0 /\ InWriter' = 1
      BY <1>1, <1>a, <2>2 DEF PollCancels, Permits, InWriter
    <3> QED
      BY <1>0, <1>1, <1>b, <2>2, <3>1, <3>2 DEF PollCancels, Permits, PermitsConserved, Types
  <2> QED
    BY <2>1, <2>2
<1>2. CASE PollOutbound
  <2>1. InWriter = 0 /\ InWriter' = 0
    BY <1>2, <1>a DEF PollOutbound, Permits, InWriter
  <2> QED
    BY <1>2, <1>b, <2>1 DEF PollOutbound, Permits, PermitsConserved, Types
<1>3. CASE WriteDone \/ WriteFail
  <2>1. permits' = permits + InWriter /\ InWriter' = 0 /\ InWriter \in Nat
    BY <1>0, <1>3, <1>a DEF WriteDone, WriteFail, ReleaseOutgoing, InWriter
  <2>2. UNCHANGED <<pc, cancels>> /\ HandsEmpty'
    BY <1>3 DEF WriteDone, WriteFail
  <2> QED
    BY <1>0, <1>b, <2>1, <2>2 DEF Permits, PermitsConserved
<1>4. CASE EndWriter
  <2>1. Len(cancels') = 0 /\ permits' = permits + Len(cancels) /\ UNCHANGED <<pc, outgoing>>
    BY <1>4 DEF EndWriter
  <2>2. InWriter' = InWriter /\ InWriter \in Nat
    BY <2>1 DEF InWriter
  <2>3. HandsEmpty'
    BY <1>4 DEF EndWriter, Permits, Types
  <2> QED
    BY <1>0, <1>b, <2>1, <2>2, <2>3 DEF Permits, PermitsConserved
<1>5. CASE ~(PollCancels \/ PollOutbound \/ WriteDone \/ WriteFail \/ EndWriter)
  <2>1. UNCHANGED <<pc, permits, cancels, outgoing>>
    BY <1>5 DEF Next, WriterStep, TailStep, MarkClosed, CloseWaiters, Repoll,
         SendersGone, ReceiveFail, DropConnection, Stall, RunRemoval, Receive, Answer
  <2>2. task["writer"] # "send" => task'["writer"] # "send"
    BY <1>5 DEF Next, WriterStep, TailStep, MarkClosed, CloseWaiters, Repoll,
         SendersGone, ReceiveFail, DropConnection, Stall, RunRemoval, Receive, Answer, Types
  <2>3. task["writer"] = "send" => task'["writer"] = "send"
    BY <1>5 DEF Next, WriterStep, TailStep, MarkClosed, CloseWaiters, Repoll,
         SendersGone, ReceiveFail, DropConnection, Stall, RunRemoval, Receive, Answer, Types
  <2> QED
    BY <1>b, <2>1, <2>2, <2>3 DEF Permits, PermitsConserved, InWriter
<1> QED
  BY <1>1, <1>2, <1>3, <1>4, <1>5

\* All the permits are free at the start.
LEMMA PermitsInit == Init => Permits
<1> SUFFICES ASSUME Init PROVE Permits
  OBVIOUS
<1>1. Holders = {}
  BY DEF Init, Holders, HoldsPermit
<1>2. Cardinality(Holders) = 0 /\ Len(cancels) = 0 /\ InWriter = 0
  BY <1>1, FS_EmptySet DEF Init, InWriter, Nothing
<1> QED
  BY <1>2, BoundsAssumption DEF Init, Permits, PermitsConserved, HandsEmpty

\* No step creates or loses a permit.
LEMMA PermitsStep == Types /\ Permits /\ [Next]_vars => Permits'
<1> SUFFICES ASSUME Types, Permits, [Next]_vars PROVE Permits'
  OBVIOUS
<1>1. CASE UNCHANGED vars
  BY <1>1 DEF Permits, PermitsConserved, HandsEmpty, Holders, HoldsPermit, InWriter,
       vars, callerVars, sharedVars, taskVars
<1>2. CASE Next
  BY <1>2, PermitsCaller, PermitsOther
<1> QED
  BY <1>1, <1>2

-----------------------------------------------------------------------------
(***************************************************************************)
(* The ledger of request ids.  Each property of the connection speaks of   *)
(* where an id may be; together they are inductive when said of sets of    *)
(* ids: those of the calls at some step, of the calls that ended, and of   *)
(* what the map, the channels, the writer and the proxy hold.              *)
(***************************************************************************)
IdsAt(S) == {Cur(c) : c \in {d \in Callers : pc[d] \in S}}
Active   == IdsAt(Steps \ {"idle"})
ArmedIds == IdsAt({"queue", "wait"})
WaitIds  == IdsAt({"wait"})

Done      == {id \in Ids : outcome[id] # "none"}
Abandoned == {id \in Ids : outcome[id] \in {"timeout", "dropped"}}

Sending == IF outgoing.kind = "request" THEN {outgoing.id} ELSE {}
Queued  == accepted \cup Range(outbound) \cup Sending

\* Calls: an id that ended is not under way, nor one still to come.
CallsLedger ==
  /\ Active \cap Done = {}
  /\ \A id \in Ids : id[2] > seq[id[1]] => id \notin Done

\* The map: who owns an entry, and who must have one.
MapLedger ==
  /\ removals \cup leaked \subseteq Done
  /\ delivered \subseteq ArmedIds \cap accepted
  /\ delivered \cap pending = {}
  /\ pending \subseteq ArmedIds \cup removals \cup leaked
  /\ waitersClosed => pending = {}
  /\ ~waitersClosed => ArmedIds \subseteq pending \cup delivered

\* The channels: what is cancelled was abandoned, what is queued was sent once.
QueueLedger ==
  /\ Cancelling \subseteq Abandoned
  /\ Queued \subseteq WaitIds \cup Done
  /\ task["writer"] \in {"select", "polled", "send"} =>
       WaitIds \cup Cancelling \subseteq Queued
  /\ IsInjective(outbound)
  /\ Range(outbound) \cap (accepted \cup Sending) = {}
  /\ Sending \cap accepted = {}

\* `closed` is set first.
CloseLedger ==
  /\ waitersClosed \/ semClosed => closed
  /\ task["writer"] \in {"closeWaiters", "shutdown", "ended"} => closed
  /\ task["reader"] = "closeWaiters" => closed

Ledger == CallsLedger /\ MapLedger /\ QueueLedger /\ CloseLedger

IInv == Types /\ Permits /\ Ledger

-----------------------------------------------------------------------------
\* Two callers never share a request id.
LEMMA CurInjective ==
  ASSUME NEW c, NEW d, Cur(c) = Cur(d)
  PROVE  c = d
BY DEF Cur

\* An id belongs to the call that its first component is making.
LEMMA InIdsAt ==
  ASSUME NEW S, NEW c \in Callers
  PROVE  Cur(c) \in IdsAt(S) <=> pc[c] \in S
BY CurInjective DEF IdsAt

\* An id is armed when the call that its first component is making is.
LEMMA ArmedById ==
  ASSUME NEW id \in Ids
  PROVE  (Armed(id[1]) /\ Cur(id[1]) = id) <=> id \in ArmedIds
<1>1. id[1] \in Callers
  BY DEF Ids
<1>2. ASSUME id \in ArmedIds PROVE Cur(id[1]) = id
  BY <1>2 DEF ArmedIds, IdsAt, Cur
<1> QED
  BY <1>1, <1>2, InIdsAt DEF ArmedIds, Armed

\* A caller that moves takes its own id along and no other.
LEMMA Moves ==
  ASSUME Types, NEW c \in Callers, NEW step, NEW S,
         pc' = [pc EXCEPT ![c] = step], seq' = seq
  PROVE  IdsAt(S)' = IF step \in S THEN IdsAt(S) \cup {Cur(c)} ELSE IdsAt(S) \ {Cur(c)}
<1>1. pc'[c] = step /\ \A d \in Callers \ {c} : pc'[d] = pc[d]
  BY DEF Types
<1>2. \A d \in Callers : Cur(d)' = Cur(d)
  BY DEF Cur
<1>3. \A d \in Callers \ {c} : Cur(d) # Cur(c)
  BY CurInjective
<1> QED
  BY <1>1, <1>2, <1>3 DEF IdsAt

\* A caller that moves within its call keeps that call under way.
LEMMA MovesActive ==
  ASSUME Types, NEW c \in Callers, NEW step \in Steps \ {"idle"},
         pc' = [pc EXCEPT ![c] = step], seq' = seq
  PROVE  Active' = Active \cup {Cur(c)}
BY Moves DEF Active

\* A waiting call is armed, and an armed one is under way.
LEMMA Nested == WaitIds \subseteq ArmedIds /\ ArmedIds \subseteq Active
BY DEF WaitIds, ArmedIds, Active, IdsAt, Steps

\* What a return does to the ledger's sets.
LEMMA Returns ==
  ASSUME Types, CallsLedger, NEW c \in Callers, pc[c] # "idle",
         NEW o \in {"answer", "closed", "timeout", "dropped"}, Return(c, o), seq' = seq
  PROVE  /\ Active' = Active \ {Cur(c)}
         /\ ArmedIds' = ArmedIds \ {Cur(c)}
         /\ WaitIds' = WaitIds \ {Cur(c)}
         /\ Done' = Done \cup {Cur(c)}
         /\ Abandoned' = IF o \in {"timeout", "dropped"}
                         THEN Abandoned \cup {Cur(c)} ELSE Abandoned
         /\ Cur(c) \in Ids /\ Cur(c) \notin Done
         /\ CallsLedger'
<1>1. Cur(c) \in Ids /\ Cur(c) \in Active
  BY CurIsId, InIdsAt DEF Active, Types, Steps
<1>2. /\ Active' = Active \ {Cur(c)}
      /\ ArmedIds' = ArmedIds \ {Cur(c)}
      /\ WaitIds' = WaitIds \ {Cur(c)}
  <2>0. pc' = [pc EXCEPT ![c] = "idle"]
    BY DEF Return, Goto
  <2>1. IdsAt(Steps \ {"idle"})' = IdsAt(Steps \ {"idle"}) \ {Cur(c)}
    BY <2>0, Moves, "idle" \notin Steps \ {"idle"}
  <2>2. IdsAt({"queue", "wait"})' = IdsAt({"queue", "wait"}) \ {Cur(c)}
    BY <2>0, Moves, "idle" \notin {"queue", "wait"}
  <2>3. IdsAt({"wait"})' = IdsAt({"wait"}) \ {Cur(c)}
    BY <2>0, Moves, "idle" \notin {"wait"}
  <2> QED
    BY <2>1, <2>2, <2>3 DEF Active, ArmedIds, WaitIds
<1>3. outcome'[Cur(c)] = o /\ \A id \in Ids \ {Cur(c)} : outcome'[id] = outcome[id]
  BY <1>1 DEF Return, Types
<1>4. Cur(c) \notin Done
  BY <1>1 DEF CallsLedger
<1>5. Done' = Done \cup {Cur(c)}
  BY <1>1, <1>3 DEF Done
<1>6. Abandoned' = IF o \in {"timeout", "dropped"} THEN Abandoned \cup {Cur(c)} ELSE Abandoned
  BY <1>1, <1>3, <1>4 DEF Abandoned, Done
<1>7. \A id \in Ids : id[2] > seq'[id[1]] => id \notin Done'
  <2>1. Cur(c)[1] = c /\ Cur(c)[2] = seq[c] /\ seq[c] \in Nat
    BY BoundsAssumption DEF Cur, Types
  <2>2. ASSUME NEW id \in Ids, id[2] > seq[id[1]] PROVE id # Cur(c)
    BY <2>1, <2>2
  <2> QED
    BY <1>5, <2>2 DEF CallsLedger
<1> QED
  BY <1>1, <1>2, <1>4, <1>5, <1>6, <1>7 DEF CallsLedger

\* A call under way that has not been registered has left no trace but its id.
LEMMA Unarmed ==
  ASSUME Types, Ledger, NEW c \in Callers, pc[c] \in {"permit", "register", "queue"}
  PROVE  /\ Cur(c) \in Active /\ Cur(c) \notin Done /\ Cur(c) \notin WaitIds
         /\ Cur(c) \notin Queued
         /\ pc[c] # "queue" => /\ Cur(c) \notin ArmedIds
                               /\ Cur(c) \notin pending \cup delivered
<1>1. Cur(c) \in Active /\ Cur(c) \notin WaitIds
  BY InIdsAt DEF Active, WaitIds, Steps
<1>2. Cur(c) \notin Done
  BY <1>1 DEF Ledger, CallsLedger
<1>3. pc[c] # "queue" => Cur(c) \notin ArmedIds
  BY InIdsAt DEF ArmedIds
<1> QED
  BY <1>1, <1>2, <1>3 DEF Ledger, MapLedger, QueueLedger

\* How a caller may return: it takes its own traces away, or leaves them to a
\* removal task, and queues at most one cancellation, for a request it queued.
LEMMA LedgerReturn ==
  ASSUME Types, Ledger, NEW c \in Callers, pc[c] # "idle",
         NEW o \in {"answer", "closed", "timeout", "dropped"}, Return(c, o),
         UNCHANGED <<seq, waitersClosed, semClosed, accepted, outbound, outgoing, task, closed>>,
         removals \cup leaked \subseteq removals' \cup leaked',
         removals' \cup leaked' \subseteq removals \cup leaked \cup {Cur(c)},
         pending' \subseteq pending,
         pending \subseteq pending' \cup {Cur(c)},
         Cur(c) \in pending' => Cur(c) \in removals' \cup leaked',
         delivered' = delivered \ {Cur(c)},
         \/ Range(cancels') = Range(cancels)
         \/ /\ Range(cancels') = Range(cancels) \cup {Cur(c)}
            /\ o \in {"timeout", "dropped"}
            /\ pc[c] = "wait"
  PROVE  Ledger'
<1>1. /\ Active' = Active \ {Cur(c)}
      /\ ArmedIds' = ArmedIds \ {Cur(c)}
      /\ WaitIds' = WaitIds \ {Cur(c)}
      /\ Done' = Done \cup {Cur(c)}
      /\ Abandoned' = IF o \in {"timeout", "dropped"}
                      THEN Abandoned \cup {Cur(c)} ELSE Abandoned
      /\ CallsLedger'
  BY Returns DEF Ledger
<1>2. MapLedger'
  BY <1>1 DEF Ledger, MapLedger
<1>3. Sending' = Sending /\ Queued' = Queued
  BY DEF Sending, Queued
<1>4. pc[c] = "wait" => Cur(c) \in WaitIds
  BY InIdsAt DEF WaitIds
<1>5. Cancelling' \subseteq Abandoned'
  BY <1>1 DEF Ledger, QueueLedger, Cancelling
<1>6. Cancelling' \subseteq Cancelling \cup (IF pc[c] = "wait" THEN {Cur(c)} ELSE {})
  BY DEF Cancelling
<1>7. QueueLedger'
  BY <1>1, <1>3, <1>4, <1>5, <1>6 DEF Ledger, QueueLedger
<1>8. CloseLedger'
  BY DEF Ledger, CloseLedger
<1> QED
  BY <1>1, <1>2, <1>7, <1>8 DEF Ledger

\* Dropping the guard is such a return.
LEMMA LedgerGuard ==
  ASSUME Types, Ledger, NEW c \in Callers, Armed(c), NEW how, GuardDrop(c, how),
         NEW o \in {"closed", "timeout", "dropped"}, Return(c, o),
         o = "closed" => pc[c] # "wait",
         UNCHANGED <<seq, accepted, outgoing, task, closed>>
  PROVE  Ledger'
<1>1. Cur(c) \in Ids /\ pc[c] # "idle"
  BY CurIsId DEF Armed
<1>2. /\ removals \cup leaked \subseteq removals' \cup leaked'
      /\ removals' \cup leaked' \subseteq removals \cup leaked \cup {Cur(c)}
      /\ pending' \subseteq pending
      /\ pending \subseteq pending' \cup {Cur(c)}
      /\ Cur(c) \in pending' => Cur(c) \in removals' \cup leaked'
  BY DEF GuardDrop, RemoveEntry
<1>3. \/ Range(cancels') = Range(cancels)
      \/ Range(cancels') = Range(cancels) \cup {Cur(c)} /\ pc[c] = "wait"
  <2>1. \/ cancels' = cancels
        \/ cancels' = Append(cancels, Cur(c)) /\ pc[c] = "wait"
    BY DEF GuardDrop, ReleaseOrCancel
  <2>2. cancels \in Seq(Ids)
    BY DEF Types
  <2>3. Range(Append(cancels, Cur(c))) = Range(cancels) \cup {Cur(c)}
    BY <1>1, <2>2, RangeAppend
  <2> QED
    BY <2>1, <2>3
<1>4. UNCHANGED <<waitersClosed, semClosed, outbound>> /\ delivered' = delivered \ {Cur(c)}
  BY DEF GuardDrop
<1> QED
  BY <1>1, <1>2, <1>3, <1>4, LedgerReturn

\* Every step of a caller keeps the ledger of calls, map, queues and closing.
LEMMA LedgerCaller ==
  ASSUME Types, Ledger, NEW c \in Callers, CallerStep(c)
  PROVE  Ledger'
<1> USE DEF sharedVars, taskVars, proxyVars
<1>1. CASE Call(c)
  <2> DEFINE N == <<c, seq[c] + 1>>
  <2>1. /\ seq' = [seq EXCEPT ![c] = seq[c] + 1] /\ pc' = [pc EXCEPT ![c] = "permit"]
        /\ pc[c] = "idle" /\ seq[c] < MaxCalls
        /\ UNCHANGED <<outcome, sharedVars, taskVars, proxyVars>>
    BY <1>1 DEF Call, Goto
  <2>2. /\ pc'[c] = "permit" /\ Cur(c)' = N
        /\ \A d \in Callers \ {c} : pc'[d] = pc[d] /\ Cur(d)' = Cur(d)
    BY <2>1 DEF Types, Cur
  <2>3. ArmedIds' = ArmedIds /\ WaitIds' = WaitIds
    BY <2>1, <2>2 DEF ArmedIds, WaitIds, IdsAt
  <2>4. Active' = Active \cup {N}
    BY <2>1, <2>2 DEF Active, IdsAt, Steps
  <2>5. N \in Ids /\ N[1] = c /\ N[2] = seq[c] + 1 /\ seq[c] \in Nat
    BY <2>1, BoundsAssumption DEF Ids, Types
  <2>6. N \notin Done
    BY <2>5 DEF Ledger, CallsLedger
  <2>7. Done' = Done /\ Abandoned' = Abandoned /\ Queued' = Queued /\ Sending' = Sending
    BY <2>1 DEF Done, Abandoned, Queued, Sending
  <2>8. \A id \in Ids : id[1] \in Callers /\ id[2] \in Nat
    BY DEF Ids
  <2>9. \A d \in Callers : seq'[d] >= seq[d] /\ seq[d] \in Nat /\ seq'[d] \in Nat
    BY <2>1, BoundsAssumption DEF Types
  <2>10. CallsLedger'
    BY <2>4, <2>6, <2>7, <2>8, <2>9 DEF Ledger, CallsLedger
  <2>11. MapLedger'
    BY <2>1, <2>3, <2>7 DEF Ledger, MapLedger
  <2>12. QueueLedger'
    BY <2>1, <2>3, <2>7 DEF Ledger, QueueLedger, Cancelling
  <2> QED
    BY <2>1, <2>10, <2>11, <2>12 DEF Ledger, CloseLedger
<1>2. CASE AcquirePermit(c)
  <2>1. pc' = [pc EXCEPT ![c] = "register"] /\ pc[c] = "permit"
    BY <1>2 DEF AcquirePermit, Goto
  <2>2. UNCHANGED <<seq, outcome, semClosed, pending, waitersClosed, delivered,
                    removals, leaked, outbound, cancels, taskVars, proxyVars>>
    BY <1>2 DEF AcquirePermit
  <2>3. Active' = Active \cup {Cur(c)}
    BY <2>1, <2>2, MovesActive, "register" \in Steps \ {"idle"} DEF Steps
  <2>4. ArmedIds' = ArmedIds \ {Cur(c)}
    BY <2>1, <2>2, Moves, "register" \notin {"queue", "wait"} DEF ArmedIds
  <2>5. WaitIds' = WaitIds \ {Cur(c)}
    BY <2>1, <2>2, Moves, "register" \notin {"wait"} DEF WaitIds
  <2>6. Active' = Active /\ ArmedIds' = ArmedIds /\ WaitIds' = WaitIds
    BY <2>1, <2>3, <2>4, <2>5, Unarmed
  <2> QED
    BY <2>2, <2>6 DEF Ledger, CallsLedger, MapLedger, QueueLedger, CloseLedger,
         Done, Abandoned, Cancelling, Queued, Sending
<1>3. CASE AcquireClosed(c) \/ AcquireTimeout(c) \/ RegisterClosed(c) \/ DropUnarmed(c)
  <2>1. Cur(c) \notin pending \cup delivered /\ pc[c] # "idle"
    BY <1>3, Unarmed DEF AcquireClosed, AcquireTimeout, RegisterClosed, DropUnarmed
  <2>2. \E o \in {"answer", "closed", "timeout", "dropped"} : Return(c, o)
    BY <1>3 DEF AcquireClosed, AcquireTimeout, RegisterClosed, DropUnarmed
  <2>3. UNCHANGED <<seq, semClosed, pending, waitersClosed, delivered, removals, leaked,
                    outbound, cancels, taskVars, proxyVars>>
    BY <1>3 DEF AcquireClosed, AcquireTimeout, RegisterClosed, DropUnarmed
  <2> QED
    BY <2>1, <2>2, <2>3, LedgerReturn
<1>4. CASE Register(c)
  <2>1. pc' = [pc EXCEPT ![c] = "queue"] /\ pc[c] = "register" /\ ~waitersClosed
        /\ pending' = pending \cup {Cur(c)}
    BY <1>4 DEF Register, Goto
  <2>2. UNCHANGED <<seq, outcome, semClosed, waitersClosed, delivered,
                    removals, leaked, outbound, cancels, taskVars, proxyVars>>
    BY <1>4 DEF Register
  <2>3. Active' = Active \cup {Cur(c)}
    BY <2>1, <2>2, MovesActive, "queue" \in Steps \ {"idle"} DEF Steps
  <2>4. ArmedIds' = ArmedIds \cup {Cur(c)}
    BY <2>1, <2>2, Moves, "queue" \in {"queue", "wait"} DEF ArmedIds
  <2>5. WaitIds' = WaitIds \ {Cur(c)}
    BY <2>1, <2>2, Moves, "queue" \notin {"wait"} DEF WaitIds
  <2>6. /\ Active' = Active /\ WaitIds' = WaitIds
        /\ Cur(c) \notin pending \cup delivered
    BY <2>1, <2>3, <2>4, <2>5, Unarmed
  <2>7. MapLedger'
    BY <2>1, <2>2, <2>4, <2>6 DEF Ledger, MapLedger, Done
  <2> QED
    BY <2>2, <2>6, <2>7 DEF Ledger, CallsLedger, QueueLedger, CloseLedger,
         Done, Abandoned, Cancelling, Queued, Sending
<1>5. CASE Enqueue(c)
  <2>1. pc' = [pc EXCEPT ![c] = "wait"] /\ pc[c] = "queue"
        /\ outbound' = Append(outbound, Cur(c))
    BY <1>5 DEF Enqueue, Goto
  <2>2. UNCHANGED <<seq, outcome, semClosed, pending, waitersClosed, delivered,
                    removals, leaked, cancels, taskVars, proxyVars>>
    BY <1>5 DEF Enqueue
  <2>3. Active' = Active \cup {Cur(c)}
    BY <2>1, <2>2, MovesActive, "wait" \in Steps \ {"idle"} DEF Steps
  <2>4. ArmedIds' = ArmedIds \cup {Cur(c)}
    BY <2>1, <2>2, Moves, "wait" \in {"queue", "wait"} DEF ArmedIds
  <2>5. WaitIds' = WaitIds \cup {Cur(c)}
    BY <2>1, <2>2, Moves, "wait" \in {"wait"} DEF WaitIds
  <2>6. Active' = Active /\ ArmedIds' = ArmedIds /\ Cur(c) \notin Queued
    BY <2>1, <2>3, <2>4, Unarmed, InIdsAt DEF ArmedIds
  <2>7. Cur(c) \in Ids /\ outbound \in Seq(Ids)
    BY <2>1, CurIsId DEF Types
  <2>8. Range(outbound') = Range(outbound) \cup {Cur(c)}
    BY <2>1, <2>7, RangeAppend
  <2>9. IsInjective(outbound')
    <3>1. IsInjective(outbound) /\ Cur(c) \notin Range(outbound)
      BY <2>6 DEF Queued, Ledger, QueueLedger
    <3>2. DOMAIN outbound = 1..Len(outbound) /\ Len(outbound) \in Nat
          /\ DOMAIN outbound' = 1..(Len(outbound) + 1)
          /\ outbound'[Len(outbound) + 1] = Cur(c)
          /\ \A i \in 1..Len(outbound) : outbound'[i] = outbound[i]
      BY <2>1, <2>7
    <3> QED
      BY <3>1, <3>2 DEF IsInjective, Range
  <2>10. Sending' = Sending /\ Queued' = Queued \cup {Cur(c)} /\ Cancelling' = Cancelling
         /\ Done' = Done /\ Abandoned' = Abandoned
    BY <2>2, <2>8 DEF Sending, Queued, Cancelling, Done, Abandoned
  <2>11. QueueLedger'
    BY <2>2, <2>5, <2>6, <2>8, <2>9, <2>10 DEF Ledger, QueueLedger, Queued
  <2> QED
    BY <2>2, <2>6, <2>10, <2>11 DEF Ledger, CallsLedger, MapLedger, CloseLedger
<1>6. CASE EnqueueClosed(c)
  BY <1>6, LedgerGuard DEF EnqueueClosed, Armed
<1>7. CASE EnqueueTimeout(c)
  BY <1>7, LedgerGuard DEF EnqueueTimeout, Armed
<1>8. CASE WaitTimeout(c)
  BY <1>8, LedgerGuard DEF WaitTimeout, Armed
<1>9. CASE DropArmed(c)
  BY <1>9, LedgerGuard DEF DropArmed
<1>10. CASE TakeAnswer(c)
  <2>1. Cur(c) \notin pending
    BY <1>10 DEF TakeAnswer, Ledger, MapLedger
  <2> QED
    BY <1>10, <2>1, LedgerReturn DEF TakeAnswer
<1>11. CASE TakeClosed(c)
  <2>1. Cur(c) \notin pending /\ Cur(c) \notin delivered
    BY <1>11 DEF TakeClosed, SenderGone
  <2> QED
    BY <1>11, <2>1, LedgerReturn DEF TakeClosed
<1> QED
  BY <1>1, <1>2, <1>3, <1>4, <1>5, <1>6, <1>7, <1>8, <1>9, <1>10, <1>11 DEF CallerStep

\* Steps outside the callers leave the calls where they are.
LEMMA CallsStay ==
  ASSUME UNCHANGED callerVars
  PROVE  /\ Active' = Active /\ ArmedIds' = ArmedIds /\ WaitIds' = WaitIds
         /\ Done' = Done /\ Abandoned' = Abandoned
         /\ CallsLedger' <=> CallsLedger
BY DEF callerVars, Active, ArmedIds, WaitIds, IdsAt, Cur, Done, Abandoned, CallsLedger

\* So does every step of the tasks, of the removals and of the proxy.
LEMMA LedgerOther ==
  ASSUME Types, Permits, Ledger, Next, ~\E c \in Callers : CallerStep(c)
  PROVE  Ledger'
<1>0. UNCHANGED callerVars
  BY DEF Next, WriterStep, TailStep, MarkClosed, CloseWaiters, PollCancels, PollOutbound,
       Repoll, SendersGone, WriteDone, WriteFail, EndWriter, ReceiveFail, DropConnection,
       Stall, RunRemoval, Receive, Answer
<1>a. /\ Active' = Active /\ ArmedIds' = ArmedIds /\ WaitIds' = WaitIds
      /\ Done' = Done /\ Abandoned' = Abandoned /\ CallsLedger'
  BY <1>0, CallsStay DEF Ledger
<1>b. Nothing.kind = "nothing"
  BY DEF Nothing
<1>c. task["writer"] # "send" => Sending = {} /\ Cancelling = Range(cancels)
  BY <1>b DEF Permits, HandsEmpty, Sending, Cancelling
<1>d. ASSUME UNCHANGED <<pending, waitersClosed, delivered, removals, leaked>>, accepted \subseteq accepted'
      PROVE  MapLedger'
  BY <1>a, <1>d DEF Ledger, MapLedger
<1>e. ASSUME UNCHANGED <<accepted, outbound, cancels, outgoing>>,
             task'["writer"] \in {"select", "polled", "send"} =>
               task["writer"] \in {"select", "polled", "send"}
      PROVE  QueueLedger'
  BY <1>a, <1>e DEF Ledger, QueueLedger, Queued, Sending, Cancelling
<1> USE DEF sharedVars, taskVars, proxyVars, TaskGoto
<1>1. CASE PollCancels
  <2>1. Cancelling' = Cancelling /\ Sending' = {} /\ Sending = {}
    <3>1. CASE cancels = <<>>
      BY <1>1, <1>c, <3>1 DEF PollCancels, Cancelling, Sending
    <3>2. CASE cancels # <<>>
      <4>1. Range(cancels) = {Head(cancels)} \cup Range(Tail(cancels))
        BY <3>2, HeadTail DEF Types
      <4>2. outgoing'.kind = "cancel" /\ outgoing'.id = Head(cancels) /\ cancels' = Tail(cancels)
        BY <1>1, <3>2 DEF PollCancels
      <4> QED
        BY <1>1, <1>c, <4>1, <4>2 DEF PollCancels, Cancelling, Sending
    <3> QED
      BY <3>1, <3>2
  <2>2. UNCHANGED <<accepted, outbound>> /\ Queued' = Queued
    BY <1>1, <2>1 DEF PollCancels, Queued
  <2>3. QueueLedger'
    BY <1>1, <1>a, <2>1, <2>2 DEF PollCancels, Ledger, QueueLedger
  <2>4. MapLedger'
    BY <1>1, <1>d DEF PollCancels
  <2>5. CloseLedger'
    BY <1>1 DEF PollCancels, Ledger, CloseLedger, Types
  <2> QED
    BY <1>a, <2>3, <2>4, <2>5 DEF Ledger
<1>2. CASE PollOutbound
  <2>1. Range(outbound) = {Head(outbound)} \cup Range(Tail(outbound))
    BY <1>2, HeadTail DEF PollOutbound, Types
  <2>2. Sending' = {Head(outbound)} /\ Sending = {} /\ outbound' = Tail(outbound)
    BY <1>2, <1>c DEF PollOutbound, Sending
  <2>3. Cancelling' = Cancelling
    BY <1>2, <1>c DEF PollOutbound, Cancelling
  <2>4. Queued' = Queued
    BY <1>2, <2>1, <2>2 DEF PollOutbound, Queued
  <2>5. IsInjective(outbound') /\ Head(outbound) \notin Range(outbound')
    <3>1. IsInjective(outbound) /\ outbound \in Seq(Ids) /\ outbound # <<>>
      BY <1>2 DEF PollOutbound, Ledger, QueueLedger, Types
    <3>2. /\ DOMAIN outbound = 1..Len(outbound) /\ Len(outbound) \in Nat \ {0}
          /\ DOMAIN Tail(outbound) = 1..(Len(outbound) - 1)
          /\ Head(outbound) = outbound[1]
          /\ \A i \in 1..(Len(outbound) - 1) : Tail(outbound)[i] = outbound[i + 1]
      BY <3>1
    <3>3. \A i \in 1..(Len(outbound) - 1) : i + 1 \in DOMAIN outbound /\ i + 1 # 1
      BY <3>2
    <3>4. 1 \in DOMAIN outbound
      BY <3>2
    <3>5. IsInjective(Tail(outbound))
      <4> SUFFICES ASSUME NEW i \in 1..(Len(outbound) - 1), NEW j \in 1..(Len(outbound) - 1),
                          Tail(outbound)[i] = Tail(outbound)[j]
                   PROVE  i = j
        BY <3>2 DEF IsInjective
      <4>1. outbound[i + 1] = outbound[j + 1]
        BY <3>2
      <4>2. i + 1 = j + 1
        BY <3>1, <3>3, <4>1 DEF IsInjective
      <4> QED
        BY <4>2, <3>2
    <3>6. ASSUME NEW i \in 1..(Len(outbound) - 1) PROVE Tail(outbound)[i] # Head(outbound)
      BY <3>1, <3>2, <3>3, <3>4 DEF IsInjective
    <3> QED
      BY <2>2, <3>2, <3>5, <3>6 DEF Range
  <2>6. QueueLedger'
    BY <1>2, <1>a, <2>1, <2>2, <2>3, <2>4, <2>5 DEF PollOutbound, Ledger, QueueLedger
  <2>7. MapLedger'
    BY <1>2, <1>d DEF PollOutbound
  <2>8. CloseLedger'
    BY <1>2 DEF PollOutbound, Ledger, CloseLedger, Types
  <2> QED
    BY <1>a, <2>6, <2>7, <2>8 DEF Ledger
<1>3. CASE WriteDone
  <2>1. /\ Sending' = {} /\ outbound' = outbound /\ cancels' = cancels
        /\ Cancelling' \subseteq Cancelling
    BY <1>3, <1>b DEF WriteDone, Sending, Cancelling
  <2>2. accepted' = accepted \cup Sending
    BY <1>3 DEF WriteDone, Sending
  <2>3. Queued' = Queued
    BY <2>1, <2>2 DEF Queued
  <2>4. QueueLedger'
    BY <1>3, <1>a, <2>1, <2>2, <2>3 DEF WriteDone, Ledger, QueueLedger
  <2>5. MapLedger'
    BY <1>3, <1>d, <2>2 DEF WriteDone
  <2>6. CloseLedger'
    BY <1>3 DEF WriteDone, Ledger, CloseLedger, Types
  <2> QED
    BY <1>a, <2>4, <2>5, <2>6 DEF Ledger
<1>4. CASE WriteFail \/ EndWriter
  <2>1. Sending' \subseteq Sending /\ Cancelling' \subseteq Cancelling
    BY <1>4, <1>b DEF WriteFail, EndWriter, Sending, Cancelling, Range
  <2>2. outbound' = outbound \/ outbound' = <<>>
    BY <1>4 DEF WriteFail, EndWriter
  <2>3. Range(outbound') \subseteq Range(outbound) /\ IsInjective(outbound')
    BY <2>2 DEF Range, IsInjective, Ledger, QueueLedger
  <2>4. accepted' = accepted /\ task'["writer"] \notin {"select", "polled", "send"}
    BY <1>4 DEF WriteFail, EndWriter, Types
  <2>5. QueueLedger'
    BY <1>a, <2>1, <2>3, <2>4 DEF Ledger, QueueLedger, Queued
  <2>6. MapLedger'
    BY <1>4, <1>d DEF WriteFail, EndWriter
  <2>7. CloseLedger'
    BY <1>4 DEF WriteFail, EndWriter, Ledger, CloseLedger, Types
  <2> QED
    BY <1>a, <2>5, <2>6, <2>7 DEF Ledger
<1>5. CASE Repoll \/ SendersGone \/ ReceiveFail \/ DropConnection \/ Stall \/ \E id \in Ids : Answer(id)
  <2>1. QueueLedger' /\ MapLedger'
    BY <1>5, <1>d, <1>e DEF Repoll, SendersGone, ReceiveFail, DropConnection, Stall, Answer, Types
  <2>2. CloseLedger'
    BY <1>5 DEF Repoll, SendersGone, ReceiveFail, DropConnection, Stall, Answer, Types,
         Ledger, CloseLedger
  <2> QED
    BY <1>a, <2>1, <2>2 DEF Ledger
<1>6. ASSUME NEW t \in {"reader", "writer"}, TailStep(t) PROVE Ledger'
  <2>1. QueueLedger'
    BY <1>6, <1>e DEF TailStep, MarkClosed, CloseWaiters, Types
  <2>2. CASE MarkClosed(t)
    BY <1>a, <1>d, <2>1, <2>2 DEF MarkClosed, Ledger, CloseLedger, Types
  <2>3. CASE CloseWaiters(t)
    <3>1. closed
      BY <2>3 DEF CloseWaiters, Ledger, CloseLedger
    <3>2. CloseLedger'
      BY <2>3, <3>1 DEF CloseWaiters, CloseLedger
    <3>3. MapLedger'
      BY <1>a, <2>3 DEF CloseWaiters, Ledger, MapLedger
    <3> QED
      BY <1>a, <2>1, <3>2, <3>3 DEF Ledger
  <2> QED
    BY <1>6, <2>2, <2>3 DEF TailStep
<1>7. ASSUME NEW id \in Ids, RunRemoval(id) PROVE Ledger'
  <2>1. id \notin ArmedIds
    BY <1>7, Nested DEF RunRemoval, Ledger, MapLedger, CallsLedger
  <2>2. MapLedger'
    BY <1>7, <1>a, <2>1 DEF RunRemoval, Ledger, MapLedger
  <2> QED
    BY <1>7, <1>a, <1>e, <2>2 DEF RunRemoval, Ledger, CloseLedger
<1>8. ASSUME NEW id \in Ids, Receive(id) PROVE Ledger'
  <2>1. delivered' = IF id \in pending /\ id \in ArmedIds THEN delivered \cup {id} ELSE delivered
    BY <1>8, ArmedById DEF Receive
  <2>2. id \in accepted
    BY <1>8 DEF Receive, Types
  <2>3. MapLedger'
    BY <1>8, <1>a, <2>1, <2>2 DEF Receive, Ledger, MapLedger
  <2> QED
    BY <1>8, <1>a, <1>e, <2>3 DEF Receive, Ledger, CloseLedger
<1> QED
  BY <1>1, <1>2, <1>3, <1>4, <1>5, <1>6, <1>7, <1>8 DEF Next, WriterStep

\* The ledger is empty at the start.
LEMMA LedgerInit == Init => Ledger
<1> SUFFICES ASSUME Init PROVE Ledger
  OBVIOUS
<1>1. Active = {} /\ ArmedIds = {} /\ WaitIds = {} /\ Done = {}
  BY DEF Init, Active, ArmedIds, WaitIds, IdsAt, Done
<1>2. Range(outbound) = {} /\ Range(cancels) = {} /\ IsInjective(outbound)
  BY DEF Init, Range, IsInjective
<1>3. Sending = {} /\ Cancelling = {} /\ Queued = {}
  BY <1>2 DEF Init, Sending, Cancelling, Queued, Nothing
<1> QED
  BY <1>1, <1>2, <1>3 DEF Init, Ledger, CallsLedger, MapLedger, QueueLedger, CloseLedger

\* The invariant is inductive.
LEMMA Inductive ==
  /\ Init => IInv
  /\ IInv /\ [Next]_vars => IInv'
<1>1. Init => IInv
  BY TypesInit, PermitsInit, LedgerInit DEF IInv
<1>2. ASSUME IInv, [Next]_vars PROVE IInv'
  <2>1. Types' /\ Permits'
    BY <1>2, TypesStep, PermitsStep DEF IInv
  <2>2. CASE UNCHANGED vars
    BY <1>2, <2>1, <2>2, CallsStay DEF vars, callerVars, sharedVars, taskVars, proxyVars,
         IInv, Ledger, MapLedger, QueueLedger, CloseLedger, Queued, Sending, Cancelling
  <2>3. CASE Next
    BY <1>2, <2>1, <2>3, LedgerCaller, LedgerOther DEF IInv
  <2> QED
    BY <1>2, <2>2, <2>3
<1> QED
  BY <1>1, <1>2

-----------------------------------------------------------------------------
(***************************************************************************)
(* The results.                                                            *)
(***************************************************************************)
\* Every variable keeps its type, and neither channel nor the semaphore
\* exceeds its capacity.
THEOREM TypeCorrect == Spec => []TypeOK
<1>1. IInv => TypeOK
  BY RoomLeft, BoundsAssumption DEF IInv, Types, Permits, TypeOK
<1> QED
  BY <1>1, Inductive, PTL DEF Spec

\* PendingGuard::drop never finds the cancellation channel full, for every
\* number of callers and every MAX_IN_FLIGHT.
THEOREM CancellationAlwaysFits == Spec => []CancelHasRoom
<1>1. IInv => CancelHasRoom
  BY RoomLeft DEF IInv, Permits
<1> QED
  BY <1>1, Inductive, PTL DEF Spec

\* No entry of the waiters' map is forgotten by the call that made it.
THEOREM MapDoesNotLeak == Spec => []EntryHasOwner
<1>1. IInv => EntryHasOwner
  BY ArmedById DEF IInv, Types, Ledger, MapLedger, EntryHasOwner
<1> QED
  BY <1>1, Inductive, PTL DEF Spec

\* A closed connection has no parked waiter, and a waiter whose sender is gone
\* is on a closed connection.
THEOREM ClosingIsClean == Spec => []ClosingIsOrderly
<1>1. IInv => NobodyParkedAfterClose
  BY DEF IInv, Ledger, MapLedger, NobodyParkedAfterClose
<1>2. IInv => HangUpMeansClosed
  BY InIdsAt DEF IInv, Ledger, MapLedger, HangUpMeansClosed, SenderGone, Armed, ArmedIds
<1>3. IInv => ClosingIsOrderly
  BY <1>1, <1>2 DEF ClosingIsOrderly
<1> QED
  BY <1>3, Inductive, PTL DEF Spec

\* Only a call that was queued and then given up is ever cancelled.
THEOREM CancelsAreOwed == Spec => []CancelsAreDue
<1>1. IInv => OnlyAbandonedIsCancelled
  BY DEF IInv, Ledger, QueueLedger, OnlyAbandonedIsCancelled, Abandoned
<1>2. IInv => OnlyQueuedIsCancelled
  BY DEF IInv, Ledger, QueueLedger, OnlyQueuedIsCancelled, Queued, Sending
<1>3. IInv => CancelsAreDue
  BY <1>1, <1>2 DEF CancelsAreDue
<1> QED
  BY <1>3, Inductive, PTL DEF Spec

-----------------------------------------------------------------------------
(***************************************************************************)
(* Refinement of RpcCalls.                                                 *)
(***************************************************************************)
Open == {Cur(c) : c \in {d \in Callers : pc[d] # "idle"}}

\* The open calls of RpcCalls are the calls under way.
LEMMA OpenIsActive == Types => Open = Active
BY DEF Types, Open, Active, IdsAt, Steps

\* And they are so after a step.
LEMMA OpenIsActiveNext == Types' => Open' = Active'
BY DEF Types, Open, Active, IdsAt, Steps

\* A new connection is a new RpcCalls.
LEMMA CallsInit == Init => Calls!Init
<1>1. Init => Open = {}
  BY DEF Init, Open
<1> QED
  BY <1>1 DEF Init, Calls!Init, Open

\* A return is a Finish.
LEMMA ReturnIsFinish ==
  ASSUME IInv, IInv', NEW c \in Callers, pc[c] # "idle",
         NEW o \in {"answer", "closed", "timeout", "dropped"}, Return(c, o),
         UNCHANGED <<seq, accepted, closed>>,
         o = "answer" => Cur(c) \in accepted,
         o = "closed" => closed
  PROVE  Calls!Next
<1>1. Active' = Active \ {Cur(c)} /\ Cur(c) \in Ids
  BY Returns DEF IInv, Ledger
<1>2. Open = Active /\ Open' = Active'
  BY OpenIsActive, OpenIsActiveNext DEF IInv
<1>3. Cur(c) \in Open
  BY DEF Open
<1>4. Calls!Finish(Cur(c), o)
  BY <1>1, <1>2, <1>3 DEF Calls!Finish, Open, Return
<1> QED
  BY <1>1, <1>4 DEF Calls!Next

\* Every step of a caller is a step of RpcCalls or changes nothing there.
LEMMA CallerRefines ==
  ASSUME IInv, IInv', NEW c \in Callers, CallerStep(c)
  PROVE  Calls!Next \/ UNCHANGED Calls!vars
<1> USE DEF sharedVars, taskVars, proxyVars
<1>1. CASE Call(c)
  <2> DEFINE N == <<c, seq[c] + 1>>
  <2>1. /\ seq' = [seq EXCEPT ![c] = seq[c] + 1] /\ pc' = [pc EXCEPT ![c] = "permit"]
        /\ pc[c] = "idle" /\ seq[c] < MaxCalls
        /\ UNCHANGED <<outcome, closed, accepted>>
    BY <1>1 DEF Call, Goto
  <2>2. /\ pc'[c] = "permit" /\ Cur(c)' = N
        /\ \A d \in Callers \ {c} : pc'[d] = pc[d] /\ Cur(d)' = Cur(d)
    BY <2>1 DEF IInv, Types, Cur
  <2>3. Open' = Open \cup {N}
    BY <2>1, <2>2 DEF Open
  <2>4. N \in Ids /\ N[1] = c /\ N[2] = seq[c] + 1 /\ seq[c] \in Nat
    BY <2>1, BoundsAssumption DEF Ids, IInv, Types
  <2>5. outcome[N] = "none"
    BY <2>4 DEF IInv, Ledger, CallsLedger, Done
  <2>6. N \notin Open
    BY <2>1 DEF Open, Cur
  <2>7. PICK id \in Ids : id = N
    BY <2>4
  <2>8. Calls!Open(id)
    BY <2>1, <2>3, <2>5, <2>6, <2>7 DEF Calls!Open, Calls!Opened, Open
  <2> QED
    BY <2>8 DEF Calls!Next
<1>2. CASE AcquirePermit(c) \/ Register(c) \/ Enqueue(c)
  <2>1. /\ UNCHANGED <<seq, outcome, accepted, closed>>
        /\ pc[c] # "idle"
        /\ \E step \in Steps \ {"idle"} : pc' = [pc EXCEPT ![c] = step]
    BY <1>2 DEF AcquirePermit, Register, Enqueue, Goto, Steps
  <2>2. Active' = Active \cup {Cur(c)}
    BY <2>1, MovesActive DEF IInv
  <2>3. Cur(c) \in Active
    BY <2>1, InIdsAt DEF IInv, Types, Active
  <2>4. Open' = Open
    BY <2>2, <2>3, OpenIsActive, OpenIsActiveNext DEF IInv
  <2> QED
    BY <2>1, <2>4 DEF Calls!vars, Open
<1>3. CASE AcquireTimeout(c) \/ EnqueueTimeout(c) \/ WaitTimeout(c)
  BY <1>3, ReturnIsFinish DEF AcquireTimeout, EnqueueTimeout, WaitTimeout
<1>4. CASE DropUnarmed(c) \/ DropArmed(c)
  BY <1>4, ReturnIsFinish DEF DropUnarmed, DropArmed, Armed
<1>5. CASE AcquireClosed(c) \/ RegisterClosed(c) \/ EnqueueClosed(c)
  <2>1. closed
    BY <1>5 DEF AcquireClosed, RegisterClosed, EnqueueClosed, ReceiversGone, IInv, Ledger, CloseLedger
  <2> QED
    BY <1>5, <2>1, ReturnIsFinish DEF AcquireClosed, RegisterClosed, EnqueueClosed
<1>6. CASE TakeClosed(c)
  <2>1. waitersClosed
    BY <1>6, InIdsAt DEF TakeClosed, SenderGone, IInv, Ledger, MapLedger, ArmedIds
  <2>2. closed
    BY <2>1 DEF IInv, Ledger, CloseLedger
  <2> QED
    BY <1>6, <2>2, ReturnIsFinish DEF TakeClosed
<1>7. CASE TakeAnswer(c)
  <2>1. Cur(c) \in accepted
    BY <1>7 DEF TakeAnswer, IInv, Ledger, MapLedger
  <2> QED
    BY <1>7, <2>1, ReturnIsFinish DEF TakeAnswer
<1> QED
  BY <1>1, <1>2, <1>3, <1>4, <1>5, <1>6, <1>7 DEF CallerStep

\* So is every other step: a write is an Accept, a lost socket is a Lose.
LEMMA OtherRefines ==
  ASSUME IInv, IInv', Next, ~\E c \in Callers : CallerStep(c)
  PROVE  Calls!Next \/ UNCHANGED Calls!vars
<1> USE DEF callerVars, sharedVars, taskVars, proxyVars
<1>0. UNCHANGED <<pc, seq, outcome>>
  BY DEF Next, WriterStep, TailStep, MarkClosed, CloseWaiters, PollCancels, PollOutbound,
       Repoll, SendersGone, WriteDone, WriteFail, EndWriter, ReceiveFail, DropConnection,
       Stall, RunRemoval, Receive, Answer
<1>1. Open' = Open
  BY <1>0 DEF Open, Cur
<1>2. CASE WriteDone /\ outgoing.kind = "request"
  <2>1. outgoing.id \in Ids /\ outgoing.id \in Sending
    BY <1>2, OutgoingIsId DEF IInv, Sending
  <2>2. outgoing.id \in WaitIds \cup Done /\ outgoing.id \notin accepted
    BY <2>1 DEF IInv, Ledger, QueueLedger, Queued
  <2>3. outgoing.id \in Open \/ outcome[outgoing.id] # "none"
    BY <2>2, Nested, OpenIsActive DEF IInv, Done
  <2>4. accepted' = accepted \cup {outgoing.id} /\ UNCHANGED closed
    BY <1>2 DEF WriteDone
  <2>5. Calls!Accept(outgoing.id)
    BY <1>0, <1>1, <2>2, <2>3, <2>4 DEF Calls!Accept, Calls!Opened, Open
  <2> QED
    BY <2>1, <2>5 DEF Calls!Next
<1>3. CASE \E t \in {"reader", "writer"} : MarkClosed(t)
  BY <1>0, <1>1, <1>3 DEF MarkClosed, Calls!Next, Calls!Lose, Open
<1>4. CASE /\ ~(WriteDone /\ outgoing.kind = "request")
           /\ ~\E t \in {"reader", "writer"} : MarkClosed(t)
  <2>1. UNCHANGED <<accepted, closed>>
    BY <1>4 DEF Next, WriterStep, TailStep, CloseWaiters, PollCancels, PollOutbound,
         Repoll, SendersGone, WriteDone, WriteFail, EndWriter, ReceiveFail, DropConnection,
         Stall, RunRemoval, Receive, Answer
  <2> QED
    BY <1>0, <1>1, <2>1 DEF Calls!vars, Open
<1> QED
  BY <1>2, <1>3, <1>4

\* The connection implements RpcCalls: calls end once, an answer is reported
\* only for a request the proxy received, "closed" only on a lost connection,
\* and no request is written twice.
THEOREM Refinement == Spec => ImplementsCalls
<1>1. IInv /\ IInv' /\ [Next]_vars => [Calls!Next]_(Calls!vars)
  <2> SUFFICES ASSUME IInv, IInv', [Next]_vars
               PROVE  Calls!Next \/ UNCHANGED Calls!vars
    OBVIOUS
  <2>1. CASE UNCHANGED vars
    BY <2>1 DEF vars, callerVars, taskVars, proxyVars, Calls!vars, Cur
  <2>2. CASE Next
    BY <2>2, CallerRefines, OtherRefines
  <2> QED
    BY <2>1, <2>2
<1> QED
  BY <1>1, Inductive, CallsInit, PTL DEF Spec, ImplementsCalls, Calls!Spec
=============================================================================
