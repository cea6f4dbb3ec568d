-------------------------- MODULE TransactionProofs --------------------------
(***************************************************************************)
(* Proofs about Transaction, for any number of processes, attempts and     *)
(* transactions.                                                           *)
(*                                                                         *)
(* What a process may conclude from an answer rests on the cluster's       *)
(* memory.  The theorems that need it name the assumption: a command is    *)
(* attempted no more often than the cluster remembers its mutation id.     *)
(***************************************************************************)
EXTENDS Transaction, TLAPS

CacheOutlastsRetries == Attempts <= CacheLife

(***************************************************************************)
(* Types.                                                                  *)
(***************************************************************************)
Mutating == {"start", "commit", "abort"}
MutationIds == Handles \X Nat \X Mutating
TxOrNone == Txs \cup {NoTx}

Steps == {"none", "starting", "firstPing", "attachGet", "attachPing", "held", "joining",
          "detached", "commit", "commitById", "abort", "abortById", "dropAbort", "gone"}

Calls == [cmd : Mutating \cup {"get", "ping"}, tx : TxOrNone, n : Nat,
          attempt : Nat \ {0}, allowed : Nat, answer : Answers \cup {"none"},
          mutation : MutationIds \cup {NoMutation}]

Requests == [h : Handles, n : Nat, attempt : Nat \ {0}, cmd : Mutating, tx : TxOrNone,
             mutation : MutationIds \cup {NoMutation}, retry : BOOLEAN]

Entries == [mutation : MutationIds, answer : Answers, tx : TxOrNone]

CallIds == (Handles \X Nat) \cup {NoMutation}

ProcTypes ==
  /\ pc \in [Handles -> Steps]
  /\ id \in [Handles -> TxOrNone]
  /\ call \in [Handles -> Calls \cup {NoCall}]
  /\ calls \in [Handles -> Nat]
  /\ result \in [Handles -> Answers \cup {"none"}]

FlagTypes ==
  /\ decided \in [Handles -> BOOLEAN]
  /\ stop \in [Handles -> BOOLEAN]
  /\ lost \in [Handles -> BOOLEAN]

ClusterTypes ==
  /\ tx \in [Txs -> {"none", "open", "committed", "aborted"}]
  /\ maker \in [Txs -> [created : CallIds, ended : CallIds]]
  /\ cache \in SUBSET Entries
  /\ net \in SUBSET Requests

TypeOK ==
  ProcTypes /\ FlagTypes /\ ClusterTypes /\ thread \in [Handles -> {"none", "wait", "ping"}]

-----------------------------------------------------------------------------
(***************************************************************************)
(* The strengthening.                                                      *)
(***************************************************************************)
\* A starter's first mutating call is its start, its commit the second; an
\* attacher's commit is its first.
CommitNo(h) == IF h \in Starters THEN 2 ELSE 1

Created(t) == t \in Txs /\ tx[t] # "none"

\* Each step of a handle has one command under way, or none.
PcMatchesCall(h) ==
  /\ pc[h] = "starting" <=> call[h].cmd = "start"
  /\ pc[h] \in {"firstPing", "attachPing"} <=> call[h].cmd = "ping"
  /\ pc[h] = "attachGet" <=> call[h].cmd = "get"
  /\ pc[h] \in {"commit", "commitById"} <=> call[h].cmd = "commit"
  /\ pc[h] \in {"abort", "abortById", "dropAbort"} <=> call[h].cmd = "abort"

\* How many mutating calls a process has made, and what it knows by then.
PcMatchesHistory(h) ==
  /\ pc[h] \in {"none", "attachGet", "attachPing"} => calls[h] = 0 /\ thread[h] = "none"
  /\ pc[h] \in {"none", "starting"} => id[h] = NoTx /\ thread[h] = "none"
  /\ pc[h] \in {"starting", "firstPing"} => h \in Starters /\ calls[h] = 1
  /\ pc[h] \in {"attachGet", "attachPing"} => h \in Attachers
  /\ pc[h] \in {"held", "joining", "detached"} => calls[h] = CommitNo(h) - 1
  /\ pc[h] \in {"commit", "commitById"} => calls[h] = CommitNo(h)
  /\ pc[h] \notin {"none", "starting", "gone"} \/ thread[h] # "none" => id[h] # NoTx
  /\ id[h] # NoTx => Created(id[h])

\* The call under way is the latest one, under its own mutation id, about the
\* handle's transaction; an answer it has been given is true.
CallIsSound(h) ==
  LET c == call[h] IN
    c # NoCall =>
      /\ c.n = calls[h]
      /\ c.attempt <= c.allowed /\ c.allowed <= Attempts
      /\ c.cmd \in {"start", "commit"} => c.mutation = <<h, c.n, c.cmd>>
      /\ c.cmd \notin {"start", "commit"} => c.mutation \in {<<h, c.n, c.cmd>>, NoMutation}
      /\ c.cmd # "start" => c.tx = id[h]
      /\ c.cmd = "start" /\ c.answer = "none" => c.tx = NoTx
      /\ c.cmd = "start" /\ c.answer = "ok" => Created(c.tx)
      /\ c.cmd = "commit" /\ c.answer = "ok" => tx[id[h]] = "committed"
      /\ c.cmd = "commit" => c.answer # "duplicate"
      /\ c.cmd = "abort" /\ h \in Attachers => decided[h]

\* What a commit returned is true, and its keep-alive's verdict too.
OutcomeIsSound(h) ==
  /\ result[h] = "ok" => id[h] # NoTx /\ tx[id[h]] = "committed"
  /\ result[h] # "duplicate"
  /\ lost[h] => id[h] # NoTx /\ tx[id[h]] \in {"committed", "aborted"}
  /\ pc[h] \in {"joining", "detached", "commitById", "abortById", "gone"} =>
       stop[h] \/ thread[h] = "none"

\* The cluster remembers having answered h's commit so.
CommitAnswered(h, answer) ==
  \E e \in cache : e.mutation = <<h, CommitNo(h), "commit">> /\ e.answer = answer

\* A commit that was turned down is remembered as turned down.
RefusalsRemembered(h) ==
  CacheOutlastsRetries =>
    \A answer \in {"gone", "refused"} :
      (call[h].cmd = "commit" /\ call[h].answer = answer) \/ result[h] = answer =>
        CommitAnswered(h, answer)

HandleOK(h) ==
  /\ PcMatchesCall(h) /\ PcMatchesHistory(h) /\ CallIsSound(h)
  /\ OutcomeIsSound(h) /\ RefusalsRemembered(h)

\* A request is one its process has sent, and no newer than the call under way.
RequestOK(r) ==
  /\ r.n <= calls[r.h]
  /\ r.retry <=> r.attempt > 1
  /\ r.mutation \in {<<r.h, r.n, r.cmd>>, NoMutation}
  /\ r.cmd = "start" => r.h \in Starters /\ r.n = 1 /\ r.tx = NoTx
  /\ r.cmd # "start" => r.tx = id[r.h] /\ r.tx # NoTx
  /\ r.cmd = "commit" => r.n = CommitNo(r.h)
  /\ r.cmd \in {"start", "commit"} => r.mutation # NoMutation
  /\ r.cmd = "abort" /\ r.h \in Attachers => decided[r.h]
  /\ call[r.h].cmd = r.cmd /\ call[r.h].n = r.n => r.attempt <= call[r.h].attempt

\* A remembered answer is true.
EntryOK(e) ==
  LET h == e.mutation[1]  n == e.mutation[2]  cmd == e.mutation[3] IN
    /\ n <= calls[h]
    /\ cmd = "start" => n = 1 /\ (e.answer = "ok" => Created(e.tx))
    /\ cmd # "start" => e.tx = id[h] /\ e.tx # NoTx
    /\ cmd = "commit" => n = CommitNo(h) /\ (e.answer = "ok" => tx[e.tx] = "committed")
    /\ e.answer \in {"ok", "gone", "refused"}

\* One answer is remembered for each mutation id.
OneAnswerEach == \A e, f \in cache : e.mutation = f.mutation => e = f

\* The first attempt of a commit is not known to the cluster before it arrives.
FirstAttemptIsNew(h) ==
  call[h].cmd = "commit" /\ call[h].attempt = 1 /\ Request(h, call[h]) \in net =>
    \A e \in cache : e.mutation # call[h].mutation

\* Who created and who ended a transaction.
MakerOK(t) ==
  /\ tx[t] # "none" => \E h \in Starters : maker[t].created = <<h, 1>>
  /\ tx[t] = "committed" => \E h \in Handles : maker[t].ended = <<h, CommitNo(h)>>
  /\ tx[t] \in {"none", "open"} => maker[t].ended = NoMutation
  /\ /\ tx[t] = "aborted" /\ maker[t].ended # NoMutation
     /\ maker[t].ended[1] \in Attachers
     => decided[maker[t].ended[1]]

\* What was done is remembered as done.
WorkRemembered(t) ==
  CacheOutlastsRetries =>
    /\ tx[t] # "none" =>
         \E e \in cache : /\ e.mutation = <<maker[t].created[1], 1, "start">>
                          /\ e.tx = t
    /\ tx[t] = "committed" => CommitAnswered(maker[t].ended[1], "ok")

ClusterOK ==
  /\ \A e \in cache : EntryOK(e)
  /\ OneAnswerEach
  /\ \A t \in Txs : MakerOK(t) /\ WorkRemembered(t)

IInv ==
  /\ TypeOK
  /\ \A h \in Handles : HandleOK(h) /\ FirstAttemptIsNew(h)
  /\ \A r \in net : RequestOK(r)
  /\ ClusterOK

-----------------------------------------------------------------------------
(***************************************************************************)
(* Facts about the constants and the records.                              *)
(***************************************************************************)
\* No call under way is told apart from a call by its command.
LEMMA NoCallFacts ==
  /\ NoCall.cmd = "none"
  /\ NoCall \notin Calls
  /\ \A c \in Calls : c # NoCall /\ c.cmd # "none"
BY DEF NoCall, Calls, Mutating

\* A mutation id is not the null one, and says whose call it is.
LEMMA MutationFacts ==
  /\ NoMutation \notin MutationIds /\ NoMutation \notin Handles \X Nat
  /\ \A h \in Handles, n \in Nat, cmd \in Mutating : <<h, n, cmd>> \in MutationIds
  /\ \A m \in MutationIds :
       m = <<m[1], m[2], m[3]>> /\ m[1] \in Handles /\ m[2] \in Nat /\ m[3] \in Mutating
<1>1. \A m \in MutationIds :
        m = <<m[1], m[2], m[3]>> /\ m[1] \in Handles /\ m[2] \in Nat /\ m[3] \in Mutating
  BY DEF MutationIds
<1>2. \A h \in Handles, n \in Nat, cmd \in Mutating : <<h, n, cmd>> \in MutationIds
  BY DEF MutationIds
<1> QED
  BY <1>1, <1>2, NullAssumption DEF MutationIds, Mutating

LEMMA CommitNoFacts == \A h \in Handles : CommitNo(h) \in {1, 2}
BY DEF CommitNo

\* Before anybody has called, there is nothing to be wrong about.
LEMMA InitInv == Init => IInv
<1> SUFFICES ASSUME Init PROVE IInv
  OBVIOUS
<1> USE DEF Init
<1>1. TypeOK
  <2>1. FlagTypes
    BY Zenon DEF FlagTypes
  <2>2. ProcTypes /\ ClusterTypes /\ thread \in [Handles -> {"none", "wait", "ping"}]
    BY DEF ProcTypes, ClusterTypes, Steps, TxOrNone, CallIds
  <2> QED
    BY <2>1, <2>2 DEF TypeOK
<1>2. ASSUME NEW h \in Handles
      PROVE  HandleOK(h) /\ FirstAttemptIsNew(h)
  <2>1. PcMatchesCall(h) /\ PcMatchesHistory(h) /\ CallIsSound(h)
    BY NoCallFacts DEF PcMatchesCall, PcMatchesHistory, CallIsSound
  <2>2. OutcomeIsSound(h)
    BY DEF OutcomeIsSound
  <2>3. RefusalsRemembered(h) /\ FirstAttemptIsNew(h)
    BY NoCallFacts DEF RefusalsRemembered, FirstAttemptIsNew
  <2> QED
    BY <2>1, <2>2, <2>3 DEF HandleOK
<1>3. ClusterOK
  BY DEF ClusterOK, OneAnswerEach, MakerOK, WorkRemembered
<1> QED
  BY <1>1, <1>2, <1>3 DEF IInv

-----------------------------------------------------------------------------
(***************************************************************************)
(* Steps of a handle.                                                      *)
(***************************************************************************)
\* The other processes and their threads stay as they are, and so does the
\* cluster.
OthersKeep(h) ==
  /\ \A k \in Handles \ {h} :
       /\ pc'[k] = pc[k] /\ id'[k] = id[k] /\ call'[k] = call[k] /\ calls'[k] = calls[k]
       /\ result'[k] = result[k] /\ decided'[k] = decided[k]
       /\ thread'[k] = thread[k] /\ stop'[k] = stop[k] /\ lost'[k] = lost[k]
  /\ UNCHANGED <<tx, maker, cache>>

\* The handle keeps the id it has, its count and what it decided.
HistoryGrows(h) ==
  /\ calls'[h] >= calls[h]
  /\ decided[h] => decided'[h]
  /\ id[h] # NoTx => id'[h] = id[h]

\* The call under way ends, or is a newer one, or goes on with a later attempt.
CallMoves(h) ==
  \/ ~Mutates(call'[h].cmd) /\ net' = net
  \/ /\ calls'[h] > calls[h] /\ call'[h].n = calls'[h]
     /\ call'[h] # NoCall /\ call'[h].answer = "none" /\ Mutates(call'[h].cmd)
     /\ net' = net \cup {Request(h, call'[h])}
  \/ /\ call'[h].cmd = call[h].cmd /\ call'[h].n = call[h].n
     /\ call'[h].mutation = call[h].mutation /\ call'[h].tx = call[h].tx
     /\ \/ call'[h].attempt = call[h].attempt /\ net' = net
        \/ /\ call'[h].attempt = call[h].attempt + 1
           /\ call'[h] # NoCall /\ call'[h].answer = "none" /\ Mutates(call'[h].cmd)
           /\ net' = net \cup {Request(h, call'[h])}

\* What such a step leaves of the invariant: the other handles, the requests
\* under way and the cluster.  Only the handle itself is left to look at.
LEMMA HandleStepInv ==
  ASSUME IInv, NEW h \in Handles, TypeOK', OthersKeep(h), HistoryGrows(h), CallMoves(h),
         HandleOK(h)'
  PROVE  IInv'
<1> USE DEF IInv
<1>1. call[h] \in Calls \cup {NoCall} /\ call'[h] \in Calls \cup {NoCall}
      /\ calls[h] \in Nat /\ calls'[h] \in Nat
  BY DEF TypeOK, ProcTypes
<1>2. ASSUME NEW k \in Handles, k # h
      PROVE  HandleOK(k)'
  <2>1. /\ pc'[k] = pc[k] /\ id'[k] = id[k] /\ call'[k] = call[k] /\ calls'[k] = calls[k]
        /\ result'[k] = result[k] /\ decided'[k] = decided[k]
        /\ thread'[k] = thread[k] /\ stop'[k] = stop[k] /\ lost'[k] = lost[k]
        /\ tx' = tx /\ cache' = cache
    BY <1>2 DEF OthersKeep
  <2>2. HandleOK(k)
    OBVIOUS
  <2>3. PcMatchesCall(k)' /\ PcMatchesHistory(k)'
    BY <2>1, <2>2 DEF HandleOK, PcMatchesCall, PcMatchesHistory, Created
  <2>4. CallIsSound(k)'
    BY <2>1, <2>2 DEF HandleOK, CallIsSound, Created
  <2>5. OutcomeIsSound(k)' /\ RefusalsRemembered(k)'
    BY <2>1, <2>2 DEF HandleOK, OutcomeIsSound, RefusalsRemembered, CommitAnswered
  <2> QED
    BY <2>3, <2>4, <2>5 DEF HandleOK
<1>3. ASSUME NEW k \in Handles
      PROVE  FirstAttemptIsNew(k)'
  <2> SUFFICES ASSUME call'[k].cmd = "commit", call'[k].attempt = 1,
                      Request(k, call'[k]) \in net', NEW e \in cache
               PROVE  e.mutation # call'[k].mutation
    BY DEF FirstAttemptIsNew, OthersKeep
  <2>1. FirstAttemptIsNew(k) /\ EntryOK(e) /\ e \in Entries
    BY DEF ClusterOK, TypeOK, ClusterTypes
  <2>2. CASE k # h
    <3>1. call'[k] = call[k]
      BY <2>2 DEF OthersKeep
    <3>2. Request(k, call[k]) # Request(h, call'[h])
      BY <2>2 DEF Request
    <3>3. Request(k, call[k]) \in net
      BY <3>1, <3>2 DEF CallMoves
    <3> QED
      BY <2>1, <3>1, <3>3 DEF FirstAttemptIsNew
  <2>3. CASE k = h /\ calls'[h] > calls[h] /\ call'[h].n = calls'[h]
    <3>1. call'[h].mutation = <<h, call'[h].n, "commit">>
      BY <2>3, NoCallFacts DEF HandleOK, CallIsSound
    <3>2. e.mutation[1] = h => e.mutation[2] <= calls[h]
      BY <2>1 DEF EntryOK
    <3>3. e.mutation[2] \in Nat
      BY <2>1, MutationFacts DEF Entries
    <3> QED
      BY <1>1, <2>3, <3>1, <3>2, <3>3
  <2>4. CASE k = h /\ call'[h].cmd = call[h].cmd /\ call'[h].n = call[h].n
               /\ call'[h].mutation = call[h].mutation /\ call'[h].tx = call[h].tx
               /\ call'[h].attempt = call[h].attempt /\ net' = net
    <3>1. Request(h, call'[h]) = Request(h, call[h])
      BY <2>4 DEF Request
    <3> QED
      BY <2>1, <2>4, <3>1 DEF FirstAttemptIsNew
  <2>5. CASE k = h /\ call[h].cmd = "commit" /\ call'[h].attempt = call[h].attempt + 1
    BY <1>1, <2>5, NoCallFacts DEF Calls
  <2>6. CASE k = h /\ ~Mutates(call'[h].cmd)
    BY <2>6 DEF Mutates
  <2> QED
    BY <2>2, <2>3, <2>4, <2>5, <2>6 DEF CallMoves
<1>4. ASSUME NEW r \in net
      PROVE  RequestOK(r)'
  <2>1. RequestOK(r) /\ r \in Requests
    BY DEF TypeOK, ClusterTypes
  <2>2. CASE r.h # h
    <3>1. /\ r.h \in Handles /\ id'[r.h] = id[r.h] /\ call'[r.h] = call[r.h]
          /\ calls'[r.h] = calls[r.h] /\ decided'[r.h] = decided[r.h]
      BY <2>1, <2>2 DEF OthersKeep, Requests
    <3> QED
      BY <2>1, <3>1 DEF RequestOK
  <2>3. CASE r.h = h
    <3>1. r.n <= calls'[h] /\ (r.cmd # "start" => r.tx = id'[h])
      BY <1>1, <2>1, <2>3 DEF RequestOK, HistoryGrows, Requests
    <3>2. r.cmd = "abort" /\ h \in Attachers => decided'[h]
      BY <2>1, <2>3 DEF RequestOK, HistoryGrows
    <3>3. call'[h].cmd = r.cmd /\ call'[h].n = r.n => r.attempt <= call'[h].attempt
      <4> SUFFICES ASSUME call'[h].cmd = r.cmd, call'[h].n = r.n
                   PROVE  r.attempt <= call'[h].attempt
        OBVIOUS
      <4>1. r.cmd \in Mutating /\ r.n \in Nat /\ r.attempt \in Nat /\ r.n <= calls[h]
        BY <2>1, <2>3 DEF Requests, RequestOK
      <4>2. call'[h] \in Calls /\ Mutates(call'[h].cmd)
        BY <1>1, <4>1, NoCallFacts DEF Mutates, Mutating
      <4>3. call'[h].cmd = call[h].cmd /\ call'[h].n = call[h].n
        BY <1>1, <4>1, <4>2 DEF CallMoves
      <4>4. call[h] \in Calls
        BY <1>1, <4>2, <4>3, NoCallFacts DEF Mutates
      <4>5. r.attempt <= call[h].attempt
        BY <2>1, <2>3, <4>3 DEF RequestOK
      <4>6. call'[h].attempt \in {call[h].attempt, call[h].attempt + 1}
        BY <1>1, <4>1, <4>2 DEF CallMoves
      <4> QED
        BY <4>1, <4>4, <4>5, <4>6 DEF Calls
    <3> QED
      BY <2>1, <2>3, <3>1, <3>2, <3>3 DEF RequestOK
  <2> QED
    BY <2>2, <2>3
<1>5. ASSUME NEW r, r = Request(h, call'[h]),
             call'[h] # NoCall, call'[h].answer = "none", Mutates(call'[h].cmd)
      PROVE  RequestOK(r)'
  <2> DEFINE c == call'[h]
  <2>1. c \in Calls
    BY <1>1, <1>5
  <2>2. /\ r.h = h /\ r.n = c.n /\ r.attempt = c.attempt /\ r.cmd = c.cmd /\ r.tx = c.tx
        /\ r.mutation = c.mutation /\ (r.retry <=> r.attempt > 1)
    BY <1>5 DEF Request
  <2>3. /\ c.n = calls'[h]
        /\ c.cmd \in {"start", "commit"} => c.mutation = <<h, c.n, c.cmd>>
        /\ c.mutation \in {<<h, c.n, c.cmd>>, NoMutation}
        /\ c.cmd # "start" => c.tx = id'[h]
        /\ c.cmd = "start" => c.tx = NoTx
        /\ c.cmd = "abort" /\ h \in Attachers => decided'[h]
    BY <1>5 DEF HandleOK, CallIsSound
  <2>4. /\ c.cmd = "start" => h \in Starters /\ c.n = 1
        /\ c.cmd = "commit" => c.n = CommitNo(h)
        /\ c.cmd # "start" => id'[h] # NoTx
    BY <1>5, <2>3 DEF HandleOK, PcMatchesCall, PcMatchesHistory, Mutates
  <2>5. c.cmd \in {"start", "commit"} => c.mutation # NoMutation
    <3>1. c.n \in Nat
      BY <2>1 DEF Calls
    <3>2. c.cmd \in {"start", "commit"} => <<h, c.n, c.cmd>> \in MutationIds
      BY <3>1, MutationFacts DEF Mutating
    <3> QED
      BY <2>3, <3>2, MutationFacts
  <2>6. c.n \in Nat /\ c.attempt \in Nat
    BY <2>1 DEF Calls
  <2> QED
    BY <2>2, <2>3, <2>4, <2>5, <2>6 DEF RequestOK
<1>6. \A r \in net' : RequestOK(r)'
  BY <1>4, <1>5 DEF CallMoves
<1>7. ClusterOK'
  <2>1. ASSUME NEW e \in cache
        PROVE  EntryOK(e)'
    <3>1. e.mutation[1] \in Handles /\ e.mutation[2] \in Nat /\ EntryOK(e)
      BY MutationFacts DEF TypeOK, ClusterTypes, Entries, ClusterOK
    <3>2. tx' = tx /\ calls[e.mutation[1]] \in Nat /\ calls'[e.mutation[1]] \in Nat
      BY <3>1 DEF OthersKeep, TypeOK, ProcTypes
    <3>3. CASE e.mutation[1] = h
      BY <3>1, <3>2, <3>3 DEF EntryOK, HistoryGrows, Created
    <3>4. CASE e.mutation[1] # h
      <4>1. /\ calls'[e.mutation[1]] = calls[e.mutation[1]]
            /\ id'[e.mutation[1]] = id[e.mutation[1]]
        BY <3>1, <3>4 DEF OthersKeep
      <4> QED
        BY <3>1, <3>2, <4>1 DEF EntryOK, Created
    <3> QED
      BY <3>3, <3>4
  <2>2. ASSUME NEW t \in Txs
        PROVE  MakerOK(t)'
    <3>1. tx' = tx /\ maker' = maker /\ MakerOK(t)
      BY DEF OthersKeep, ClusterOK
    <3>2. maker[t].ended # NoMutation => maker[t].ended[1] \in Handles
      BY DEF TypeOK, ClusterTypes, CallIds
    <3>3. \A k \in Handles : decided[k] => decided'[k]
      BY DEF OthersKeep, HistoryGrows
    <3> QED
      BY <3>1, <3>2, <3>3 DEF MakerOK
  <2>3. ASSUME NEW t \in Txs
        PROVE  WorkRemembered(t)'
    <3>1. tx' = tx /\ maker' = maker /\ cache' = cache /\ WorkRemembered(t)
      BY DEF OthersKeep, ClusterOK
    <3> QED
      BY <3>1 DEF WorkRemembered, CommitAnswered
  <2> QED
    BY <2>1, <2>2, <2>3 DEF ClusterOK, OneAnswerEach, OthersKeep
<1> QED
  BY <1>2, <1>3, <1>6, <1>7

\* What beginning a command does: a fresh number for a mutating one, which is
\* sent, and a first attempt that waits.
Began(h, cmd, t, repeatable, allowed) ==
  /\ call' \in [Handles -> Calls \cup {NoCall}]
  /\ calls' \in [Handles -> Nat]
  /\ net' \in SUBSET Requests
  /\ \A k \in Handles \ {h} : call'[k] = call[k] /\ calls'[k] = calls[k]
  /\ call'[h] \in Calls
  /\ call'[h].cmd = cmd /\ call'[h].tx = t /\ call'[h].n = calls'[h]
  /\ call'[h].attempt = 1 /\ call'[h].allowed = allowed /\ call'[h].answer = "none"
  /\ call'[h].mutation = IF repeatable = "WithMutationId"
                         THEN <<h, calls'[h], cmd>> ELSE NoMutation
  /\ calls'[h] = IF cmd \in Mutating THEN calls[h] + 1 ELSE calls[h]
  /\ CallMoves(h)

LEMMA BeginFacts ==
  ASSUME IInv, NEW h \in Handles, NEW cmd \in Mutating \cup {"get", "ping"},
         NEW t \in TxOrNone, NEW repeatable \in {"WithMutationId", "Freely"},
         NEW allowed \in Nat,
         repeatable = "WithMutationId" => cmd \in Mutating,
         Begin(h, cmd, t, repeatable, allowed)
  PROVE  Began(h, cmd, t, repeatable, allowed)
<1> DEFINE m == IF repeatable = "WithMutationId" THEN <<h, calls'[h], cmd>> ELSE NoMutation
           c == [cmd |-> cmd, tx |-> t, n |-> calls'[h], attempt |-> 1, allowed |-> allowed,
                 answer |-> "none", mutation |-> m]
<1>1. call \in [Handles -> Calls \cup {NoCall}] /\ calls \in [Handles -> Nat]
      /\ net \in SUBSET Requests
  BY DEF IInv, TypeOK, ProcTypes, ClusterTypes
<1>2. Mutates(cmd) <=> cmd \in Mutating
  BY DEF Mutates, Mutating
<1>3. /\ calls' \in [Handles -> Nat]
      /\ \A k \in Handles \ {h} : calls'[k] = calls[k]
      /\ calls'[h] = IF cmd \in Mutating THEN calls[h] + 1 ELSE calls[h]
  BY <1>1, <1>2 DEF Begin
<1>4. call' = [call EXCEPT ![h] = c]
      /\ net' = IF Mutates(cmd) THEN net \cup {Request(h, c)} ELSE net
  BY DEF Begin, Send
<1>5. m \in MutationIds \cup {NoMutation}
  BY <1>3, MutationFacts
<1>6. c \in Calls
  BY <1>3, <1>5 DEF Calls
<1>7. call' \in [Handles -> Calls \cup {NoCall}] /\ call'[h] = c
      /\ \A k \in Handles \ {h} : call'[k] = call[k]
  BY <1>1, <1>4, <1>6
<1>8. Mutates(cmd) => Request(h, c) \in Requests
  <2>1. (c.attempt > 1) \in BOOLEAN
    OBVIOUS
  <2> QED
    BY <1>2, <1>3, <1>5, <2>1 DEF Request, Requests
<1>9. net' \in SUBSET Requests
  BY <1>1, <1>4, <1>8
<1>10. CallMoves(h)
  <2>1. c.cmd = cmd /\ c.n = calls'[h] /\ c.answer = "none"
    OBVIOUS
  <2>2. CASE Mutates(cmd)
    <3>1. calls'[h] > calls[h]
      BY <1>1, <1>2, <1>3, <2>2
    <3>2. call'[h] # NoCall
      BY <1>6, <1>7, NoCallFacts
    <3> HIDE DEF c
    <3> QED
      BY <1>4, <1>7, <2>1, <2>2, <3>1, <3>2 DEF CallMoves
  <2>3. CASE ~Mutates(cmd)
    BY <1>4, <1>7, <2>1, <2>3 DEF CallMoves
  <2> QED
    BY <2>2, <2>3
<1> QED
  BY <1>3, <1>6, <1>7, <1>9, <1>10 DEF Began

\* A command begun on the handle's transaction is sound: nothing is known of
\* its answer.
LEMMA BeganIsSound ==
  ASSUME NEW h \in Handles, NEW cmd \in Mutating \cup {"get", "ping"},
         NEW t \in TxOrNone, NEW repeatable \in {"WithMutationId", "Freely"},
         NEW allowed \in Nat, 1 <= allowed, allowed <= Attempts,
         Began(h, cmd, t, repeatable, allowed),
         cmd \in {"start", "commit"} => repeatable = "WithMutationId",
         IF cmd = "start" THEN t = NoTx ELSE t = id'[h],
         cmd = "abort" /\ h \in Attachers => decided'[h]
  PROVE  CallIsSound(h)'
BY DEF Began, CallIsSound

\* Raising a flag of one handle.
LEMMA RaiseFlag ==
  ASSUME NEW f \in [Handles -> BOOLEAN], NEW h \in Handles
  PROVE  /\ [f EXCEPT ![h] = TRUE] \in [Handles -> BOOLEAN]
         /\ [f EXCEPT ![h] = TRUE][h] = TRUE
         /\ \A k \in Handles \ {h} : [f EXCEPT ![h] = TRUE][k] = f[k]
BY Zenon

\* What commit() returns is what its call was answered.
ResultFollows(h) ==
  \/ result'[h] = result[h]
  \/ call[h].cmd = "commit" /\ result'[h] = call[h].answer

\* A step of a handle that ends with no call under way, or with one that waits.
LEMMA CallChangesInv ==
  ASSUME IInv, NEW h \in Handles, TypeOK', OthersKeep(h), HistoryGrows(h),
         CallMoves(h), ResultFollows(h),
         call'[h].cmd = "none" \/ call'[h].answer = "none",
         PcMatchesCall(h)', PcMatchesHistory(h)', CallIsSound(h)', OutcomeIsSound(h)'
  PROVE  IInv'
<1>1. RefusalsRemembered(h) /\ cache' = cache
  BY DEF IInv, HandleOK, OthersKeep
<1>2. RefusalsRemembered(h)'
  BY <1>1 DEF RefusalsRemembered, CommitAnswered, ResultFollows
<1>3. HandleOK(h)'
  BY <1>2 DEF HandleOK
<1> QED
  BY <1>3, HandleStepInv

\* The step leaves the handle's keep-alive and what it knows alone.
LEMMA OutcomeKept ==
  ASSUME NEW h \in Handles, OutcomeIsSound(h), OthersKeep(h),
         UNCHANGED <<id, result, lost, stop, thread>>,
         pc'[h] \in {"joining", "detached", "commitById", "abortById", "gone"} =>
           pc[h] \in {"joining", "detached", "commitById", "abortById", "gone"}
             \/ stop[h] \/ thread[h] = "none"
  PROVE  OutcomeIsSound(h)'
BY DEF OutcomeIsSound, OthersKeep

\* A start is the first call of a starter that has nothing.
LEMMA StartInv ==
  ASSUME IInv, NEW h \in Handles, Start(h)
  PROVE  IInv'
<1>1. /\ h \in Starters /\ pc[h] = "none" /\ HandleOK(h)
      /\ Begin(h, "start", NoTx, "WithMutationId", Attempts)
      /\ pc' = [pc EXCEPT ![h] = "starting"]
      /\ UNCHANGED <<id, result, decided, thread, stop, lost, tx, maker, cache>>
  BY DEF IInv, Start, Goto, threadVars
<1>2. Attempts \in Nat /\ 1 <= Attempts /\ NoTx \in TxOrNone /\ "start" \in Mutating
  BY AttemptsAssumption DEF TxOrNone, Mutating
<1>3. Began(h, "start", NoTx, "WithMutationId", Attempts)
  BY <1>1, <1>2, BeginFacts
<1>4. CallIsSound(h)'
  BY <1>2, <1>3, BeganIsSound
<1> USE DEF Began
<1>5. TypeOK'
  BY <1>1, <1>3 DEF IInv, TypeOK, ProcTypes, FlagTypes, ClusterTypes, Steps
<1>6. OthersKeep(h) /\ pc'[h] = "starting"
  BY <1>1, <1>3 DEF OthersKeep, IInv, TypeOK, ProcTypes
<1>7. calls[h] = 0 /\ id[h] = NoTx /\ thread[h] = "none"
  BY <1>1 DEF HandleOK, PcMatchesHistory
<1>8. HistoryGrows(h) /\ ResultFollows(h)
  BY <1>1, <1>2, <1>3, <1>7 DEF HistoryGrows, ResultFollows
<1>9. PcMatchesCall(h)' /\ PcMatchesHistory(h)'
  BY <1>1, <1>2, <1>3, <1>6, <1>7 DEF PcMatchesCall, PcMatchesHistory
<1>10. OutcomeIsSound(h)'
  BY <1>1, <1>6, OutcomeKept DEF HandleOK
<1> QED
  BY <1>3, <1>4, <1>5, <1>6, <1>8, <1>9, <1>10, CallChangesInv

\* A step of a handle that ends with no call under way.
LEMMA IdleInv ==
  ASSUME IInv, NEW h \in Handles, TypeOK', OthersKeep(h), HistoryGrows(h), ResultFollows(h),
         call'[h] = NoCall, net' = net, pc'[h] \in {"held", "joining", "detached", "gone"},
         PcMatchesHistory(h)', OutcomeIsSound(h)'
  PROVE  IInv'
<1>1. CallMoves(h) /\ PcMatchesCall(h)' /\ CallIsSound(h)' /\ call'[h].cmd = "none"
  BY NoCallFacts DEF CallMoves, Mutates, PcMatchesCall, CallIsSound
<1> QED
  BY <1>1, CallChangesInv

\* Apart from its step and its call, only the handle's flags and result change.
FinishFrame(h) ==
  /\ UNCHANGED <<id, thread, lost, tx, maker, cache>> /\ FlagTypes'
  /\ result' \in [Handles -> Answers \cup {"none"}]
  /\ \A k \in Handles \ {h} :
       result'[k] = result[k] /\ decided'[k] = decided[k] /\ stop'[k] = stop[k]
  /\ decided[h] => decided'[h]

\* A handle that has its transaction begins to commit or to abort it.
LEMMA FinishBeginsInv ==
  ASSUME IInv, NEW h \in Handles, pc[h] \notin {"none", "starting", "gone"},
         NEW step \in {"commit", "commitById", "abort", "abortById", "dropAbort"},
         NEW cmd \in {"commit", "abort"}, cmd = "commit" <=> step \in {"commit", "commitById"},
         NEW repeatable \in {"WithMutationId", "Freely"},
         NEW allowed \in Nat, 1 <= allowed, allowed <= Attempts,
         Begin(h, cmd, id[h], repeatable, allowed), Goto(h, step),
         cmd = "commit" => calls[h] = CommitNo(h) - 1 /\ repeatable = "WithMutationId",
         cmd = "abort" /\ h \in Attachers => decided'[h],
         FinishFrame(h), ResultFollows(h), OutcomeIsSound(h)'
  PROVE  IInv'
<1>1. id[h] \in TxOrNone /\ id[h] # NoTx /\ Created(id[h])
  BY DEF IInv, TypeOK, ProcTypes, HandleOK, PcMatchesHistory
<1>2. cmd \in Mutating
  BY DEF Mutating
<1> USE DEF FinishFrame, Goto
<1>3. Began(h, cmd, id[h], repeatable, allowed)
  BY <1>1, <1>2, BeginFacts
<1>4. CallIsSound(h)'
  BY <1>1, <1>2, <1>3, BeganIsSound
<1> USE DEF Began
<1>5. TypeOK'
  BY <1>3 DEF IInv, TypeOK, ProcTypes, ClusterTypes, Steps
<1>6. OthersKeep(h) /\ pc'[h] = step
  BY <1>3 DEF OthersKeep, IInv, TypeOK, ProcTypes
<1>7. calls[h] \in Nat /\ CommitNo(h) \in {1, 2} /\ calls'[h] = calls[h] + 1
  BY <1>2, <1>3, CommitNoFacts DEF IInv, TypeOK, ProcTypes
<1>8. HistoryGrows(h)
  BY <1>7 DEF HistoryGrows
<1>9. PcMatchesCall(h)'
  BY <1>3, <1>6 DEF PcMatchesCall
<1>10. PcMatchesHistory(h)'
  BY <1>1, <1>6, <1>7 DEF PcMatchesHistory, Created, CommitNo
<1> QED
  BY <1>3, <1>4, <1>5, <1>6, <1>8, <1>9, <1>10, CallChangesInv

\* An answered start gives the handle its transaction, with one call made.
LEMMA StartedInv ==
  ASSUME IInv, NEW h \in Handles, Started(h)
  PROVE  IInv'
<1> DEFINE t == call[h].tx
<1>1. /\ pc[h] = "starting" /\ call[h] # NoCall /\ call[h].answer = "ok" /\ HandleOK(h)
      /\ id' = [id EXCEPT ![h] = t]
      /\ UNCHANGED <<result, decided, stop, lost, tx, maker, cache>>
  BY DEF IInv, Started, Finished, Ok
<1>2. PICK how \in {"wait", "none"} : thread' = [thread EXCEPT ![h] = how]
  BY DEF Started, Spawn
<1>3. /\ t \in Txs /\ tx[t] # "none" /\ id[h] = NoTx /\ h \in Starters /\ calls[h] = 1
      /\ thread[h] = "none" /\ CommitNo(h) = 2
  BY <1>1 DEF HandleOK, PcMatchesCall, PcMatchesHistory, CallIsSound, Created, CommitNo
<1>4. result[h] # "ok" /\ result[h] # "duplicate" /\ ~lost[h]
  BY <1>1, <1>3 DEF HandleOK, OutcomeIsSound
<1>5. /\ id' \in [Handles -> TxOrNone] /\ id'[h] = t
      /\ thread' \in [Handles -> {"none", "wait", "ping"}]
      /\ \A k \in Handles \ {h} : id'[k] = id[k] /\ thread'[k] = thread[k]
  BY <1>1, <1>2, <1>3 DEF IInv, TypeOK, ProcTypes, TxOrNone
<1>6. t \in TxOrNone /\ t # NoTx
  BY <1>3, NullAssumption DEF TxOrNone
<1>7. CASE Goto(h, "held") /\ HangUp(h) /\ UNCHANGED <<calls, net>>
  <2>1. /\ pc' = [pc EXCEPT ![h] = "held"] /\ call' = [call EXCEPT ![h] = NoCall]
        /\ calls' = calls /\ net' = net
    BY <1>7 DEF Goto, HangUp
  <2>2. TypeOK'
    BY <1>1, <1>5, <2>1 DEF IInv, TypeOK, ProcTypes, FlagTypes, ClusterTypes, Steps
  <2>3. OthersKeep(h) /\ pc'[h] = "held" /\ call'[h] = NoCall
    BY <1>1, <1>5, <2>1 DEF OthersKeep, IInv, TypeOK, ProcTypes
  <2>4. HistoryGrows(h) /\ ResultFollows(h)
    BY <1>1, <1>3, <2>1 DEF HistoryGrows, ResultFollows
  <2>5. PcMatchesHistory(h)'
    BY <1>1, <1>3, <1>5, <1>6, <2>1, <2>3 DEF PcMatchesHistory, Created, CommitNo
  <2>6. OutcomeIsSound(h)'
    BY <1>1, <1>4, <2>3 DEF OutcomeIsSound
  <2> QED
    BY <2>1, <2>2, <2>3, <2>4, <2>5, <2>6, IdleInv
<1>8. CASE Goto(h, "firstPing") /\ Begin(h, "ping", t, "Freely", Attempts)
  <2>1. Attempts \in Nat /\ 1 <= Attempts /\ "ping" \notin Mutating
    BY AttemptsAssumption DEF Mutating
  <2>2. Began(h, "ping", t, "Freely", Attempts)
    BY <1>6, <1>8, <2>1, BeginFacts
  <2>3. CallIsSound(h)'
    BY <1>5, <1>6, <2>1, <2>2, BeganIsSound
  <2>4. pc' = [pc EXCEPT ![h] = "firstPing"]
    BY <1>8 DEF Goto
  <2>5. TypeOK'
    BY <1>1, <1>5, <2>2, <2>4
    DEF IInv, TypeOK, ProcTypes, FlagTypes, ClusterTypes, Steps, Began
  <2>6. OthersKeep(h) /\ pc'[h] = "firstPing"
    BY <1>1, <1>5, <2>2, <2>4 DEF OthersKeep, IInv, TypeOK, ProcTypes, Began
  <2>7. calls'[h] = calls[h] /\ call'[h].cmd = "ping" /\ call'[h].answer = "none"
        /\ CallMoves(h)
    BY <2>1, <2>2 DEF Began
  <2>8. HistoryGrows(h) /\ ResultFollows(h)
    BY <1>1, <1>3, <2>7 DEF HistoryGrows, ResultFollows
  <2>9. PcMatchesCall(h)' /\ PcMatchesHistory(h)'
    BY <1>1, <1>3, <1>5, <1>6, <2>6, <2>7 DEF PcMatchesCall, PcMatchesHistory, Created
  <2>10. OutcomeIsSound(h)'
    BY <1>1, <1>4, <2>6 DEF OutcomeIsSound
  <2> QED
    BY <2>3, <2>5, <2>6, <2>7, <2>8, <2>9, <2>10, CallChangesInv
<1> QED
  BY <1>7, <1>8 DEF Started

\* A start that did not work leaves nothing behind that its handle knows of.
LEMMA StartFailedInv ==
  ASSUME IInv, NEW h \in Handles, StartFailed(h)
  PROVE  IInv'
<1>1. /\ pc[h] = "starting" /\ HandleOK(h)
      /\ pc' = [pc EXCEPT ![h] = "gone"] /\ call' = [call EXCEPT ![h] = NoCall]
      /\ UNCHANGED <<id, calls, result, decided, thread, stop, lost, tx, maker, cache, net>>
  BY DEF IInv, StartFailed, Finished, Goto, HangUp, threadVars, clusterVars
<1>2. id[h] = NoTx /\ thread[h] = "none" /\ calls[h] \in Nat
  BY <1>1 DEF HandleOK, PcMatchesHistory, IInv, TypeOK, ProcTypes
<1>3. TypeOK'
  BY <1>1 DEF IInv, TypeOK, ProcTypes, FlagTypes, ClusterTypes, Steps
<1>4. OthersKeep(h) /\ pc'[h] = "gone" /\ call'[h] = NoCall
  BY <1>1 DEF OthersKeep, IInv, TypeOK, ProcTypes
<1>5. HistoryGrows(h) /\ ResultFollows(h)
  BY <1>1, <1>2 DEF HistoryGrows, ResultFollows
<1>6. PcMatchesHistory(h)'
  BY <1>1, <1>2, <1>4 DEF PcMatchesHistory
<1>7. OutcomeIsSound(h)'
  BY <1>1, <1>2, <1>4, OutcomeKept DEF HandleOK
<1> QED
  BY <1>1, <1>3, <1>4, <1>5, <1>6, <1>7, IdleInv

\* A started handle that is dropped begins an abort of its transaction.
LEMMA DropAbortInv ==
  ASSUME IInv, NEW h \in Starters, pc[h] \notin {"none", "starting", "gone"},
         BeginDropAbort(h), FinishFrame(h), ResultFollows(h), OutcomeIsSound(h)'
  PROVE  IInv'
<1>1. Begin(h, "abort", id[h], "WithMutationId", 1) /\ Goto(h, "dropAbort")
  BY DEF BeginDropAbort
<1>2. h \in Handles /\ h \notin Attachers /\ 1 <= Attempts /\ 1 \in Nat
  BY HandlesAssumption, AttemptsAssumption DEF Handles
<1> QED
  BY <1>1, <1>2, FinishBeginsInv

\* The first ping is a read: the handle is held, or dropped.
LEMMA FirstPingInv ==
  ASSUME IInv, NEW h \in Handles, FirstPing(h)
  PROVE  IInv'
<1>1. /\ pc[h] = "firstPing" /\ HandleOK(h)
      /\ UNCHANGED <<id, result, decided, thread, stop, lost, tx, maker, cache>>
  BY DEF IInv, FirstPing, Finished, threadVars
<1>2. h \in Starters /\ calls[h] = 1 /\ id[h] # NoTx /\ CommitNo(h) = 2
  BY <1>1 DEF HandleOK, PcMatchesHistory, CommitNo
<1>3. ResultFollows(h) /\ FlagTypes'
  BY <1>1 DEF ResultFollows, IInv, TypeOK, FlagTypes
<1>4. CASE Goto(h, "held") /\ HangUp(h) /\ UNCHANGED <<calls, net>>
  <2>1. /\ pc' = [pc EXCEPT ![h] = "held"] /\ call' = [call EXCEPT ![h] = NoCall]
        /\ calls' = calls /\ net' = net
    BY <1>4 DEF Goto, HangUp
  <2>2. TypeOK'
    BY <1>1, <2>1 DEF IInv, TypeOK, ProcTypes, FlagTypes, ClusterTypes, Steps
  <2>3. OthersKeep(h) /\ pc'[h] = "held" /\ call'[h] = NoCall
    BY <1>1, <2>1 DEF OthersKeep, IInv, TypeOK, ProcTypes
  <2>4. HistoryGrows(h)
    BY <1>1, <1>2, <2>1 DEF HistoryGrows
  <2>5. PcMatchesHistory(h)'
    BY <1>1, <1>2, <2>1, <2>3 DEF HandleOK, PcMatchesHistory, Created, CommitNo
  <2>6. OutcomeIsSound(h)'
    BY <1>1, <2>3, OutcomeKept DEF HandleOK
  <2> QED
    BY <1>3, <2>1, <2>2, <2>3, <2>4, <2>5, <2>6, IdleInv
<1>5. CASE BeginDropAbort(h)
  <2>1. pc'[h] = "dropAbort"
    BY <1>5 DEF BeginDropAbort, Goto, IInv, TypeOK, ProcTypes
  <2>2. OutcomeIsSound(h)'
    BY <1>1, <2>1 DEF HandleOK, OutcomeIsSound
  <2>3. FinishFrame(h)
    BY <1>1, <1>3 DEF FinishFrame, IInv, TypeOK, ProcTypes
  <2> QED
    BY <1>1, <1>2, <1>3, <1>5, <2>2, <2>3, DropAbortInv
<1> QED
  BY <1>4, <1>5 DEF FirstPing

\* A read begun by a handle that attaches.
LEMMA AttachReadsInv ==
  ASSUME IInv, NEW h \in Attachers, NEW t \in Txs, tx[t] # "none", id'[h] = t,
         NEW step \in {"attachGet", "attachPing"}, NEW cmd \in {"get", "ping"},
         cmd = "get" <=> step = "attachGet",
         pc[h] \in {"none", "attachGet"}, id[h] \in {NoTx, t},
         id' \in [Handles -> TxOrNone], \A k \in Handles \ {h} : id'[k] = id[k],
         Begin(h, cmd, t, "Freely", Attempts), Goto(h, step),
         UNCHANGED <<result, decided, threadVars, tx, maker, cache>>
  PROVE  IInv'
<1>1. h \in Handles /\ HandleOK(h) /\ cmd \notin Mutating
  BY DEF Handles, IInv, Mutating
<1>2. calls[h] = 0 /\ thread[h] = "none"
  BY <1>1 DEF HandleOK, PcMatchesHistory
<1>3. t \in TxOrNone /\ t # NoTx /\ Attempts \in Nat /\ 1 <= Attempts
  BY NullAssumption, AttemptsAssumption DEF TxOrNone
<1>4. Began(h, cmd, t, "Freely", Attempts)
  BY <1>1, <1>3, BeginFacts
<1>5. CallIsSound(h)'
  BY <1>1, <1>3, <1>4, BeganIsSound
<1>6. TypeOK'
  BY <1>4 DEF IInv, TypeOK, ProcTypes, FlagTypes, ClusterTypes, Steps, Began, Goto, threadVars
<1>7. OthersKeep(h) /\ pc'[h] = step
  BY <1>1, <1>4 DEF OthersKeep, IInv, TypeOK, ProcTypes, Began, Goto, threadVars
<1>8. calls'[h] = calls[h] /\ call'[h].cmd = cmd /\ call'[h].answer = "none" /\ CallMoves(h)
  BY <1>1, <1>4 DEF Began
<1>9. HistoryGrows(h) /\ ResultFollows(h)
  BY <1>2, <1>8 DEF HistoryGrows, ResultFollows
<1>10. PcMatchesCall(h)'
  BY <1>7, <1>8 DEF PcMatchesCall
<1>11. PcMatchesHistory(h)'
  BY <1>2, <1>3, <1>7, <1>8 DEF PcMatchesHistory, Created, threadVars
<1>12. OutcomeIsSound(h)'
  BY <1>1, <1>3, <1>7 DEF HandleOK, OutcomeIsSound, threadVars
<1> QED
  BY <1>1, <1>5, <1>6, <1>7, <1>8, <1>9, <1>10, <1>11, <1>12, CallChangesInv

LEMMA AttachInv ==
  ASSUME IInv, NEW h \in Handles, Attach(h)
  PROVE  IInv'
<1>1. PICK s \in Starters : /\ id[s] # NoTx /\ id' = [id EXCEPT ![h] = id[s]]
                            /\ Begin(h, "get", id[s], "Freely", Attempts)
  BY DEF Attach
<1>2. h \in Attachers /\ pc[h] = "none" /\ Goto(h, "attachGet") /\ id[h] = NoTx
      /\ UNCHANGED <<result, decided, threadVars, tx, maker, cache>>
  BY DEF Attach, IInv, HandleOK, PcMatchesHistory
<1>3. id[s] \in Txs /\ tx[id[s]] # "none"
  BY <1>1 DEF Handles, IInv, HandleOK, PcMatchesHistory, Created
<1>4. id' \in [Handles -> TxOrNone] /\ id'[h] = id[s] /\ \A k \in Handles \ {h} : id'[k] = id[k]
  BY <1>1, <1>3 DEF IInv, TypeOK, ProcTypes, TxOrNone
<1> QED
  BY <1>1, <1>2, <1>3, <1>4, AttachReadsInv

\* A handle that goes has told its keep-alive, or has none.
GoneFrame(h) ==
  /\ UNCHANGED <<id, calls, decided, lost, tx, maker, cache, net>> /\ FlagTypes'
  /\ thread' \in [Handles -> {"none", "wait", "ping"}]
  /\ result' \in [Handles -> Answers \cup {"none"}]
  /\ \A k \in Handles \ {h} :
       result'[k] = result[k] /\ stop'[k] = stop[k] /\ thread'[k] = thread[k]
  /\ thread'[h] \in {thread[h], "none"} /\ (stop'[h] \/ thread'[h] = "none")

\* A handle that gives up, that is finished or that is abandoned.
LEMMA GoneInv ==
  ASSUME IInv, NEW h \in Handles, pc[h] # "none", Goto(h, "gone"), HangUp(h),
         GoneFrame(h), ResultFollows(h)
  PROVE  IInv'
<1> USE DEF GoneFrame
<1>1. TypeOK'
  BY DEF IInv, TypeOK, ProcTypes, FlagTypes, ClusterTypes, Steps, Goto, HangUp
<1>2. OthersKeep(h) /\ pc'[h] = "gone" /\ call'[h] = NoCall
  BY DEF OthersKeep, IInv, TypeOK, ProcTypes, Goto, HangUp
<1>3. HistoryGrows(h) /\ HandleOK(h)
  BY DEF HistoryGrows, IInv, TypeOK, ProcTypes
<1>4. PcMatchesHistory(h)'
  BY <1>2, <1>3 DEF HandleOK, PcMatchesHistory, Created
<1>5. OutcomeIsSound(h)'
  <2>1. /\ result'[h] = "ok" => id[h] # NoTx /\ tx[id[h]] = "committed"
        /\ result'[h] # "duplicate"
    BY <1>3, NoCallFacts DEF ResultFollows, HandleOK, OutcomeIsSound, CallIsSound, PcMatchesCall,
          PcMatchesHistory
  <2> QED
    BY <1>2, <1>3, <2>1 DEF HandleOK, OutcomeIsSound
<1> QED
  BY <1>1, <1>2, <1>3, <1>4, <1>5, IdleInv

LEMMA AttachGotInv ==
  ASSUME IInv, NEW h \in Handles, AttachGot(h)
  PROVE  IInv'
<1>1. pc[h] = "attachGet" /\ HandleOK(h)
      /\ UNCHANGED <<id, result, decided, threadVars, tx, maker, cache>>
  BY DEF IInv, AttachGot, Finished
<1>2. h \in Attachers /\ id[h] \in Txs /\ tx[id[h]] # "none" /\ thread[h] = "none"
  BY <1>1 DEF HandleOK, PcMatchesHistory, Created
<1>3. CASE Begin(h, "ping", id[h], "Freely", Attempts) /\ Goto(h, "attachPing")
  <2>1. id' \in [Handles -> TxOrNone] /\ id'[h] = id[h] /\ \A k \in Handles \ {h} : id'[k] = id[k]
    BY <1>1 DEF IInv, TypeOK, ProcTypes
  <2> QED
    BY <1>1, <1>2, <1>3, <2>1, AttachReadsInv
<1>4. CASE Goto(h, "gone") /\ HangUp(h) /\ UNCHANGED <<calls, net>>
  <2>1. GoneFrame(h) /\ ResultFollows(h)
    BY <1>1, <1>2, <1>4
    DEF GoneFrame, ResultFollows, threadVars, IInv, TypeOK, ProcTypes, FlagTypes
  <2> QED
    BY <1>1, <1>4, <2>1, GoneInv
<1> QED
  BY <1>3, <1>4 DEF AttachGot

\* An attacher is told its transaction is there, and starts to keep it alive.
LEMMA AttachPingedInv ==
  ASSUME IInv, NEW h \in Handles, AttachPinged(h)
  PROVE  IInv'
<1>1. /\ pc[h] = "attachPing" /\ HandleOK(h) /\ HangUp(h)
      /\ UNCHANGED <<id, calls, result, decided, stop, lost, tx, maker, cache, net>>
  BY DEF IInv, AttachPinged, Finished, clusterVars
<1>2. h \in Attachers /\ id[h] # NoTx /\ thread[h] = "none" /\ calls[h] = 0 /\ CommitNo(h) = 1
  BY <1>1, HandlesAssumption DEF HandleOK, PcMatchesHistory, CommitNo
<1>3. ResultFollows(h)
  BY <1>1 DEF ResultFollows
<1>4. CASE Goto(h, "held") /\ Spawn(h)
  <2>1. PICK how \in {"wait", "none"} : thread' = [thread EXCEPT ![h] = how]
    BY <1>4 DEF Spawn
  <2>2. pc' = [pc EXCEPT ![h] = "held"] /\ call' = [call EXCEPT ![h] = NoCall]
    BY <1>1, <1>4 DEF Goto, HangUp
  <2>3. TypeOK'
    BY <1>1, <2>1, <2>2 DEF IInv, TypeOK, ProcTypes, FlagTypes, ClusterTypes, Steps
  <2>4. OthersKeep(h) /\ pc'[h] = "held" /\ call'[h] = NoCall
    BY <1>1, <2>1, <2>2 DEF OthersKeep, IInv, TypeOK, ProcTypes
  <2>5. HistoryGrows(h)
    BY <1>1, <1>2 DEF HistoryGrows
  <2>6. PcMatchesHistory(h)'
    BY <1>1, <1>2, <2>4 DEF HandleOK, PcMatchesHistory, Created, CommitNo
  <2>7. OutcomeIsSound(h)'
    BY <1>1, <2>4 DEF HandleOK, OutcomeIsSound
  <2> QED
    BY <1>1, <1>3, <2>3, <2>4, <2>5, <2>6, <2>7, IdleInv
<1>5. CASE Goto(h, "gone") /\ UNCHANGED thread
  <2>1. GoneFrame(h)
    BY <1>1, <1>2, <1>5 DEF GoneFrame, IInv, TypeOK, ProcTypes, FlagTypes
  <2> QED
    BY <1>1, <1>3, <1>5, <2>1, GoneInv
<1> QED
  BY <1>4, <1>5 DEF AttachPinged

\* A handle commits once, and by then has made the calls it makes before.
LEMMA CommitInv ==
  ASSUME IInv, NEW h \in Handles, Commit(h)
  PROVE  IInv'
<1>1. /\ pc[h] \in {"held", "detached"} /\ HandleOK(h)
      /\ Begin(h, "commit", id[h], "WithMutationId", Attempts)
      /\ UNCHANGED <<id, result, decided, thread, stop, lost, tx, maker, cache>>
  BY DEF IInv, Commit, threadVars
<1>2. PICK step \in {"commit", "commitById"} :
        Goto(h, step) /\ (step = "commitById" => pc[h] = "detached")
  BY DEF Commit
<1>3. calls[h] = CommitNo(h) - 1 /\ Attempts \in Nat /\ 1 <= Attempts /\ Attempts <= Attempts
  BY <1>1, AttemptsAssumption DEF HandleOK, PcMatchesHistory
<1>4. FinishFrame(h) /\ ResultFollows(h)
  BY <1>1 DEF FinishFrame, ResultFollows, IInv, TypeOK, ProcTypes, FlagTypes
<1>5. pc'[h] = step
  BY <1>2 DEF Goto, IInv, TypeOK, ProcTypes
<1>6. OutcomeIsSound(h)'
  BY <1>1, <1>2, <1>5 DEF HandleOK, OutcomeIsSound
<1> QED
  BY <1>1, <1>2, <1>3, <1>4, <1>6, FinishBeginsInv

LEMMA CommittedInv ==
  ASSUME IInv, NEW h \in Handles, Committed(h)
  PROVE  IInv'
<1>1. /\ pc[h] = "commit" /\ HandleOK(h) /\ call[h] # NoCall
      /\ call[h].answer # "none" /\ call[h] \in Calls
      /\ result' = [result EXCEPT ![h] = call[h].answer] /\ stop' = [stop EXCEPT ![h] = TRUE]
      /\ UNCHANGED <<id, decided, thread, lost, tx, maker, cache>>
  BY DEF IInv, Committed, Finished, StopPinging, TypeOK, ProcTypes
<1>2. call[h].cmd = "commit" /\ id[h] # NoTx
  BY <1>1 DEF HandleOK, PcMatchesCall, PcMatchesHistory
<1>3. /\ FlagTypes' /\ stop'[h] /\ \A k \in Handles \ {h} : stop'[k] = stop[k]
  BY <1>1, RaiseFlag DEF IInv, TypeOK, FlagTypes
<1>4. /\ result' \in [Handles -> Answers \cup {"none"}] /\ result'[h] = call[h].answer
      /\ \A k \in Handles \ {h} : result'[k] = result[k]
  BY <1>1 DEF IInv, TypeOK, ProcTypes, Calls
<1>5. ResultFollows(h)
  BY <1>2, <1>4 DEF ResultFollows
<1>6. CASE Goto(h, "gone") /\ HangUp(h) /\ UNCHANGED <<calls, net>>
  <2>1. GoneFrame(h)
    BY <1>1, <1>3, <1>4, <1>6 DEF GoneFrame, IInv, TypeOK
  <2> QED
    BY <1>1, <1>5, <1>6, <2>1, GoneInv
<1>7. CASE Origin(h) # "Attached" /\ BeginDropAbort(h)
  <2>1. h \in Starters
    BY <1>7 DEF Origin
  <2>2. FinishFrame(h)
    BY <1>1, <1>3, <1>4 DEF FinishFrame
  <2>3. pc'[h] = "dropAbort"
    BY <1>7 DEF BeginDropAbort, Goto, IInv, TypeOK, ProcTypes
  <2>4. OutcomeIsSound(h)'
    BY <1>1, <1>2, <1>4, <2>3 DEF HandleOK, OutcomeIsSound, CallIsSound
  <2> QED
    BY <1>1, <1>5, <1>7, <2>1, <2>2, <2>4, DropAbortInv
<1> QED
  BY <1>6, <1>7 DEF Committed

LEMMA CommittedByIdInv ==
  ASSUME IInv, NEW h \in Handles, CommittedById(h)
  PROVE  IInv'
<1>1. /\ pc[h] = "commitById" /\ HandleOK(h) /\ call[h] # NoCall /\ call[h] \in Calls
      /\ result' = [result EXCEPT ![h] = call[h].answer]
      /\ Goto(h, "gone") /\ HangUp(h)
      /\ UNCHANGED <<id, calls, decided, thread, stop, lost, tx, maker, cache, net>>
  BY DEF IInv, CommittedById, Finished, TypeOK, ProcTypes, threadVars, clusterVars
<1>2. call[h].cmd = "commit" /\ (stop[h] \/ thread[h] = "none")
  BY <1>1 DEF HandleOK, PcMatchesCall, OutcomeIsSound
<1>3. /\ result' \in [Handles -> Answers \cup {"none"}] /\ result'[h] = call[h].answer
      /\ \A k \in Handles \ {h} : result'[k] = result[k]
  BY <1>1 DEF IInv, TypeOK, ProcTypes, Calls
<1>4. GoneFrame(h) /\ ResultFollows(h)
  BY <1>1, <1>2, <1>3 DEF GoneFrame, ResultFollows, IInv, TypeOK, FlagTypes
<1> QED
  BY <1>1, <1>4, GoneInv

\* An abort that was asked for is marked as decided before it is sent.
LEMMA AbortInv ==
  ASSUME IInv, NEW h \in Handles, Abort(h)
  PROVE  IInv'
<1>1. /\ pc[h] \in {"held", "detached"} /\ HandleOK(h)
      /\ decided' = [decided EXCEPT ![h] = TRUE]
      /\ UNCHANGED <<id, result, thread, stop, lost, tx, maker, cache>>
  BY DEF IInv, Abort, threadVars
<1>2. PICK repeatable \in {"WithMutationId", "Freely"} :
        Begin(h, "abort", id[h], repeatable, Attempts)
  BY DEF Abort
<1>3. PICK step \in {"abort", "abortById"} :
        Goto(h, step) /\ (step = "abortById" => pc[h] = "detached")
  BY DEF Abort
<1>4. FlagTypes' /\ decided'[h] /\ \A k \in Handles \ {h} : decided'[k] = decided[k]
  BY <1>1, RaiseFlag DEF IInv, TypeOK, FlagTypes
<1>5. FinishFrame(h) /\ ResultFollows(h)
  BY <1>1, <1>4 DEF FinishFrame, ResultFollows, IInv, TypeOK, ProcTypes
<1>6. pc'[h] = step
  BY <1>3 DEF Goto, IInv, TypeOK, ProcTypes
<1>7. OutcomeIsSound(h)'
  BY <1>1, <1>3, <1>6 DEF HandleOK, OutcomeIsSound
<1>8. Attempts \in Nat /\ 1 <= Attempts /\ Attempts <= Attempts
  BY AttemptsAssumption
<1> QED
  BY <1>1, <1>2, <1>3, <1>4, <1>5, <1>7, <1>8, FinishBeginsInv

LEMMA AbortedInv ==
  ASSUME IInv, NEW h \in Handles, Aborted(h)
  PROVE  IInv'
<1>1. /\ pc[h] # "none" /\ stop' = [stop EXCEPT ![h] = TRUE]
      /\ Goto(h, "gone") /\ HangUp(h)
      /\ UNCHANGED <<id, calls, result, decided, thread, lost, tx, maker, cache, net>>
  BY DEF Aborted, Finished, StopPinging, clusterVars
<1>2. FlagTypes' /\ stop'[h] /\ \A k \in Handles \ {h} : stop'[k] = stop[k]
  BY <1>1, RaiseFlag DEF IInv, TypeOK, FlagTypes
<1>3. GoneFrame(h) /\ ResultFollows(h)
  BY <1>1, <1>2 DEF GoneFrame, ResultFollows, IInv, TypeOK, ProcTypes
<1> QED
  BY <1>1, <1>3, GoneInv

\* A handle that is held has no call under way, so hanging up changes nothing.
LEMMA HeldIsIdle ==
  ASSUME IInv, NEW h \in Handles, pc[h] \in {"held", "joining", "detached"}
  PROVE  call[h] = NoCall
<1>1. call[h] \in Calls \cup {NoCall} /\ PcMatchesCall(h)
  BY DEF IInv, TypeOK, ProcTypes, HandleOK
<1> QED
  BY <1>1 DEF PcMatchesCall, Calls, Mutating

LEMMA DropInv ==
  ASSUME IInv, NEW h \in Handles, Drop(h)
  PROVE  IInv'
<1>1. /\ pc[h] = "held" /\ HandleOK(h)
      /\ UNCHANGED <<id, result, decided, thread, lost, tx, maker, cache>>
  BY DEF IInv, Drop
<1>2. ResultFollows(h)
  BY <1>1 DEF ResultFollows
<1>3. CASE StopPinging(h) /\ Goto(h, "gone") /\ UNCHANGED <<call, calls, net>>
  <2>1. stop' = [stop EXCEPT ![h] = TRUE]
    BY <1>3 DEF StopPinging
  <2>2. FlagTypes' /\ stop'[h] /\ \A k \in Handles \ {h} : stop'[k] = stop[k]
    BY <1>1, <2>1, RaiseFlag DEF IInv, TypeOK, FlagTypes
  <2>3. GoneFrame(h)
    BY <1>1, <1>3, <2>2 DEF GoneFrame, IInv, TypeOK, ProcTypes
  <2>4. HangUp(h)
    BY <1>1, <1>3, HeldIsIdle DEF HangUp, IInv, TypeOK, ProcTypes
  <2> QED
    BY <1>1, <1>2, <1>3, <2>3, <2>4, GoneInv
<1>4. CASE Origin(h) # "Attached" /\ BeginDropAbort(h) /\ UNCHANGED stop
  <2>1. h \in Starters
    BY <1>4 DEF Origin
  <2>2. FinishFrame(h)
    BY <1>1, <1>4 DEF FinishFrame, IInv, TypeOK, ProcTypes, FlagTypes
  <2>3. pc'[h] = "dropAbort"
    BY <1>4 DEF BeginDropAbort, Goto, IInv, TypeOK, ProcTypes
  <2>4. OutcomeIsSound(h)'
    BY <1>1, <1>4, <2>3 DEF HandleOK, OutcomeIsSound
  <2> QED
    BY <1>1, <1>2, <1>4, <2>1, <2>2, <2>4, DropAbortInv
<1> QED
  BY <1>3, <1>4 DEF Drop

\* Letting go of the handle while keeping the transaction.
LEMMA DetachInv ==
  ASSUME IInv, NEW h \in Handles, Detach(h) \/ Detached(h)
  PROVE  IInv'
<1>1. /\ pc[h] \in {"held", "joining"} /\ HandleOK(h)
      /\ UNCHANGED <<id, call, calls, result, decided, thread, lost, tx, maker, cache, net>>
  BY DEF IInv, Detach, Detached, threadVars, clusterVars
<1>2. PICK step \in {"joining", "detached"} : pc' = [pc EXCEPT ![h] = step]
  BY DEF Detach, Detached, Goto
<1>3. FlagTypes' /\ stop'[h] \in {TRUE, stop[h]} /\ (pc[h] = "held" => stop'[h])
      /\ \A k \in Handles \ {h} : stop'[k] = stop[k]
  <2>1. CASE Detach(h)
    <3>1. stop' = [stop EXCEPT ![h] = TRUE]
      BY <2>1 DEF Detach, StopPinging
    <3> QED
      BY <1>1, <3>1, RaiseFlag DEF IInv, TypeOK, FlagTypes
  <2>2. CASE Detached(h)
    BY <1>1, <2>2 DEF Detached, IInv, TypeOK, FlagTypes, threadVars
  <2> QED
    BY <2>1, <2>2
<1>4. TypeOK'
  BY <1>1, <1>2, <1>3 DEF IInv, TypeOK, ProcTypes, ClusterTypes, Steps
<1>5. OthersKeep(h) /\ pc'[h] = step /\ call'[h] = NoCall
  BY <1>1, <1>2, <1>3, HeldIsIdle DEF OthersKeep, IInv, TypeOK, ProcTypes
<1>6. HistoryGrows(h) /\ ResultFollows(h)
  BY <1>1 DEF HistoryGrows, ResultFollows, IInv, TypeOK, ProcTypes
<1>7. PcMatchesHistory(h)'
  BY <1>1, <1>5 DEF HandleOK, PcMatchesHistory, Created, CommitNo
<1>8. OutcomeIsSound(h)'
  BY <1>1, <1>3, <1>5 DEF HandleOK, OutcomeIsSound
<1> QED
  BY <1>1, <1>4, <1>5, <1>6, <1>7, <1>8, IdleInv

LEMMA CrashInv ==
  ASSUME IInv, NEW h \in Handles, Crash(h)
  PROVE  IInv'
<1>1. /\ pc[h] # "none" /\ Goto(h, "gone") /\ HangUp(h)
      /\ thread' = [thread EXCEPT ![h] = "none"]
      /\ UNCHANGED <<id, calls, result, decided, stop, lost, tx, maker, cache, net>>
  BY DEF Crash, clusterVars
<1>2. /\ thread' \in [Handles -> {"none", "wait", "ping"}] /\ thread'[h] = "none"
      /\ \A k \in Handles \ {h} : thread'[k] = thread[k]
  BY <1>1 DEF IInv, TypeOK
<1>3. GoneFrame(h) /\ ResultFollows(h)
  BY <1>1, <1>2 DEF GoneFrame, ResultFollows, IInv, TypeOK, ProcTypes, FlagTypes
<1> QED
  BY <1>1, <1>3, GoneInv

-----------------------------------------------------------------------------
(***************************************************************************)
(* Steps of the keep-alive thread and of a call.                           *)
(***************************************************************************)
\* A ping finds the transaction of its handle gone only when it is.
LEMMA ThreadStepInv ==
  ASSUME IInv, NEW h \in Handles, ThreadStep(h)
  PROVE  IInv'
<1>1. /\ thread[h] # "none" /\ HandleOK(h)
      /\ UNCHANGED <<pc, id, call, calls, result, decided, stop, tx, maker, cache, net>>
  BY DEF IInv, ThreadStep, ThreadWakes, ThreadPings, procVars, clusterVars
<1>2. id[h] # NoTx /\ id[h] \in Txs /\ tx[id[h]] \in {"open", "committed", "aborted"}
      /\ pc[h] \notin {"none", "starting", "attachGet", "attachPing"}
  BY <1>1 DEF HandleOK, PcMatchesHistory, Created, IInv, TypeOK, ClusterTypes
<1>3. /\ thread' \in [Handles -> {"none", "wait", "ping"}]
      /\ \A k \in Handles \ {h} : thread'[k] = thread[k]
      /\ stop[h] => thread'[h] = "none"
  BY DEF IInv, TypeOK, ThreadStep, ThreadWakes, ThreadPings
<1>4. lost' = lost \/ (lost' = [lost EXCEPT ![h] = TRUE] /\ tx[id[h]] \in {"committed", "aborted"})
  BY <1>2 DEF ThreadStep, ThreadWakes, ThreadPings
<1>5. /\ FlagTypes' /\ \A k \in Handles \ {h} : lost'[k] = lost[k]
      /\ lost'[h] => tx[id[h]] \in {"committed", "aborted"}
  <2>1. CASE lost' = lost
    BY <1>1, <2>1 DEF IInv, TypeOK, FlagTypes, HandleOK, OutcomeIsSound
  <2>2. CASE lost' = [lost EXCEPT ![h] = TRUE] /\ tx[id[h]] \in {"committed", "aborted"}
    BY <1>1, <2>2, RaiseFlag DEF IInv, TypeOK, FlagTypes
  <2> QED
    BY <1>4, <2>1, <2>2
<1>6. TypeOK'
  BY <1>1, <1>3, <1>5 DEF IInv, TypeOK, ProcTypes, ClusterTypes
<1>7. OthersKeep(h) /\ HistoryGrows(h) /\ CallMoves(h)
  BY <1>1, <1>3, <1>5 DEF OthersKeep, HistoryGrows, CallMoves, IInv, TypeOK, ProcTypes
<1>8. PcMatchesCall(h)' /\ PcMatchesHistory(h)'
  BY <1>1, <1>2 DEF HandleOK, PcMatchesCall, PcMatchesHistory, Created, CommitNo
<1>9. CallIsSound(h)'
  BY <1>1 DEF HandleOK, CallIsSound, Created
<1>10. OutcomeIsSound(h)'
  BY <1>1, <1>2, <1>3, <1>5 DEF HandleOK, OutcomeIsSound
<1>11. RefusalsRemembered(h)'
  BY <1>1 DEF HandleOK, RefusalsRemembered, CommitAnswered
<1>12. HandleOK(h)'
  BY <1>8, <1>9, <1>10, <1>11 DEF HandleOK
<1> QED
  BY <1>6, <1>7, <1>12, HandleStepInv

\* How an attempt ends: its call is answered, or is tried again under the same
\* mutation id.
AttemptEnded(h, answer) ==
  /\ call' \in [Handles -> Calls \cup {NoCall}] /\ net' \in SUBSET Requests
  /\ \A k \in Handles \ {h} : call'[k] = call[k]
  /\ call'[h] \in Calls /\ call'[h].cmd = call[h].cmd /\ call'[h].tx = call[h].tx
  /\ call'[h].n = call[h].n /\ call'[h].mutation = call[h].mutation
  /\ call'[h].allowed = call[h].allowed
  /\ call'[h].attempt <= call'[h].allowed
  /\ call'[h].answer \in {"none", answer}
  /\ CallMoves(h)

LEMMA AttemptEndsFacts ==
  ASSUME IInv, NEW h \in Handles, Waiting(h), NEW answer \in Answers, AttemptEnds(h, answer)
  PROVE  AttemptEnded(h, answer)
<1>1. /\ call \in [Handles -> Calls \cup {NoCall}] /\ net \in SUBSET Requests
      /\ call[h] \in Calls /\ call[h].answer = "none"
      /\ call[h].attempt <= call[h].allowed
  BY DEF Waiting, IInv, TypeOK, ProcTypes, ClusterTypes, HandleOK, CallIsSound
<1>2. CASE call' = [call EXCEPT ![h].answer = answer] /\ UNCHANGED net
  <2>1. call' = [call EXCEPT ![h] = [call[h] EXCEPT !.answer = answer]]
    BY <1>1, <1>2
  <2>2. [call[h] EXCEPT !.answer = answer] \in Calls
    BY <1>1 DEF Calls
  <2>3. /\ call' \in [Handles -> Calls \cup {NoCall}]
        /\ call'[h] = [call[h] EXCEPT !.answer = answer]
        /\ \A k \in Handles \ {h} : call'[k] = call[k]
    BY <1>1, <2>1, <2>2
  <2>4. /\ call'[h].cmd = call[h].cmd /\ call'[h].tx = call[h].tx
        /\ call'[h].n = call[h].n /\ call'[h].mutation = call[h].mutation
        /\ call'[h].allowed = call[h].allowed /\ call'[h].attempt = call[h].attempt
        /\ call'[h].answer = answer
    BY <1>1, <2>3 DEF Calls
  <2>5. CallMoves(h)
    BY <1>2, <2>4 DEF CallMoves
  <2> QED
    BY <1>1, <1>2, <2>2, <2>3, <2>4, <2>5 DEF AttemptEnded
<1>3. CASE /\ call[h].attempt < call[h].allowed
           /\ Send(h, [call[h] EXCEPT !.attempt = @ + 1])
  <2> DEFINE c == [call[h] EXCEPT !.attempt = call[h].attempt + 1]
  <2>1. /\ call' = [call EXCEPT ![h] = c]
        /\ net' = IF Mutates(c.cmd) THEN net \cup {Request(h, c)} ELSE net
    BY <1>3 DEF Send
  <2>2. c \in Calls
    BY <1>1 DEF Calls
  <2>3. /\ call' \in [Handles -> Calls \cup {NoCall}] /\ call'[h] = c
        /\ \A k \in Handles \ {h} : call'[k] = call[k]
    BY <1>1, <2>1, <2>2
  <2>4. /\ c.cmd = call[h].cmd /\ c.tx = call[h].tx /\ c.n = call[h].n
        /\ c.mutation = call[h].mutation /\ c.allowed = call[h].allowed
        /\ c.attempt = call[h].attempt + 1 /\ c.answer = "none"
    BY <1>1 DEF Calls
  <2>5. c.attempt <= c.allowed
    BY <1>1, <1>3, <2>4 DEF Calls
  <2>6. Mutates(c.cmd) => Request(h, c) \in Requests
    <3>1. (c.attempt > 1) \in BOOLEAN
      OBVIOUS
    <3>2. Mutates(c.cmd) => c.cmd \in Mutating
      BY DEF Mutates, Mutating
    <3> HIDE DEF c
    <3> QED
      BY <2>2, <3>1, <3>2 DEF Calls, Request, Requests
  <2> HIDE DEF c
  <2>7. CallMoves(h)
    <3>1. call'[h] # NoCall
      BY <2>2, <2>3, NoCallFacts
    <3> QED
      BY <2>1, <2>3, <2>4, <3>1 DEF CallMoves
  <2>8. net' \in SUBSET Requests
    BY <1>1, <2>1, <2>6
  <2> QED
    BY <2>2, <2>3, <2>4, <2>5, <2>7, <2>8 DEF AttemptEnded
<1> QED
  BY <1>2, <1>3 DEF AttemptEnds

\* An attempt that failed, or a read that was answered, decides nothing about a
\* commit.
LEMMA CallStepInv ==
  ASSUME IInv, NEW h \in Handles, CallStep(h)
  PROVE  IInv'
<1>1. PICK answer \in {"failed", "ok", "gone"} :
        /\ AttemptEnds(h, answer)
        /\ answer # "failed" => ~Mutates(call[h].cmd)
  BY DEF CallStep, AttemptFails, AnswerRead
<1>2. /\ Waiting(h) /\ HandleOK(h)
      /\ UNCHANGED <<pc, id, calls, result, decided, thread, stop, lost, tx, maker, cache>>
  BY DEF IInv, CallStep, AttemptFails, AnswerRead, threadVars
<1>3. AttemptEnded(h, answer)
  BY <1>1, <1>2, AttemptEndsFacts DEF Answers
<1> USE DEF AttemptEnded
<1>4. TypeOK'
  BY <1>2, <1>3 DEF IInv, TypeOK, ProcTypes, FlagTypes, ClusterTypes
<1>5. OthersKeep(h) /\ HistoryGrows(h)
  BY <1>2, <1>3 DEF OthersKeep, HistoryGrows, IInv, TypeOK, ProcTypes
<1>6. PcMatchesCall(h)' /\ PcMatchesHistory(h)'
  BY <1>2, <1>3 DEF HandleOK, PcMatchesCall, PcMatchesHistory, Created, CommitNo
<1>7. CallIsSound(h)'
  BY <1>1, <1>2, <1>3 DEF HandleOK, CallIsSound, Created, Waiting, Mutates
<1>8. OutcomeIsSound(h)'
  BY <1>2 DEF HandleOK, OutcomeIsSound
<1>9. RefusalsRemembered(h)'
  BY <1>1, <1>2, <1>3 DEF HandleOK, RefusalsRemembered, CommitAnswered, Mutates, CommitNo
<1>10. HandleOK(h)'
  BY <1>6, <1>7, <1>8, <1>9 DEF HandleOK
<1> QED
  BY <1>3, <1>4, <1>5, <1>10, HandleStepInv

-----------------------------------------------------------------------------
(***************************************************************************)
(* Steps of the cluster.                                                   *)
(***************************************************************************)
\* A transaction is created once and ends once.
TxsAdvance ==
  \A t \in Txs : /\ tx[t] # "none" => tx'[t] # "none"
                 /\ tx[t] = "committed" => tx'[t] = "committed"
                 /\ tx[t] = "aborted" => tx'[t] = "aborted"

\* A step of the cluster: transactions advance and no process moves.
Advances ==
  /\ TypeOK' /\ TxsAdvance
  /\ CacheOutlastsRetries => cache \subseteq cache'
  /\ UNCHANGED <<pc, id, calls, result, decided, thread, stop, lost>>

\* What a request may be answered with.
AnswerFits(r, answer, t) ==
  /\ answer \in Answers /\ t \in TxOrNone
  /\ r.cmd = "start" /\ answer = "ok" => t \in Txs /\ tx'[t] # "none"
  /\ r.cmd # "start" => t = id[r.h]
  /\ r.cmd = "commit" =>
       /\ answer = "ok" => tx'[t] = "committed"
       /\ answer = "duplicate" => r.attempt = 1 /\ Known(r)
       /\ CacheOutlastsRetries /\ answer \in {"gone", "refused"} => CommitAnswered(r.h, answer)'

\* The request of the attempt a commit waits for is determined by its call.
LEMMA CommitsRequest ==
  ASSUME IInv, NEW r \in net, r.cmd = "commit", call[r.h].cmd = "commit",
         call[r.h].n = r.n, call[r.h].attempt = r.attempt
  PROVE  Request(r.h, call[r.h]) = r
<1>1. r \in Requests /\ RequestOK(r) /\ r.h \in Handles
  BY DEF IInv, TypeOK, ClusterTypes, Requests
<1>2. call[r.h] # NoCall /\ CallIsSound(r.h)
  BY <1>1, NoCallFacts DEF IInv, HandleOK
<1>3. r.mutation = call[r.h].mutation /\ r.tx = call[r.h].tx
  BY <1>1, <1>2 DEF RequestOK, CallIsSound
<1>4. r.retry = (r.attempt > 1)
  BY <1>1 DEF RequestOK, Requests
<1>5. r = [h |-> r.h, n |-> r.n, attempt |-> r.attempt, cmd |-> r.cmd, tx |-> r.tx,
           mutation |-> r.mutation, retry |-> r.retry]
  BY <1>1 DEF Requests
<1> QED
  BY <1>3, <1>4, <1>5 DEF Request

\* Nothing a process knows is undone while its call stays as it is.
LEMMA UntoldHandleInv ==
  ASSUME IInv, Advances, NEW h \in Handles, call'[h] = call[h]
  PROVE  HandleOK(h)'
<1>1. HandleOK(h) /\ id[h] \in TxOrNone
  BY DEF IInv, TypeOK, ProcTypes
<1>2. PcMatchesCall(h)' /\ PcMatchesHistory(h)'
  BY <1>1 DEF Advances, TxsAdvance, HandleOK, PcMatchesCall, PcMatchesHistory, Created, CommitNo
<1>3. CallIsSound(h)'
  <2>1. call[h].cmd = "commit" => id[h] \in Txs
    BY <1>1 DEF HandleOK, PcMatchesCall, PcMatchesHistory, Created
  <2> QED
    BY <1>1, <2>1 DEF Advances, TxsAdvance, HandleOK, CallIsSound, Created
<1>4. OutcomeIsSound(h)'
  BY <1>1 DEF Advances, TxsAdvance, HandleOK, OutcomeIsSound, TxOrNone
<1>5. RefusalsRemembered(h)'
  BY <1>1 DEF Advances, TxsAdvance, HandleOK, RefusalsRemembered, CommitAnswered, CommitNo
<1> QED
  BY <1>2, <1>3, <1>4, <1>5 DEF HandleOK

\* A process that is told an answer that fits knows something true.
LEMMA ToldHandleInv ==
  ASSUME IInv, Advances, NEW r \in net, NEW answer, NEW t, AnswerFits(r, answer, t),
         Waiting(r.h), call[r.h].cmd = r.cmd, call[r.h].n = r.n,
         call[r.h].attempt = r.attempt,
         call'[r.h] = [call[r.h] EXCEPT !.answer = answer, !.tx = t]
  PROVE  HandleOK(r.h)'
<1> DEFINE h == r.h
<1>1. r \in Requests /\ RequestOK(r) /\ h \in Handles /\ HandleOK(h)
  BY DEF IInv, TypeOK, ClusterTypes, Requests
<1>2. call[h] \in Calls
  BY <1>1 DEF Waiting, IInv, TypeOK, ProcTypes
<1>3. /\ call'[h].cmd = call[h].cmd /\ call'[h].n = call[h].n
      /\ call'[h].attempt = call[h].attempt /\ call'[h].allowed = call[h].allowed
      /\ call'[h].mutation = call[h].mutation
      /\ call'[h].answer = answer /\ call'[h].tx = t
  BY <1>2 DEF Calls
<1>4. call[h].cmd = "commit" => answer # "duplicate"
  <2> SUFFICES ASSUME call[h].cmd = "commit", answer = "duplicate"
               PROVE  FALSE
    OBVIOUS
  <2>1. r.attempt = 1 /\ \E e \in cache : e.mutation = r.mutation
    BY DEF AnswerFits, Known
  <2>2. Request(h, call[h]) = r
    BY CommitsRequest
  <2>3. r.mutation = call[h].mutation
    BY <2>2 DEF Request
  <2> QED
    BY <1>1, <2>1, <2>2, <2>3 DEF IInv, FirstAttemptIsNew
<1>5. PcMatchesCall(h)' /\ PcMatchesHistory(h)'
  BY <1>1, <1>3 DEF Advances, TxsAdvance, HandleOK, PcMatchesCall, PcMatchesHistory, Created, CommitNo
<1>6. CallIsSound(h)'
  <2>1. CallIsSound(h) /\ call[h] # NoCall /\ id' = id /\ calls' = calls /\ decided' = decided
    BY <1>1, <1>2, NoCallFacts DEF HandleOK, Advances
  <2>2. answer # "none"
    BY DEF AnswerFits, Answers
  <2>3. /\ r.cmd = "start" /\ answer = "ok" => t \in Txs /\ tx'[t] # "none"
        /\ r.cmd # "start" => t = id[h]
        /\ r.cmd = "commit" /\ answer = "ok" => tx'[t] = "committed"
    BY DEF AnswerFits
  <2> QED
    BY <1>3, <1>4, <2>1, <2>2, <2>3 DEF CallIsSound, Created
<1>7. OutcomeIsSound(h)'
  <2>1. id[h] \in TxOrNone
    BY <1>1 DEF IInv, TypeOK, ProcTypes
  <2> QED
    BY <1>1, <2>1 DEF Advances, TxsAdvance, HandleOK, OutcomeIsSound, TxOrNone
<1>8. RefusalsRemembered(h)'
  <2> SUFFICES ASSUME CacheOutlastsRetries, NEW a \in {"gone", "refused"},
                      (call'[h].cmd = "commit" /\ call'[h].answer = a) \/ result'[h] = a
               PROVE  CommitAnswered(h, a)'
    BY DEF RefusalsRemembered
  <2>1. CASE call'[h].cmd = "commit" /\ call'[h].answer = a
    BY <1>3, <2>1 DEF AnswerFits
  <2>2. CASE result'[h] = a
    BY <1>1, <2>2 DEF Advances, TxsAdvance, HandleOK, RefusalsRemembered, CommitAnswered, CommitNo
  <2> QED
    BY <2>1, <2>2
<1> QED
  BY <1>5, <1>6, <1>7, <1>8 DEF HandleOK

\* What a reply changes: at most the answer of the call it is for.
Told(r, answer, t) ==
  /\ call' \in [Handles -> Calls \cup {NoCall}]
  /\ \A h \in Handles \ {r.h} : call'[h] = call[h]
  /\ \/ call'[r.h] = call[r.h]
     \/ /\ Waiting(r.h) /\ call[r.h].cmd = r.cmd /\ call[r.h].n = r.n
        /\ call[r.h].attempt = r.attempt
        /\ call'[r.h] = [call[r.h] EXCEPT !.answer = answer, !.tx = t]
  /\ \A h \in Handles : /\ call'[h].cmd = call[h].cmd /\ call'[h].n = call[h].n
                        /\ call'[h].attempt = call[h].attempt
                        /\ call'[h].mutation = call[h].mutation

LEMMA ReplyFacts ==
  ASSUME IInv, NEW r \in net, NEW answer \in Answers, NEW t \in TxOrNone, Reply(r, answer, t)
  PROVE  Told(r, answer, t)
<1>1. call \in [Handles -> Calls \cup {NoCall}] /\ r.h \in Handles
  BY DEF IInv, TypeOK, ProcTypes, ClusterTypes, Requests
<1>2. CASE UNCHANGED call
  BY <1>1, <1>2 DEF Told
<1>3. CASE /\ Waiting(r.h) /\ call[r.h].cmd = r.cmd /\ call[r.h].n = r.n
           /\ call[r.h].attempt = r.attempt
           /\ call' = [call EXCEPT ![r.h].answer = answer, ![r.h].tx = t]
  <2> DEFINE c == [call[r.h] EXCEPT !.answer = answer, !.tx = t]
  <2>1. call[r.h] \in Calls
    BY <1>1, <1>3 DEF Waiting
  <2>2. /\ c \in Calls /\ c.cmd = call[r.h].cmd /\ c.n = call[r.h].n
        /\ c.attempt = call[r.h].attempt /\ c.mutation = call[r.h].mutation
    BY <2>1 DEF Calls
  <2>3. call' = [call EXCEPT ![r.h] = c]
    BY <1>1, <1>3, <2>1 DEF Calls
  <2>4. /\ call' \in [Handles -> Calls \cup {NoCall}] /\ call'[r.h] = c
        /\ \A h \in Handles \ {r.h} : call'[h] = call[h]
    BY <1>1, <2>2, <2>3
  <2>5. \A h \in Handles : /\ call'[h].cmd = call[h].cmd /\ call'[h].n = call[h].n
                           /\ call'[h].attempt = call[h].attempt
                           /\ call'[h].mutation = call[h].mutation
    BY <2>2, <2>4
  <2> QED
    BY <1>3, <2>4, <2>5 DEF Told
<1> QED
  BY <1>2, <1>3 DEF Reply

\* A delivery, from its parts: an answer that fits, and a cluster in order.
LEMMA DeliveredInv ==
  ASSUME IInv, NEW r \in net, NEW answer, NEW t, Told(r, answer, t),
         AnswerFits(r, answer, t), Advances, net' = net \ {r}, ClusterOK',
         \A e \in cache' : e \in cache \/ e.mutation = r.mutation
  PROVE  IInv'
<1>1. r \in Requests /\ RequestOK(r) /\ r.h \in Handles
  BY DEF IInv, TypeOK, ClusterTypes, Requests
<1>2. ASSUME NEW h \in Handles
      PROVE  HandleOK(h)'
  <2>1. CASE call'[h] = call[h]
    BY <2>1, UntoldHandleInv
  <2>2. CASE h = r.h /\ call'[h] # call[h]
    <3>1. /\ Waiting(r.h) /\ call[r.h].cmd = r.cmd /\ call[r.h].n = r.n
          /\ call[r.h].attempt = r.attempt
          /\ call'[r.h] = [call[r.h] EXCEPT !.answer = answer, !.tx = t]
      BY <2>2 DEF Told
    <3> QED
      BY <2>2, <3>1, ToldHandleInv
  <2> QED
    BY <2>1, <2>2 DEF Told
<1>3. ASSUME NEW h \in Handles
      PROVE  FirstAttemptIsNew(h)'
  <2> SUFFICES ASSUME call'[h].cmd = "commit", call'[h].attempt = 1,
                      Request(h, call'[h]) \in net', NEW e \in cache',
                      e.mutation = call'[h].mutation
               PROVE  FALSE
    BY DEF FirstAttemptIsNew
  <2>1. /\ call[h].cmd = "commit" /\ call[h].attempt = 1 /\ call'[h].n = call[h].n
        /\ call'[h].mutation = call[h].mutation
    BY DEF Told
  <2>2. Request(h, call'[h]) = Request(h, call[h])
    <3>1. /\ call[h] # NoCall /\ CallIsSound(h) /\ call'[h] # NoCall
      BY <2>1, NoCallFacts DEF IInv, HandleOK
    <3>2. call[h].tx = id[h]
      BY <2>1, <3>1 DEF CallIsSound
    <3>3. call'[h].tx = id'[h]
      BY <1>2, <3>1 DEF HandleOK, CallIsSound
    <3>4. id' = id
      BY DEF Advances
    <3> QED
      BY <2>1, <3>2, <3>3, <3>4 DEF Request, Told
  <2>3. Request(h, call[h]) \in net /\ Request(h, call[h]) # r
    BY <2>2
  <2>4. CASE e \in cache
    BY <2>1, <2>3, <2>4 DEF IInv, FirstAttemptIsNew
  <2>5. CASE e.mutation = r.mutation
    <3>1. call[h] # NoCall /\ CallIsSound(h)
      BY <2>1, NoCallFacts DEF IInv, HandleOK
    <3>2. call[h].mutation = <<h, call[h].n, "commit">> /\ call[h] \in Calls
      BY <2>1, <3>1 DEF CallIsSound, IInv, TypeOK, ProcTypes
    <3>3. <<h, call[h].n, "commit">> # NoMutation
      <4>1. call[h].n \in Nat /\ "commit" \in Mutating
        BY <3>2 DEF Calls, Mutating
      <4>2. <<h, call[h].n, "commit">> \in MutationIds
        BY <4>1, MutationFacts
      <4> QED
        BY <4>2, MutationFacts
    <3>4. r.mutation = <<r.h, r.n, r.cmd>>
      BY <1>1, <2>1, <2>5, <3>2, <3>3 DEF RequestOK
    <3>5. r.h = h /\ r.n = call[h].n /\ r.cmd = "commit"
      BY <2>1, <2>5, <3>2, <3>4
    <3>6. r.attempt <= call[h].attempt
      BY <1>1, <2>1, <3>5 DEF RequestOK
    <3>7. r.attempt = call[h].attempt
      BY <1>1, <2>1, <3>6 DEF Requests
    <3>8. Request(h, call[h]) = r
      BY <2>1, <3>5, <3>7, CommitsRequest
    <3> QED
      BY <2>3, <3>8
  <2> QED
    BY <2>4, <2>5
<1>4. ASSUME NEW q \in net'
      PROVE  RequestOK(q)'
  <2>1. q \in net /\ q \in Requests /\ RequestOK(q) /\ q.h \in Handles
    BY DEF IInv, TypeOK, ClusterTypes, Requests
  <2> QED
    BY <2>1 DEF Told, Advances, RequestOK, CommitNo
<1> QED
  BY <1>2, <1>3, <1>4 DEF IInv, Advances

\* An answer that may be remembered.
AnswerTrue(r, answer, t) ==
  /\ answer \in {"ok", "gone", "refused"} /\ t \in TxOrNone
  /\ r.cmd = "start" /\ answer = "ok" => t \in Txs /\ tx'[t] # "none"
  /\ r.cmd # "start" => t = id[r.h]
  /\ r.cmd = "commit" /\ answer = "ok" => tx'[t] = "committed"

\* The memory with this answer in it: true and single-valued.
Remembered(r, answer, t) ==
  /\ cache' \in SUBSET Entries /\ cache \subseteq cache'
  /\ \A e \in cache' : e \in cache \/ e.mutation = r.mutation
  /\ (\A e \in cache : EntryOK(e))' /\ OneAnswerEach'
  /\ r.cmd \in {"start", "commit"} =>
       \E e \in cache' : e.mutation = <<r.h, r.n, r.cmd>> /\ e.answer = answer /\ e.tx = t
  /\ AnswerFits(r, answer, t)

LEMMA RememberInv ==
  ASSUME IInv, NEW r \in net, ~Known(r), NEW answer, NEW t, Remember(r, answer, t),
         AnswerTrue(r, answer, t), TxsAdvance, UNCHANGED <<id, calls>>
  PROVE  Remembered(r, answer, t)
<1> DEFINE f == [mutation |-> r.mutation, answer |-> answer, tx |-> t]
<1>1. r \in Requests /\ RequestOK(r) /\ r.h \in Handles /\ r.n \in Nat /\ r.cmd \in Mutating
      /\ cache \in SUBSET Entries
  BY DEF IInv, TypeOK, ClusterTypes, Requests
<1>2. cache' = IF r.mutation = NoMutation THEN cache ELSE cache \cup {f}
  BY DEF Remember
<1>3. f \in Entries \/ r.mutation = NoMutation
  BY <1>1 DEF AnswerTrue, Answers, Entries, Requests
<1>4. /\ cache' \in SUBSET Entries /\ cache \subseteq cache'
      /\ \A e \in cache' : e \in cache \/ e = f
  BY <1>1, <1>2, <1>3
<1>5. \A e \in cache' : e \in cache \/ e.mutation = r.mutation
  BY <1>4
<1>6. OneAnswerEach'
  BY <1>4 DEF OneAnswerEach, Known, IInv, ClusterOK
<1>7. r.cmd \in {"start", "commit"} =>
        \E e \in cache' : e.mutation = <<r.h, r.n, r.cmd>> /\ e.answer = answer /\ e.tx = t
  <2> SUFFICES ASSUME r.cmd \in {"start", "commit"}
               PROVE  f \in cache' /\ f.mutation = <<r.h, r.n, r.cmd>>
    BY Zenon
  <2> QED
    BY <1>1, <1>2 DEF RequestOK
<1>8. ASSUME NEW e \in cache
      PROVE  EntryOK(e)'
  <2>1. EntryOK(e) /\ e.tx \in TxOrNone
    BY <1>1 DEF IInv, ClusterOK, Entries
  <2> QED
    BY <2>1 DEF EntryOK, TxsAdvance, Created, CommitNo, TxOrNone
<1>9. r.mutation # NoMutation => EntryOK(f)'
  <2> SUFFICES ASSUME r.mutation = <<r.h, r.n, r.cmd>>
               PROVE  EntryOK(f)'
    BY <1>1 DEF RequestOK
  <2>1. /\ f.mutation[1] = r.h /\ f.mutation[2] = r.n /\ f.mutation[3] = r.cmd
        /\ f.answer = answer /\ f.tx = t
    OBVIOUS
  <2>2. /\ r.n <= calls'[r.h] /\ answer \in {"ok", "gone", "refused"}
        /\ r.cmd = "start" => r.n = 1 /\ (answer = "ok" => t \in Txs /\ tx'[t] # "none")
        /\ r.cmd # "start" => t = id'[r.h] /\ t # NoTx
        /\ r.cmd = "commit" => r.n = CommitNo(r.h) /\ (answer = "ok" => tx'[t] = "committed")
    BY <1>1 DEF RequestOK, AnswerTrue
  <2> HIDE DEF f
  <2> QED
    BY <2>1, <2>2 DEF EntryOK, Created, CommitNo
<1>10. (\A e \in cache : EntryOK(e))'
  BY <1>2, <1>4, <1>8, <1>9
<1>11. AnswerFits(r, answer, t)
  <2>1. r.cmd = "commit" => CommitAnswered(r.h, answer)'
    BY <1>1, <1>7 DEF CommitAnswered, RequestOK, CommitNo
  <2> QED
    BY <2>1 DEF AnswerFits, AnswerTrue, Answers
<1> QED
  BY <1>4, <1>5, <1>6, <1>7, <1>10, <1>11 DEF Remembered

\* A transaction that is left alone stays as well remembered as it was.
LEMMA TxKept ==
  ASSUME IInv, NEW t \in Txs, tx'[t] = tx[t], maker'[t] = maker[t], cache \subseteq cache',
         decided' = decided
  PROVE  MakerOK(t)' /\ WorkRemembered(t)'
<1>1. MakerOK(t) /\ WorkRemembered(t)
  BY DEF IInv, ClusterOK
<1>2. MakerOK(t)'
  BY <1>1 DEF MakerOK, CommitNo
<1>3. WorkRemembered(t)'
  BY <1>1 DEF WorkRemembered, CommitAnswered, CommitNo
<1> QED
  BY <1>2, <1>3

\* A request that is applied or refused and remembered.
LEMMA AppliedInv ==
  ASSUME IInv, NEW r \in net, NEW answer, NEW t, AnswerTrue(r, answer, t),
         Remembered(r, answer, t), Reply(r, answer, t), TxsAdvance,
         net' = net \ {r}, UNCHANGED <<pc, id, calls, result, decided, thread, stop, lost>>,
         tx' \in [Txs -> {"none", "open", "committed", "aborted"}],
         maker' \in [Txs -> [created : CallIds, ended : CallIds]],
         (\A u \in Txs : MakerOK(u) /\ WorkRemembered(u))'
  PROVE  IInv'
<1>1. /\ cache' \in SUBSET Entries /\ cache \subseteq cache'
      /\ \A e \in cache' : e \in cache \/ e.mutation = r.mutation
      /\ (\A e \in cache : EntryOK(e))' /\ OneAnswerEach'
      /\ AnswerFits(r, answer, t)
  BY DEF Remembered
<1>2. ClusterOK'
  BY <1>1 DEF ClusterOK
<1>3. Told(r, answer, t)
  BY ReplyFacts DEF AnswerTrue, Answers
<1>4. TypeOK'
  BY <1>1, <1>3 DEF Told, IInv, TypeOK, ProcTypes, FlagTypes, ClusterTypes
<1>5. Advances
  BY <1>1, <1>4 DEF Advances
<1> QED
  BY <1>1, <1>2, <1>3, <1>5, DeliveredInv

\* Delivering a request changes no process.
Undisturbed == UNCHANGED <<pc, id, calls, result, decided, thread, stop, lost>>

LEMMA RequestFacts ==
  ASSUME IInv, NEW r \in net
  PROVE  /\ r.h \in Handles /\ r.n \in Nat /\ r.cmd \in Mutating /\ r.tx \in TxOrNone
         /\ RequestOK(r) /\ (r.cmd # "start" => r.tx \in Txs)
         /\ Call(r) \in CallIds /\ Call(r) # NoMutation /\ Call(r) = <<r.h, r.n>>
<1>1. r \in Requests /\ RequestOK(r)
  BY DEF IInv, TypeOK, ClusterTypes
<1>2. /\ r.h \in Handles /\ r.n \in Nat /\ r.cmd \in Mutating /\ r.tx \in TxOrNone
      /\ (r.cmd # "start" => r.tx \in Txs)
  BY <1>1 DEF Requests, RequestOK, TxOrNone
<1>3. Call(r) \in Handles \X Nat
  BY <1>2 DEF Call
<1> QED
  BY <1>1, <1>2, <1>3, MutationFacts DEF CallIds, Call

LEMMA ApplyStartInv ==
  ASSUME IInv, NEW r \in net, ~Known(r), ApplyStart(r), net' = net \ {r}, Undisturbed
  PROVE  IInv'
<1>1. r.cmd = "start" /\ r.h \in Starters /\ r.n = 1 /\ RequestOK(r)
  BY RequestFacts DEF ApplyStart, RequestOK
<1>2. PICK t \in Txs : /\ tx[t] = "none" /\ tx' = [tx EXCEPT ![t] = "open"]
                       /\ maker' = [maker EXCEPT ![t].created = Call(r)]
                       /\ Remember(r, "ok", t) /\ Reply(r, "ok", t)
  BY DEF ApplyStart
<1>3. /\ tx' \in [Txs -> {"none", "open", "committed", "aborted"}] /\ tx'[t] = "open"
      /\ \A u \in Txs \ {t} : tx'[u] = tx[u]
  BY <1>2 DEF IInv, TypeOK, ClusterTypes
<1>4. /\ maker' \in [Txs -> [created : CallIds, ended : CallIds]]
      /\ maker'[t].created = <<r.h, 1>> /\ maker'[t].ended = maker[t].ended
      /\ \A u \in Txs \ {t} : maker'[u] = maker[u]
  BY <1>1, <1>2, RequestFacts DEF IInv, TypeOK, ClusterTypes
<1>5. TxsAdvance
  BY <1>2, <1>3 DEF TxsAdvance
<1>6. AnswerTrue(r, "ok", t)
  BY <1>1, <1>3 DEF AnswerTrue, TxOrNone
<1>7. Remembered(r, "ok", t)
  BY <1>2, <1>5, <1>6, RememberInv DEF Undisturbed
<1>8. cache \subseteq cache'
      /\ \E e \in cache' : e.mutation = <<r.h, 1, "start">> /\ e.answer = "ok" /\ e.tx = t
  BY <1>1, <1>7 DEF Remembered
<1>9. MakerOK(t)' /\ WorkRemembered(t)'
  <2>1. maker[t].ended = NoMutation
    BY <1>2 DEF IInv, ClusterOK, MakerOK
  <2>2. MakerOK(t)'
    BY <1>1, <1>3, <1>4, <2>1 DEF MakerOK
  <2>3. WorkRemembered(t)'
    BY <1>3, <1>4, <1>8 DEF WorkRemembered
  <2> QED
    BY <2>2, <2>3
<1>10. \A u \in Txs \ {t} : MakerOK(u)' /\ WorkRemembered(u)'
  BY <1>3, <1>4, <1>8, TxKept DEF Undisturbed
<1>11. (\A u \in Txs : MakerOK(u) /\ WorkRemembered(u))'
  BY <1>9, <1>10
<1> QED
  BY <1>2, <1>3, <1>4, <1>5, <1>6, <1>7, <1>11, AppliedInv DEF Undisturbed

\* A request that changes no transaction but is remembered.
LEMMA NoEffectInv ==
  ASSUME IInv, NEW r \in net, ~Known(r), NEW answer, NEW t, AnswerTrue(r, answer, t),
         Remember(r, answer, t), Reply(r, answer, t), UNCHANGED <<tx, maker>>,
         net' = net \ {r}, Undisturbed
  PROVE  IInv'
<1>1. TxsAdvance
  BY DEF TxsAdvance
<1>2. Remembered(r, answer, t)
  BY <1>1, RememberInv DEF Undisturbed
<1>3. cache \subseteq cache'
  BY <1>2 DEF Remembered
<1>4. (\A u \in Txs : MakerOK(u) /\ WorkRemembered(u))'
  BY <1>3, TxKept DEF Undisturbed
<1>5. /\ tx' \in [Txs -> {"none", "open", "committed", "aborted"}]
      /\ maker' \in [Txs -> [created : CallIds, ended : CallIds]]
  BY DEF IInv, TypeOK, ClusterTypes
<1> QED
  BY <1>1, <1>2, <1>4, <1>5, AppliedInv DEF Undisturbed

\* A request that ends an open transaction, as a commit or as an abort does.
LEMMA EndsInv ==
  ASSUME IInv, NEW r \in net, ~Known(r), r.cmd \in {"commit", "abort"}, tx[r.tx] = "open",
         tx' = [tx EXCEPT ![r.tx] = IF r.cmd = "commit" THEN "committed" ELSE "aborted"],
         maker' = [maker EXCEPT ![r.tx].ended = Call(r)],
         Remember(r, "ok", r.tx), Reply(r, "ok", r.tx), net' = net \ {r}, Undisturbed
  PROVE  IInv'
<1> DEFINE t == r.tx
           final == IF r.cmd = "commit" THEN "committed" ELSE "aborted"
<1>1. t \in Txs /\ t \in TxOrNone /\ RequestOK(r) /\ r.h \in Handles
  BY RequestFacts DEF TxOrNone
<1>2. /\ tx' \in [Txs -> {"none", "open", "committed", "aborted"}] /\ tx'[t] = final
      /\ \A u \in Txs \ {t} : tx'[u] = tx[u]
  BY <1>1 DEF IInv, TypeOK, ClusterTypes
<1>3. /\ maker' \in [Txs -> [created : CallIds, ended : CallIds]]
      /\ maker'[t].created = maker[t].created /\ maker'[t].ended = <<r.h, r.n>>
      /\ \A u \in Txs \ {t} : maker'[u] = maker[u]
  BY <1>1, RequestFacts DEF IInv, TypeOK, ClusterTypes
<1>4. TxsAdvance
  BY <1>1, <1>2 DEF TxsAdvance
<1>5. AnswerTrue(r, "ok", t)
  BY <1>1, <1>2 DEF AnswerTrue, RequestOK
<1>6. Remembered(r, "ok", t)
  BY <1>4, <1>5, RememberInv DEF Undisturbed
<1>7. cache \subseteq cache'
  BY <1>6 DEF Remembered
<1>8. r.cmd = "commit" => CommitAnswered(r.h, "ok")' /\ r.n = CommitNo(r.h)
  BY <1>1, <1>6 DEF Remembered, RequestOK, CommitAnswered, CommitNo
<1>9. MakerOK(t) /\ WorkRemembered(t)
  BY <1>1 DEF IInv, ClusterOK
<1>10. MakerOK(t)'
  <2>1. CASE r.cmd = "commit"
    BY <1>1, <1>2, <1>3, <1>8, <1>9, <2>1 DEF MakerOK, CommitNo
  <2>2. CASE r.cmd = "abort"
    BY <1>1, <1>2, <1>3, <1>9, <2>2 DEF MakerOK, RequestOK, Undisturbed
  <2> QED
    BY <2>1, <2>2
<1>11. WorkRemembered(t)'
  BY <1>2, <1>3, <1>7, <1>8, <1>9 DEF WorkRemembered, CommitAnswered, CommitNo
<1>12. \A u \in Txs \ {t} : MakerOK(u)' /\ WorkRemembered(u)'
  BY <1>2, <1>3, <1>7, TxKept DEF Undisturbed
<1>13. (\A u \in Txs : MakerOK(u) /\ WorkRemembered(u))'
  BY <1>10, <1>11, <1>12
<1> QED
  BY <1>2, <1>3, <1>4, <1>5, <1>6, <1>13, AppliedInv DEF Undisturbed

\* A request the cluster knows is answered from its memory, and nothing else
\* happens: what a retry hears is what the first attempt was told.
LEMMA KnownInv ==
  ASSUME IInv, NEW r \in net, NEW e \in cache, e.mutation = r.mutation,
         IF r.retry THEN Reply(r, e.answer, e.tx) ELSE Reply(r, "duplicate", r.tx),
         UNCHANGED <<tx, maker, cache>>, net' = net \ {r}, Undisturbed
  PROVE  IInv'
<1>1. /\ e \in Entries /\ EntryOK(e) /\ RequestOK(r) /\ r \in Requests
      /\ r.h \in Handles /\ r.n \in Nat /\ r.cmd \in Mutating /\ r.tx \in TxOrNone
  BY RequestFacts DEF IInv, TypeOK, ClusterTypes, ClusterOK
<1>2. r.mutation = <<r.h, r.n, r.cmd>>
  BY <1>1, MutationFacts DEF Entries, RequestOK
<1>3. e.mutation[1] = r.h /\ e.mutation[2] = r.n /\ e.mutation[3] = r.cmd
  BY <1>2
<1>4. PICK answer \in Answers, t \in TxOrNone :
        Reply(r, answer, t) /\ AnswerFits(r, answer, t)
  <2>1. CASE r.retry
    <3>1. e.answer \in Answers /\ e.tx \in TxOrNone /\ Reply(r, e.answer, e.tx)
      BY <1>1, <2>1 DEF Entries
    <3>2. r.cmd = "commit" => CommitAnswered(r.h, e.answer)'
      BY <1>1, <1>2 DEF CommitAnswered, RequestOK, CommitNo
    <3>3. AnswerFits(r, e.answer, e.tx)
      BY <1>1, <1>3, <3>1, <3>2 DEF AnswerFits, EntryOK, Created
    <3> QED
      BY <3>1, <3>3
  <2>2. CASE ~r.retry
    <3>1. r.attempt = 1
      BY <1>1, <2>2 DEF RequestOK, Requests
    <3>2. AnswerFits(r, "duplicate", r.tx) /\ "duplicate" \in Answers
      BY <1>1, <3>1 DEF AnswerFits, RequestOK, Known, Answers
    <3> QED
      BY <1>1, <2>2, <3>2
  <2> QED
    BY <2>1, <2>2
<1>5. Told(r, answer, t)
  BY <1>4, ReplyFacts
<1>6. TypeOK'
  BY <1>5 DEF Told, IInv, TypeOK, ProcTypes, FlagTypes, ClusterTypes, Undisturbed
<1>7. Advances
  BY <1>6 DEF Advances, TxsAdvance, Undisturbed
<1>8. ClusterOK'
  <2>1. (\A f \in cache : EntryOK(f))'
    BY DEF IInv, ClusterOK, EntryOK, Created, CommitNo, Undisturbed
  <2>2. OneAnswerEach'
    BY DEF IInv, ClusterOK, OneAnswerEach
  <2>3. (\A u \in Txs : MakerOK(u) /\ WorkRemembered(u))'
    BY TxKept DEF Undisturbed
  <2> QED
    BY <2>1, <2>2, <2>3 DEF ClusterOK
<1> QED
  BY <1>4, <1>5, <1>7, <1>8, DeliveredInv

LEMMA DeliverInv ==
  ASSUME IInv, NEW r \in net, Deliver(r)
  PROVE  IInv'
<1>1. net' = net \ {r} /\ Undisturbed
  BY DEF Deliver, Undisturbed, threadVars
<1>2. CASE Known(r)
  <2>1. PICK e \in cache :
          /\ e.mutation = r.mutation
          /\ IF r.retry THEN Reply(r, e.answer, e.tx) ELSE Reply(r, "duplicate", r.tx)
    BY <1>2 DEF Deliver
  <2>2. UNCHANGED <<tx, maker, cache>>
    BY <1>2 DEF Deliver
  <2> QED
    BY <1>1, <2>1, <2>2, KnownInv
<1>3. CASE ~Known(r)
  <2>1. /\ r.tx \in TxOrNone /\ (r.cmd # "start" => r.tx = id[r.h])
    BY RequestFacts DEF RequestOK
  <2>2. CASE ApplyStart(r)
    BY <1>1, <1>3, <2>2, ApplyStartInv
  <2>3. CASE ApplyCommit(r)
    <3>1. CASE tx[r.tx] = "open"
      BY <1>1, <1>3, <2>3, <3>1, EndsInv DEF ApplyCommit
    <3>2. CASE tx[r.tx] # "open"
      <4>1. /\ r.cmd = "commit" /\ UNCHANGED <<tx, maker>>
            /\ Remember(r, "gone", r.tx) /\ Reply(r, "gone", r.tx)
        BY <2>3, <3>2 DEF ApplyCommit
      <4>2. AnswerTrue(r, "gone", r.tx)
        BY <2>1 DEF AnswerTrue
      <4> QED
        BY <1>1, <1>3, <4>1, <4>2, NoEffectInv
    <3> QED
      BY <3>1, <3>2
  <2>4. CASE ApplyAbort(r)
    <3>1. CASE tx[r.tx] = "open"
      BY <1>1, <1>3, <2>4, <3>1, EndsInv DEF ApplyAbort
    <3>2. CASE tx[r.tx] # "open"
      <4>1. /\ r.cmd = "abort" /\ UNCHANGED <<tx, maker>>
            /\ Remember(r, "ok", r.tx) /\ Reply(r, "ok", r.tx)
        BY <2>4, <3>2 DEF ApplyAbort
      <4>2. AnswerTrue(r, "ok", r.tx)
        BY <2>1, <4>1 DEF AnswerTrue
      <4> QED
        BY <1>1, <1>3, <4>1, <4>2, NoEffectInv
    <3> QED
      BY <3>1, <3>2
  <2>5. CASE Refuse(r)
    <3>1. AnswerTrue(r, "refused", r.tx)
      BY <2>1 DEF AnswerTrue
    <3> QED
      BY <1>1, <1>3, <2>5, <3>1, NoEffectInv DEF Refuse
  <2> QED
    BY <1>3, <2>2, <2>3, <2>4, <2>5 DEF Deliver
<1> QED
  BY <1>2, <1>3

\* The cluster forgets only what its process has outlived.
LEMMA ForgetInv ==
  ASSUME IInv, NEW e \in cache, Forget(e)
  PROVE  IInv'
<1>1. /\ cache' = cache \ {e}
      /\ UNCHANGED <<pc, id, call, calls, result, decided, thread, stop, lost, tx, maker, net>>
  BY DEF Forget, procVars, threadVars
<1>2. ~CacheOutlastsRetries
  <2> DEFINE h == e.mutation[1]
  <2>1. h \in Handles
    BY MutationFacts DEF IInv, TypeOK, ClusterTypes, Entries
  <2>2. call[h] # NoCall /\ call[h].attempt > CacheLife
    BY DEF Forget
  <2>3. call[h] \in Calls /\ call[h].attempt <= call[h].allowed /\ call[h].allowed <= Attempts
    BY <2>1, <2>2 DEF IInv, TypeOK, ProcTypes, HandleOK, CallIsSound
  <2> QED
    BY <2>2, <2>3, AttemptsAssumption DEF CacheOutlastsRetries, Calls
<1>3. TypeOK'
  BY <1>1 DEF IInv, TypeOK, ProcTypes, FlagTypes, ClusterTypes
<1>4. Advances
  BY <1>1, <1>2, <1>3 DEF Advances, TxsAdvance
<1>5. \A h \in Handles : HandleOK(h)'
  BY <1>1, <1>4, UntoldHandleInv
<1>6. \A h \in Handles : FirstAttemptIsNew(h)'
  BY <1>1 DEF IInv, FirstAttemptIsNew, Request
<1>7. \A r \in net' : RequestOK(r)'
  BY <1>1 DEF IInv, RequestOK, CommitNo
<1>8. ClusterOK'
  <2>1. (\A f \in cache : EntryOK(f))'
    BY <1>1 DEF IInv, ClusterOK, EntryOK, Created, CommitNo
  <2>2. OneAnswerEach'
    BY <1>1 DEF IInv, ClusterOK, OneAnswerEach
  <2>3. (\A u \in Txs : MakerOK(u) /\ WorkRemembered(u))'
    BY <1>1, <1>2 DEF IInv, ClusterOK, MakerOK, WorkRemembered, CommitNo
  <2> QED
    BY <2>1, <2>2, <2>3 DEF ClusterOK
<1> QED
  BY <1>3, <1>5, <1>6, <1>7, <1>8 DEF IInv

\* Nobody is told that a transaction expired, and nobody ended it.
LEMMA ExpireInv ==
  ASSUME IInv, NEW t \in Txs, Expire(t)
  PROVE  IInv'
<1>1. /\ tx[t] = "open" /\ tx' = [tx EXCEPT ![t] = "aborted"]
      /\ UNCHANGED <<pc, id, call, calls, result, decided, thread, stop, lost, maker, cache, net>>
  BY DEF Expire, procVars, threadVars
<1>2. /\ tx' \in [Txs -> {"none", "open", "committed", "aborted"}] /\ tx'[t] = "aborted"
      /\ \A u \in Txs \ {t} : tx'[u] = tx[u]
  BY <1>1 DEF IInv, TypeOK, ClusterTypes
<1>3. TypeOK'
  BY <1>1, <1>2 DEF IInv, TypeOK, ProcTypes, FlagTypes, ClusterTypes
<1>4. Advances
  BY <1>1, <1>2, <1>3 DEF Advances, TxsAdvance
<1>5. \A h \in Handles : HandleOK(h)'
  BY <1>1, <1>4, UntoldHandleInv
<1>6. \A h \in Handles : FirstAttemptIsNew(h)'
  BY <1>1 DEF IInv, FirstAttemptIsNew, Request
<1>7. \A r \in net' : RequestOK(r)'
  BY <1>1 DEF IInv, RequestOK, CommitNo
<1>8. ClusterOK'
  <2>1. ASSUME NEW f \in cache PROVE EntryOK(f)'
    <3>1. EntryOK(f) /\ f.tx \in TxOrNone
      BY DEF IInv, ClusterOK, TypeOK, ClusterTypes, Entries
    <3>2. f.mutation[3] = "commit" => f.tx \in Txs
      BY <3>1 DEF EntryOK, TxOrNone
    <3> QED
      BY <1>1, <1>4, <3>1, <3>2 DEF EntryOK, Created, CommitNo, Advances, TxsAdvance
  <2>2. OneAnswerEach'
    BY <1>1 DEF IInv, ClusterOK, OneAnswerEach
  <2>3. MakerOK(t)' /\ WorkRemembered(t)'
    <3>1. MakerOK(t) /\ WorkRemembered(t)
      BY DEF IInv, ClusterOK
    <3> QED
      BY <1>1, <1>2, <3>1 DEF MakerOK, WorkRemembered
  <2>4. \A u \in Txs \ {t} : MakerOK(u)' /\ WorkRemembered(u)'
    BY <1>1, <1>2, TxKept
  <2>5. (\A f \in cache : EntryOK(f))'
    BY <1>1, <2>1
  <2>6. (\A u \in Txs : MakerOK(u) /\ WorkRemembered(u))'
    BY <2>3, <2>4
  <2> QED
    BY <2>2, <2>5, <2>6 DEF ClusterOK
<1> QED
  BY <1>3, <1>5, <1>6, <1>7, <1>8 DEF IInv

-----------------------------------------------------------------------------
(***************************************************************************)
(* The theorems.                                                           *)
(***************************************************************************)
LEMMA StutterInv == IInv /\ UNCHANGED vars => IInv'
<1> SUFFICES ASSUME IInv, UNCHANGED vars PROVE IInv'
  OBVIOUS
<1>1. /\ UNCHANGED <<pc, id, call, calls, result, decided, thread, stop, lost>>
      /\ UNCHANGED <<tx, maker, cache, net>>
  BY DEF vars, procVars, threadVars, clusterVars
<1>2. TypeOK'
  BY <1>1 DEF IInv, TypeOK, ProcTypes, FlagTypes, ClusterTypes
<1>3. Advances
  BY <1>1, <1>2 DEF Advances, TxsAdvance
<1>4. \A h \in Handles : HandleOK(h)'
  BY <1>1, <1>3, UntoldHandleInv
<1>5. \A h \in Handles : FirstAttemptIsNew(h)'
  BY <1>1 DEF IInv, FirstAttemptIsNew, Request
<1>6. \A r \in net' : RequestOK(r)'
  BY <1>1 DEF IInv, RequestOK, CommitNo
<1>7. (\A e \in cache : EntryOK(e))' /\ OneAnswerEach'
  BY <1>1 DEF IInv, ClusterOK, EntryOK, Created, CommitNo, OneAnswerEach
<1>8. (\A t \in Txs : MakerOK(t) /\ WorkRemembered(t))'
  BY <1>1, TxKept
<1> QED
  BY <1>2, <1>4, <1>5, <1>6, <1>7, <1>8 DEF IInv, ClusterOK

LEMMA NextInv == IInv /\ [Next]_vars => IInv'
<1> SUFFICES ASSUME IInv, [Next]_vars PROVE IInv'
  OBVIOUS
<1>1. ASSUME NEW h \in Handles, CallStep(h) \/ ThreadStep(h)
      PROVE  IInv'
  BY <1>1, CallStepInv, ThreadStepInv
<1>2. ASSUME NEW h \in Handles, HandleReturns(h)
      PROVE  IInv'
  BY <1>2, StartedInv, StartFailedInv, FirstPingInv, AttachGotInv, AttachPingedInv,
     CommittedInv, CommittedByIdInv, AbortedInv, DetachInv
  DEF HandleReturns
<1>3. ASSUME NEW h \in Handles, HandleActs(h)
      PROVE  IInv'
  BY <1>3, StartInv, AttachInv, CommitInv, AbortInv, DropInv, DetachInv, CrashInv
  DEF HandleActs
<1>4. ASSUME NEW r \in net, Deliver(r)
      PROVE  IInv'
  BY <1>4, DeliverInv
<1>5. ASSUME NEW e \in cache, Forget(e)
      PROVE  IInv'
  BY <1>5, ForgetInv
<1>6. ASSUME NEW t \in Txs, Expire(t)
      PROVE  IInv'
  BY <1>6, ExpireInv
<1> QED
  BY <1>1, <1>2, <1>3, <1>4, <1>5, <1>6, StutterInv DEF Next

LEMMA Inductive == Spec => []IInv
BY InitInv, NextInv, PTL DEF Spec

\* Every variable keeps its type, for any processes, attempts and transactions.
THEOREM TransactionTypes == Spec => []TypeOK
<1>1. IInv => TypeOK
  BY DEF IInv
<1> QED
  BY <1>1, Inductive, PTL

\* A commit() that returned Ok has published its handle's transaction, however
\* many requests were lost, late or repeated, and whatever the cluster forgot.
THEOREM OkIsPublished == Spec => []OkMeansPublished
<1>1. IInv => OkMeansPublished
  BY DEF IInv, HandleOK, OutcomeIsSound, OkMeansPublished
<1> QED
  BY <1>1, Inductive, PTL

\* While the cluster remembers a mutation id for as long as retry::run repeats
\* it, what a commit answers is true in both directions: a process is not told
\* that a commit of its own was turned down when it was applied.
THEOREM CommitsAnswerTruly == CacheOutlastsRetries => (Spec => []CommitAnswersAreTrue)
<1> SUFFICES ASSUME CacheOutlastsRetries
             PROVE  Spec => []CommitAnswersAreTrue
  OBVIOUS
<1>1. ASSUME IInv
      PROVE  RefusalIsTruthful
  <2> SUFFICES ASSUME NEW h \in Handles, result[h] \in {"gone", "duplicate", "refused"},
                      tx[id[h]] = "committed", maker[id[h]].ended[1] = h
               PROVE  FALSE
    BY DEF RefusalIsTruthful, PublishedBy
  <2>1. HandleOK(h)
    BY <1>1 DEF IInv
  <2>2. result[h] \in {"gone", "refused"}
    BY <2>1 DEF HandleOK, OutcomeIsSound
  <2>3. CommitAnswered(h, result[h])
    BY <2>1, <2>2 DEF HandleOK, RefusalsRemembered
  <2>4. id[h] # NoTx
    <3>1. PICK e \in cache : e.mutation = <<h, CommitNo(h), "commit">>
      BY <2>3 DEF CommitAnswered
    <3>2. EntryOK(e)
      BY <1>1 DEF IInv, ClusterOK
    <3> QED
      BY <3>1, <3>2 DEF EntryOK
  <2>5. id[h] \in Txs
    BY <1>1, <2>4 DEF IInv, TypeOK, ProcTypes, TxOrNone
  <2>6. CommitAnswered(h, "ok")
    BY <1>1, <2>5 DEF IInv, ClusterOK, WorkRemembered
  <2> QED
    BY <1>1, <2>2, <2>3, <2>6 DEF CommitAnswered, IInv, ClusterOK, OneAnswerEach
<1>2. IInv => CommitAnswersAreTrue
  BY <1>1 DEF CommitAnswersAreTrue, IInv, HandleOK, OutcomeIsSound, OkMeansPublished
<1> QED
  BY <1>2, Inductive, PTL

\* Under the same memory, one start creates one transaction, however often its
\* request arrives.
THEOREM StartsCreateOne == CacheOutlastsRetries => (Spec => []OneTransactionPerStart)
<1> SUFFICES ASSUME CacheOutlastsRetries
             PROVE  Spec => []OneTransactionPerStart
  OBVIOUS
<1>1. ASSUME IInv
      PROVE  OneTransactionPerStart
  <2> SUFFICES ASSUME NEW t \in Txs, NEW u \in Txs, tx[t] # "none", tx[u] # "none",
                      maker[t].created = maker[u].created
               PROVE  t = u
    BY DEF OneTransactionPerStart
  <2>1. PICK e \in cache : e.mutation = <<maker[t].created[1], 1, "start">> /\ e.tx = t
    BY <1>1 DEF IInv, ClusterOK, WorkRemembered
  <2>2. PICK f \in cache : f.mutation = <<maker[u].created[1], 1, "start">> /\ f.tx = u
    BY <1>1 DEF IInv, ClusterOK, WorkRemembered
  <2> QED
    BY <1>1, <2>1, <2>2 DEF IInv, ClusterOK, OneAnswerEach
<1> QED
  BY <1>1, Inductive, PTL

\* Dropping or crashing an attached handle never aborts the starter's work: an
\* abort that came from an attacher was asked for by it.
THEOREM AttachersDoNotAbort == Spec => []AttachedNeverAborts
<1>1. IInv => AttachedNeverAborts
  BY DEF IInv, ClusterOK, MakerOK, AttachedNeverAborts
<1> QED
  BY <1>1, Inductive, PTL

\* is_lost() is true only of a transaction that has ended, and no keep-alive
\* outlives the handle it pings for.
THEOREM KeepAlivesAreTrue == Spec => []KeepAliveIsTrue
<1>1. IInv => KeepAliveIsTrue
  BY DEF IInv, HandleOK, OutcomeIsSound, KeepAliveIsTrue, LostIsTrue, GoneMeansStopped
<1> QED
  BY <1>1, Inductive, PTL
=============================================================================
