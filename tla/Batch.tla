-------------------------------- MODULE Batch --------------------------------
(***************************************************************************)
(* Several commands in one request: BatchRequest of                        *)
(* crates/ytsaurus-client/src/batch.rs and Client::execute_batch_with of   *)
(* lib.rs.                                                                 *)
(*                                                                         *)
(* A batch is cut into chunks that are sent one after the other, each as   *)
(* one execute_batch whose body holds the parts and whose answer holds a   *)
(* result per part.  The class of the whole batch decides whether a chunk  *)
(* may be repeated.                                                        *)
(*                                                                         *)
(* The cluster is external.  It may carry out any of the parts of a        *)
(* request, at any time after it was sent, and answer or not; it derives   *)
(* a part's mutation id from the request's and the part's place in it, and *)
(* answers a part it remembers without doing it again.                     *)
(***************************************************************************)
EXTENDS Integers, Sequences

CONSTANTS
  Batches,     \* batches to send: sequences of parts
  Sizes,       \* values of with_max_part_size
  BatchAttempts,  \* attempts of the client's retry policy
  NoOutcome

VARIABLES
  batch,    \* BatchRequest::parts
  size,     \* BatchRequest::max_part_size
  given,    \* the caller supplies a mutation id
  batchPhase,    \* "check", "send", "answer" or "done"
  chunk,    \* the chunk under way, from 0
  tries,    \* attempts made for it
  reply,    \* the answer that has come in
  sent,     \* requests the cluster has not dealt with, as [chunk, try]
  knownIds,    \* mutation ids the cluster remembers, with the part each did
  partApplied,  \* history: how often each part was carried out
  results,  \* the answers so far
  outcome   \* what execute_batch returned

callerVars == <<batch, size, given>>
masterVars == <<knownIds, partApplied>>
batchVars == <<callerVars, batchPhase, chunk, tries, reply, sent, masterVars, results, outcome>>

-----------------------------------------------------------------------------
(***************************************************************************)
(* Parts, as the methods of BatchRequest push them.                        *)
(***************************************************************************)
\* kind decides how the batch may be repeated, keyed whether a success must
\* carry the key the command answers under.
Part(kind, keyed) == [kind |-> kind, keyed |-> keyed]

PartCreate       == Part("MasterMutation", TRUE)
PartCreateTable  == Part("MasterMutation", TRUE)
PartExists       == Part("Read", TRUE)
PartGet          == Part("Read", TRUE)
PartList         == Part("Read", TRUE)
PartRemove       == Part("MasterMutation", FALSE)
PartRemoveTree   == Part("MasterMutation", FALSE)
PartSetAttribute == Part("MasterMutation", FALSE)

\* raw_with: what a part of a command this crate does not know may be; heavy
\* commands and those with a data stream are refused before they are pushed.
PartRaw(repeatable) ==
  Part(CASE repeatable = "Freely" -> "Read"
         [] repeatable = "WithMutationId" -> "MasterMutation"
         [] repeatable = "Never" -> "Raw",
       FALSE)

Parts ==
  {PartCreate, PartCreateTable, PartExists, PartGet, PartList, PartRemove, PartRemoveTree,
   PartSetAttribute} \cup {PartRaw(r) : r \in {"Freely", "WithMutationId", "Never"}}

\* with_max_part_size and max_part_size never give 0.
ASSUME BatchAssumption ==
  /\ Batches \subseteq Seq(Parts)
  /\ Sizes \subseteq Nat \ {0}
  /\ NoOutcome \notin {"Ok", "Config", "error", "refused", "BatchInterrupted"}

-----------------------------------------------------------------------------
Has(kind) == \E i \in DOMAIN batch : batch[i].kind = kind

\* Mutant: one mutation is enough to repeat the whole under a mutation id.
RepeatableUnordered ==
  IF Has("MasterMutation") THEN "WithMutationId"
  ELSE IF Has("Raw") THEN "Never"
  ELSE "Freely"

\* BatchRequest::repeatable, of the whole batch whatever a chunk holds.
Repeatable ==
  IF Has("Raw") THEN "Never"
  ELSE IF Has("MasterMutation") THEN "WithMutationId"
  ELSE "Freely"

AllowedTries == IF Repeatable = "Never" THEN 1 ELSE BatchAttempts

\* The places of chunk c's parts in the batch (slice::chunks).
Lowest(a, b) == IF a < b THEN a ELSE b
Places(c) == (c * size + 1)..Lowest((c + 1) * size, Len(batch))
ChunkParts(c) == SubSeq(batch, c * size + 1, Lowest((c + 1) * size, Len(batch)))
Chunks == {c \in 0..Len(batch) : Places(c) # {}}

\* The id a part of chunk c is known by to the cluster: the request's, counted
\* up, where the request has one.  A fresh id is made for each chunk.
HasId == given \/ Repeatable = "WithMutationId"
MutationOf(c, i) == <<IF given THEN "given" ELSE c, i - c * size>>

BatchInit ==
  /\ batch \in Batches
  /\ size \in Sizes
  /\ given \in BOOLEAN
  /\ batchPhase = "check" /\ chunk = 0 /\ tries = 0
  /\ reply = <<>> /\ sent = {}
  /\ knownIds = {}
  /\ partApplied = [i \in DOMAIN batch |-> 0]
  /\ results = <<>> /\ outcome = NoOutcome

\* What is refused before anything is sent: an empty batch, and one id for
\* several requests.
Check ==
  /\ batchPhase = "check"
  /\ IF batch = <<>> \/ (given /\ Len(batch) > size)
     THEN batchPhase' = "done" /\ outcome' = "Config"
     ELSE batchPhase' = "send" /\ UNCHANGED outcome
  /\ UNCHANGED <<callerVars, chunk, tries, reply, sent, masterVars, results>>

\* One attempt of the chunk's request.
SendChunk ==
  /\ batchPhase = "send"
  /\ batchPhase' = "answer"
  /\ tries' = tries + 1
  /\ sent' = sent \cup {[chunk |-> chunk, try |-> tries + 1]}
  /\ UNCHANGED <<callerVars, chunk, reply, masterVars, results, outcome>>

\* The request of a chunk has failed for good: the answers of the chunks before
\* are reported with it, if there are any.
Fail(cause) ==
  /\ batchPhase' = "done"
  /\ outcome' = IF results = <<>> THEN cause ELSE "BatchInterrupted"
  /\ UNCHANGED <<chunk, tries, results>>

\* The attempt fails: for a reason that will pass, or not.  Its request may
\* still be carried out.
ChunkFails ==
  /\ batchPhase = "answer" /\ reply = <<>>
  /\ \/ tries < AllowedTries /\ batchPhase' = "send" /\ UNCHANGED <<chunk, tries, results, outcome>>
     \/ Fail("error")
  /\ UNCHANGED <<callerVars, reply, sent, masterVars>>

\* part_result: a success without the key its command answers under, an empty
\* success where a value is due and an unknown shape are no result.
IsResult(item, part) ==
  \/ item.shape \in {"output", "error"}
  \/ item.shape \in {"bare", "empty"} /\ ~part.keyed

\* parse_results: as many results as parts, each of a shape its part may have.
Fits(items, parts) ==
  /\ Len(items) = Len(parts)
  /\ \A i \in DOMAIN items : IsResult(items[i], parts[i])

\* The answer is read: the chunk's results are added, or the batch is over.
ReadAnswer ==
  /\ batchPhase = "answer" /\ reply # <<>>
  /\ IF Fits(reply, ChunkParts(chunk))
     THEN /\ results' = results \o reply
          /\ IF chunk + 1 \in Chunks
             THEN batchPhase' = "send" /\ chunk' = chunk + 1 /\ tries' = 0 /\ UNCHANGED outcome
             ELSE batchPhase' = "done" /\ outcome' = "Ok" /\ UNCHANGED <<chunk, tries>>
     ELSE Fail("refused")
  /\ reply' = <<>>
  /\ UNCHANGED <<callerVars, sent, masterVars>>

-----------------------------------------------------------------------------
(***************************************************************************)
(* The cluster.                                                            *)
(***************************************************************************)
\* Every list of results the cluster may answer with, given the parts it did
\* (of `did`, the part done under each place's id): usually one in place for
\* each part, sometimes one of an unexpected shape, or one missing.
ChunkAnswers(c, did) ==
  LET first == c * size
      n == Len(ChunkParts(c))
      item(k, shape) == [part |-> did[first + k], ok |-> did[first + k] # 0, shape |-> shape]
      usual == [k \in 1..n |-> item(k, IF did[first + k] # 0 THEN "output" ELSE "error")]
  IN {usual, SubSeq(usual, 1, n - 1), Tail(usual)} \cup
     {[usual EXCEPT ![k] = item(k, shape)] :
        k \in 1..n, shape \in {"output", "bare", "empty", "odd", "error"}}

\* What the cluster remembers of part i of chunk c, by the part's id.
KnownAs(c, i) == {k \in knownIds : HasId /\ k.id = MutationOf(c, i)}

\* Of the parts in `doing`, those it has not done under their ids before, and the
\* part it answers for at each place, 0 for none.
NewParts(c, doing) == {i \in doing : KnownAs(c, i) = {}}
DoneFor(c, doing) ==
  [i \in Places(c) |-> IF KnownAs(c, i) # {} THEN (CHOOSE k \in KnownAs(c, i) : TRUE).part
                       ELSE IF i \in doing THEN i ELSE 0]

\* A request is carried out, as far as the parts in `doing`: one remembered by
\* its id is not done again, and is answered for what was done under that id.
ExecuteBatch(r, doing) ==
  /\ r \in sent
  /\ doing \subseteq Places(r.chunk)
  /\ LET new == NewParts(r.chunk, doing)
     IN /\ partApplied' = [i \in DOMAIN batch |-> Lowest(partApplied[i] + (IF i \in new THEN 1 ELSE 0), 2)]
        /\ knownIds' = knownIds \cup {[id |-> MutationOf(r.chunk, i), part |-> i] :
                                  i \in {j \in new : HasId /\ batch[j].kind = "MasterMutation"}}
  /\ sent' = sent \ {r}
  /\ \/ /\ batchPhase = "answer" /\ r.chunk = chunk /\ r.try = tries
        /\ \E items \in ChunkAnswers(r.chunk, DoneFor(r.chunk, doing)) : items # <<>> /\ reply' = items
     \/ UNCHANGED reply
  /\ UNCHANGED <<callerVars, batchPhase, chunk, tries, results, outcome>>

BatchNext ==
  \/ Check \/ SendChunk \/ ChunkFails \/ ReadAnswer
  \/ \E r \in sent, doing \in SUBSET (DOMAIN batch) : ExecuteBatch(r, doing)

BatchSpec == BatchInit /\ [][BatchNext]_batchVars

-----------------------------------------------------------------------------
\* A caller never gets another part's answer, and never a success without the
\* key it will index: what stands at a place of the results is the cluster's
\* answer to the part at that place (parse_results).
AnswersFitParts ==
  \A i \in DOMAIN results :
    /\ results[i].ok => results[i].part = i
    /\ results[i].shape \in {"bare", "empty"} => ~batch[i].keyed

\* An interrupted batch reports exactly what it may: the results are those of
\* whole chunks, Ok has all of them, and no part after the failed chunk was sent.
InterruptionIsExact ==
  outcome # NoOutcome =>
    /\ outcome = "Ok" => Len(results) = Len(batch)
    /\ outcome # "Ok" /\ results # <<>> => outcome = "BatchInterrupted"
    /\ Len(results) = Len(batch) \/ \E c \in 0..Len(batch) : Len(results) = c * size
    /\ \A i \in DOMAIN batch : i > Len(results) + size => partApplied[i] = 0

\* A batch tells the truth about each part, however it was cut, repeated and
\* interrupted.
BatchIsTruthful == AnswersFitParts /\ InterruptionIsExact

\* A part that is not a read is carried out at most once, however often, late and
\* partly its chunk is carried out, and whichever other parts share it.
PartsApplyOnce ==
  \A i \in DOMAIN batch : batch[i].kind # "Read" => partApplied[i] <= 1

\* A batch does each part once and tells the truth about it.
BatchIsSound == BatchIsTruthful /\ PartsApplyOnce
=============================================================================
