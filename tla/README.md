# ytsaurus-rs: TLA+ models, checks and proofs

This directory models the parts of `ytsaurus-rs`, the Rust clients of YTsaurus,
whose correctness depends on interleavings, failures and retries. Paths are
relative to the repository root; `PROJECT.json` maps every definition to the
lines it models.

## 1. Inventory

| Part | State it keeps | Operations | What makes it correct | Here |
|---|---|---|---|---|
| RPC connection, `crates/ytsaurus-rpc/src/connection.rs` | semaphore, pending map, request and cancellation channels, two tasks | `invoke_raw`, guard drop, `write_loop`, `read_loop`, `Drop` | no lost or double answer, no leaked permit or entry, nobody parked on a dead connection, cancellation always fits | `RpcConnection`, `RpcCalls` |
| RPC bus, `rpc/src/bus/mod.rs`, `bus/packet.rs` | read buffer, handshake | send, receive, decode | a packet is decoded once and whole, however it is cut; bad ones are refused and nothing after them is read | `Bus` |
| RPC client, blocking facade, `rpc/src/client.rs`, `blocking.rs` | transaction id, name tables, runtime | reads, writes, begin, commit, abort, `block_on` | a reported commit happened, rows land under the columns they were written to, answers belong to their call | `TabletClient` |
| Transactions, `ytsaurus-client/src/transaction.rs` | handle, `done`, keep-alive thread | start, attach, commit, abort, detach, drop, ping | a reported commit happened, a retry is not a second effect, an attacher never aborts, nothing pings for ever, one lost ping is survived | `Transaction`, `KeepAliveTiming` |
| Retries, `ytsaurus-client/src/retry.rs` | attempt number, mutation id | `run`, classification, backoff | bounded, repeats only what may be repeated | in `HttpCommand`, `Transaction`, `Batch`, `Operations` |
| Heavy routing, `ytsaurus-client/src/http.rs` | `HeavyProxy` behind an `Arc<Mutex>` shared by clones | `base_for`, `after_heavy`, builders | never an empty pool, only the failed host dropped, own rules only, rate-limited lookups, recovery | `HeavyRouting` |
| HTTP dispatch, `http.rs` | URL, hops, deadline | `call_with`, `send`, `open`, `upload`, `dispatch`, `redirect` | no token to another origin, no effect twice, ends under one deadline | `HttpCommand` |
| Client commands, `lib.rs`, `dynamic.rs` | none of their own | one method per command | each is sent in the class that its effect allows | `ClientCommands` |
| Operations, `operation.rs`, `lib.rs` | last seen state | control commands, `wait_for_operation` | tells how the operation ended, survives transient errors, a refused command was not carried out | `Operations` |
| Cypress locks, `lib.rs` | the lock's id and state | `lock`, `lock_waiting` | who is told it holds the lock holds it; the wait ends | `CypressLocks` |
| Batches, `batch.rs`, `lib.rs` | parts, chunks, answers | split, run, match | each answer reaches its own part, no part is done twice | `Batch` |
| File cache, `lib.rs` | staging node | look up, stage, put, fall back | a worker uploaded is whole and can be executed, nothing is left behind unless a request failed | `FileCache` |
| Row upload, `stream.rs` | encoded chunk, error | `RowStream::read` | the body is the rows, or the upload fails | `RowUpload` |
| Job input, `ytsaurus-job/src/reader.rs`, `skiff.rs` | buffer, pending record, table index, group key | `next_event`, `next_group`, `next_row` | rows are neither lost nor split at refills, groups are maximal runs | `JobReader`, `SkiffReader` |
| Job output, `writer.rs`, `skiff_writer.rs`, `worker.rs` | current table, buffers | write, flush, finish, drop | a job that has finished and succeeded has written every row to its table | `JobWriter` |
| YSON codec, `ytsaurus-yson` | position, flags, depth | serialize, deserialize, scan | a value written is the value read, a cut stream is noticed, the scanner agrees | `Yson` |
| Skiff codec, `ytsaurus-skiff` | budgets | encode, decode | as YSON, within the budgets | in `SkiffReader`, `JobWriter` |
| Specs, paths, schemas, RPC row format, API types, derive macros, generated protobuf, tracing, xtask | none | | | not modelled, section 5 |

How they interact: callers of the RPC client share one connection; the reader and
writer tasks share its map, semaphore and channels with them. An HTTP command
goes through `call_with`, which asks `base_for` where to send it, runs it under
`retry::run`, and reports a heavy failure to `after_heavy`. A transaction handle
owns a client stamped with its id, and a thread with a client of its own that
pings. Clones of a client share the routing state. Uploads, batches, locks and
operations are procedures of several such commands. A job reads records that the
YSON scanner delimits and the deserializer decodes.

What is hard about it: futures may be dropped at any `await`; a timeout races a
late answer; two tasks close one connection; `Drop` can neither wait nor fail; a
request given up may still arrive; answers get lost after the effect; a thread
outlives the handle it serves; several commands fail at a host that a refresh has
just listed again; a launcher dies between two requests; a stream may be cut or
refilled at any byte. `PROJECT.json`, "hazards", lists these at their lines.

## 2. Modules

### Concurrent parts

**`RpcCalls`** is what a connection promises: a call is opened once, ends once,
reaches the proxy at most once; `answer` is reported only for a request that
arrived, `closed` only on a connection that is lost.

**`RpcConnection`** is `connection.rs`. A caller's `pc` is the `await` at which it
stands in `invoke_raw`; each stretch between two awaits is one action, and at each
a future may be dropped (`DropUnarmed`, `DropArmed`) or, with a timeout, expire.
`GuardDrop` is `PendingGuard::drop`: the entry is removed by a task that runs later,
at once, or not at all when there is no runtime and the lock is taken; the permit
is released or moves into a cancellation. `write_loop` is `PollCancels`,
`PollOutbound`, `Repoll` and `SendersGone` (the select, whose branches are polled
one after the other), then `WriteDone`/`WriteFail`; both loops end in `MarkClosed`
and `CloseWaiters`. The proxy is external: it accepts, works, answers, may stop
reading. Packets are reduced to their request id. `ImplementsCalls` is the
refinement of `RpcCalls`, with `lost` standing for the flag `closed`.

**`Transaction`** is `transaction.rs` with `retry::run` and `call_with`. `call[h]` is
the state of the retry loop; a mutating attempt puts a request on `net`, where it
stays until delivered, also after its attempt was given up. The cluster (external)
applies it, or answers from its mutation cache, or refuses an unmarked duplicate.
Each handle's process may crash at any time. The keep-alive thread is `thread`,
`stop`, `lost`. Time is abstracted away: attempts may time out, pings may fail and
transactions may expire whenever the model likes, so what holds does not depend on
timing. `Forget` ties the cache's life to the number of attempts (`CacheLife`), since
that is what uses up its minutes.

**`KeepAliveTiming`** has the times that `Transaction` leaves out: `ping_interval`,
`first_ping_in`, `ping_request_timeout`, the loop of `KeepAlive::spawn`, and a start or
an attach that was itself slow. The cluster's clock restarts with every ping that
reaches it; a ping may be lost on its way there or back.

**`HeavyRouting`** is `base_for`, `after_heavy` and the builders. `heavy[k]` are the
`HeavyProxy` values behind the `Arc`s, `cell[c]` which one a client uses. A lookup
holds the mutex from `BeginLookup` until it is resolved. Time is counted in ticks up
to `MaxAge`. Host names and rules are reduced to the constant `Admits`.
`hosts_retry_after` is one value for all clones; `host_list_refresh` is each
client's own. A failure at the configured address changes nothing and is `Finish`.

### Commands and procedures of the HTTP client

**`ClientCommands`** has one operator per `Client` method that sends a request: which half
of the transport carries it (`form`), its class in `retry.rs` (`repeatable`), and its body.
The modules below take the class of their commands from it, so a method sent in the
wrong class shows up as an effect that happens twice.

**`HttpCommand`** is one such command. `MCProfiles` are the combinations of form, class, body
and effect that occur. An attempt takes one deadline and shares it among the requests
its redirects make; streaming transfers bound only the phases before the data. A
request stays on the wire after its attempt is over. `backoff` is written with the
width of the shift and the range of `Duration`, so that the saturation is what is
checked (`TimesAreKept`). `received` remembers how the body of the answer arrived, since a
success whose body was cut is one to a finished upload and none to a buffered command
(`OkMeansDone`). A certificate that is refused ends the command at once (`Break`).

**`Batch`** is `BatchRequest` and `execute_batch_with`: chunks, the class of the whole batch, the
attempts of each chunk, the matching of results to parts. **`Operations`** is an
operation with one process that controls it and one that waits for it. The scheduler
(external) lets go of an operation that it is told to end; one that ended by itself it keeps
for a while (`opKept`), in which an abort is still accepted (lib.rs:2421). The source does not
say what becomes of the state then, so `Scheduled` leaves open whether it turns to aborted,
and also what the other commands do in that while. `opEnd` is history: how the operation
first ended. A wait may therefore have said Ok of an operation that is called aborted later.
**`CypressLocks`** is clients at one node, with the cluster's queue external. A lock is known by
its id, which is its place in the queue; a client whose answers were all lost has queued a lock
whose id it was never told.
**`FileCache`** is launchers that upload the same worker at once; every request may fail
with or without effect, and a launcher may die in between. `Handover` is what the cluster
does in `put_file_to_cache`: it takes the staging node or a copy, and the attribute
`executable` may get lost with it, which is why the code sets it again (`MarkCached`).
`handed` remembers who handed the file over and whether its mark survived. **`RowUpload`** is
`RowStream`, the body of `write_table_rows`, read by a transport in pieces of any size.

### RPC

**`Bus`** is the packet codec and the handshake over a stream of words instead of bytes: a
word is a header, a field of one, or a byte of payload. Reads end anywhere, the peer may close
anywhere, one word may be flawed where a checksum shows it.

**`TabletClient`** is `client.rs` as `blocking.rs` drives it. A blocking client's connection
makes progress only inside `block_on`, so a request whose caller timed out may go out with
the next call. Rows are sent under the name table built from all rows of a call, and
answers are read under the proxy's own. `commits` is the cluster's history of commits, and
`TableAt(history, ts)` is the table after the first `ts` of them, which is what a read at
timestamp `ts` sees.

### Jobs and codecs

**`JobReader`** is `reader.rs` with `scan_value` as it uses it. A byte is its offset in
the stream, so the model can tell whether the buffer, compacted, grown and refilled by
reads of any size, still holds what it should. A record has a kind, a length and the
cuts at which the text lexer refuses it (`torn`, empty in binary). A call sets `pc`;
the loops of `ensure_pending`, `next_record_len` and `fill` are the actions that follow,
and the last one returns. The stream may end at any byte and a read may fail. `passed`
says which record was consumed last and is history only, as are `made` and `lapsed`.
Interrupted reads are retried and not seen. A job uses one of `next_event`, `groups`
and `groups_by` throughout. The code compares the limit with the buffer only when it is
full, so a record larger than `max_record_bytes` that fits the first buffer is accepted;
`StopsAreReal` therefore speaks of refusals alone.

**`SkiffReader`** is `SkiffJobReader` on the Skiff `Decoder`: a sequence of numbers in which only
the schema says where a row ends, with the budgets of a blob and of a row. The columns of a row and
the items of a repeated variant are read by recursive functions (`Advance`, `Repeated`).
**`JobWriter`** is the three ways a job writes (a descriptor per table, switches in one
stream, Skiff) over std's `BufWriter`, up to what `finish` and `Drop` do.

**`Yson`** is the codec over tokens. A type says which visitor drives the deserializer. A behaviour
reads, through `StreamDeserializer`, values that the serializer wrote, cut anywhere, or an
arbitrary sequence of tokens; `YsonIsRead` says that what is read is what was written, that
a cut is reported, and that the scanner finds the records the deserializer reads. The accesses are
recursive operators, so nothing here can be proved with TLAPS.

### Checking

`MC*` give the constants their values. **`MCProcedures`** is not a composition: the
procedures share no state, so `part`, chosen at the start, says which one a behaviour
follows while the variables of the others rest. In the same way **`MCRetries`** joins
the safety of `Transaction` with `KeepAliveTiming` and `Batch`, and **`MCShared`** its liveness
with `HeavyRouting`; only there do retries outlive the cluster's memory (`Forget`). Operators whose comment begins "Mutant:" are
wrong versions of the definition below them; `PROJECT.json`, "mutants", says which
property each breaks, as evidence that the property can fail.

## 3. Runs

| Run | Shows | Bounds |
|---|---|---|
| `connection_safety` | types, `CancelHasRoom`, `EntryHasOwner`, `ClosingIsOrderly`, `CancelsAreDue`, refinement of `RpcCalls` | 2 callers (symmetric), 1 permit, 1 slot, 3 calls in all |
| `connection_liveness` | `DeadlinedCallsReturn`: a deadlined call returns whatever the peer does; `EndsUnlessStalled`: closing wakes callers and dropping ends the tasks unless the peer stalls | 2 callers, one without a deadline, 2 permits, 1 slot |
| `connection_load` | **violation**: see finding 1 | 1 permit |
| `connection_close_stalled` | **violation**: see finding 2 | no deadlines, peer may stall |
| `retried_commands` | `CommitAnswersAreTrue`, `OneTransactionPerStart`, `AttachedNeverAborts`, `KeepAliveIsTrue` | a starter and an attacher, 2 attempts, 2 transactions |
| | `OneLostPingIsSurvived` | timeout 15, second 1, latency 1, start followed for 9 |
| | `BatchIsSound` | batches of up to 3 parts, part sizes 1 to 3, 2 attempts |
| `shared_in_a_client` | transactions end, commands return; `PoolNeverEmpty`, `PoolIsAnswerMinusFailed`, `RoutedWithinRules`, `LookupsAreSpaced`, `RoutingRecovers` | a starter, 3 attempts, cache life 2; 2 clones, 2 hosts, 2 rules, intervals 1, 2, 3, 2 cells |
| `transaction_published` | **violation**: see finding 3 | 2 attempts |
| `http_command` | `StaysHome`, `OkMeansDone`, `EffectOnce`, `TimesAreKept`, `CommandEnds` | 2 origins, 4 attempts, 2 redirects, timeout 2, lookup timeout 1, backoff 1 to 3, shift of 2 bits, durations to 3 |
| `client_procedures` | the procedures, one per behaviour: see below | see below |
| `file_cache_found` | **violation**: see finding 6 | 2 launchers |
| `job_reader_text` | **violation**: see finding 4 | 2 records of 11 shapes, in text |
| `yson_roundtrip` | **violation**: see finding 5 | attributed empty maps |

`client_procedures`, by part:

| Part | Property | Bounds |
|---|---|---|
| operations | `OperationIsTruthful`, `PollsEnd` | 2 control commands, 2 attempts, 1 reported job |
| locks | `ToldIsHeld`, `PollsEnd` | 2 clients, 2 locks made, a wait of 1 interval |
| file cache | `UploadsAreSound` | 2 launchers |
| job output | `OutputIsWhole` | 2 tables, rows of 1 or 3 bytes, 3 rows, buffers of 3 |
| bus | `FramesAreTrue` | parts of up to 3, 3 to a packet for the encoder and 2 for the reader, messages of 12 |
| Skiff input | `SkiffRowsAreTrue` | 3 layouts, blobs of 2, rows of 8 |
| row upload | `BodyIsWhole` | chunks of 3, reads of up to 4 |
| dynamic tables | `TablesAreTrue` | 2 programs of 1 to 3 calls, 2 keys |
| job input | `RowsAreTrue`, `StopsAreReal`, `GroupsAreSegments`, `CallsReturn` | all streams of 2 records of 11 shapes and four of 6 or 7, buffer 2, limit 3 |
| YSON | `YsonIsRead` | 22 typed sources cut anywhere; all texts of up to 3 tokens alone, in a list, in a map or after attributes, and of up to 2 inside attributes; depth 3 |

Why the bounds are enough. One permit and one slot make every queue full and every
caller wait with two callers; the third call meets what an abandoned one left
behind (a removal still to run, a late answer, a cancellation in the queue). Two
attempts are one lost answer and one repetition, together with requests that arrive
in either order; the third attempt of `shared_in_a_client` outlives the cache, and
four in `http_command` take the backoff to its cap and past its shift.
Two hosts let a pool shrink, empty and fall back; two cells let a clone leave the
other behind. Two redirects are one that is followed and one that is refused for its
number. Two control commands are an abort and whatever races it, or a second abort that meets an
operation already let go. Two launchers are one that puts the worker into the cache and one that
finds it there or puts it again. Three parts in chunks of 1 to 3 give full, partial and single chunks.
Records of 1 to 4 bytes against a buffer of 2 and a limit of 3 fit,
fill the buffer exactly, make it grow to a size that is not a double, and are too large;
rows of 1 and 3 bytes fit, fill and bypass a buffer of 3. A packet with more parts than
the reader takes and one of just as many both occur, as do a null part and an empty one.
The attributed empty map is kept out of the sources of `client_procedures` because of
finding 5.

Deadlock checking is off except in `job_reader_text`: callers may stop calling, processes
and procedures end, and all counters are bounded, so the systems may come to rest.
A call that would be stuck is what `CallsReturn`, `CommandEnds` and `PollsEnd` look for.

Fairness. In `RpcConnection` ready tasks and timers run (tokio's scheduler), and
waiting for a permit or a slot is strongly fair, because tokio's semaphore and
channels are first come, first served. Nothing is assumed of the proxy or of
callers. In `Transaction` attempts end (each has a timeout), threads run, an
unpinged transaction expires; nothing is assumed of the network. In `HeavyRouting`
time passes, lookups end (`HOSTS_TIMEOUT`), commands end, and a client that keeps
sending gets the mutex; recovery starts from a cluster that has become healthy and
stays so, with `/hosts` listing every host. In `HttpCommand` the client's own steps are
taken and time passes; nothing is assumed of the peer. In `MCProcedures` a
polling thread goes on polling (its sleeps end, its requests have timeouts); nothing is
assumed of the cluster, so not that an operation ends either. A job's
reader runs on and its reads return; that a read succeeds is not assumed, nor that
it fails.

### Where the code differs from what it says

1. `connection_load`. `MAX_IN_FLIGHT` is said to bound the requests the proxy has
   accepted and not answered (connection.rs:33). The writer prefers cancellations,
   so the cancellation of a request still in the outbound queue goes out first and
   frees the permit; the request follows, and the proxy works on it for nobody.
2. `connection_close_stalled`. After the reader ends, waiters are said to be woken
   rather than parked for ever (connection.rs:480). A caller without a deadline
   waiting for a slot is released only by the writer's end, and the writer may be
   blocked on a peer that does not read. For the same reason a dropped connection's
   writer may stay (`EndsUnlessStalled` carries the condition).
3. `transaction_published`. A commit that returns an error is said to have
   published nothing (transaction.rs:217). If the commit was applied and its answers
   were lost, the error is returned for published work.
4. `job_reader_text`. Running out of bytes is said never to be an error of the scan
   (yson/src/scan.rs:46). The text lexer has no end-of-input case for `%true` and its
   kin or for a number, so a record cut there by a read (`%tr`, `-`, `1e`) is refused
   as malformed. Binary streams, which jobs normally use, are not affected.
5. `yson_roundtrip`. A `YsonValue` is said to round-trip (yson/src/node.rs:154). The
   deserializer reads the body of an attributed value as an entity when the map it
   drives ends at once (de.rs:630), so `<a=1>{}` comes back as `<a=1>#`.
6. `file_cache_found`. A launch is said to upload a worker or to find it on the cluster
   (lib.rs:1446), and the executable bit to be set on the cached node so that the job can
   exec it (tests/file_cache.rs:210), "in case the attribute did not survive the handover"
   (lib.rs:1495). That set is a request of its own: if the launcher dies before it, if the
   put is carried out without an answer, if it fails, or merely the removal of the staging node
   fails, it is not done, and everyone who finds the file later (lib.rs:1485) gets a worker that a
   node refuses to exec. `WorkerRuns` says that there is no other way. This takes a cluster
   that loses the attribute; the one of the end-to-end tests kept it
   (tests/cluster-e2e/README.md:278).

Met while modelling, without a run of their own:

- `run` is said to call `finish` (writer.rs:69 and 409). It does not (lib.rs:131 of
  `ytsaurus-job`; its own doc at 121 says that the job must): a job that returns Ok without it and
  whose last flush fails in `Drop` exits with zero and a short table. `OutputIsWhole` speaks of
  jobs that have called `finish`, and of the order of what arrives for the others.
- `suspend_operation` is sent in the class that is repeated freely (lib.rs). A first attempt
  that is late can take effect after a resume that succeeded.
- With a timeout of 3 s, two ping intervals and the ping's least budget of 1 s add up
  to the timeout: there is no room for a lost ping. `RoomForOneLoss` is the condition
  under which there is. `attach` leaves its own time out of account.
- `packet::encode` says any decoder of this crate accepts what it writes (packet.rs:212);
  the reader's bounds on parts and on message size are tighter than the encoder's.
- A job that goes on after a write failed may corrupt its stream: `current` is set
  before the switch is written (writer.rs), and the Skiff encoder writes tag and fields
  before it finds a mismatch. A Skiff reader that goes on after an error is likewise
  off the row boundary. The models stop at the first error, as jobs do with `?`.
- The redirect guard asks only whether TLS is built in, where the first address is
  also checked for certificates (`unusable`).
- "Nothing has been applied yet" (lib.rs, on an interrupted batch) is untrue when the
  first chunk was applied and its answer lost; `BatchIsSound` speaks of what is certain.
- A retried start is said to leave no orphan (transaction.rs:105). Five attempts of two
  minutes outlast the shorter end of the cluster's mutation cache of five to ten
  minutes; `OneTransactionPerStart` holds while the cache remembers.
- The body of an error answer to `open` is read without a bound on its length.
- A blocking RPC commit that timed out may be written by the next call's `block_on`;
  `TablesAreTrue` takes the timeout for "unknown".
- `WithAttributes` whose attributes serialize as an absent option writes `#` in their
  place and the value after it.
- The scanner accepts what the deserializer refuses (an empty item in a list or map,
  and nesting inside attributes, which the deserializer counts as a level more), against
  scan.rs:18; it refuses `<..><..>v`, which the codec writes for nested attributes.
- Plain maps with keys `@x` or `$value` do not round-trip: they are the flat form of attributes.
  A struct whose `$value` holds a map, or that has `$value` and no `@` field, is written
  in a form that cannot be read back.

## 4. Proofs

All proofs are checked by TLAPS for every value of the constants, from the named
assumptions of the modules (finitely many callers, positive capacities; rules that
map to sets of hosts, intervals of at least one tick, sentinels distinct; positive
times; programs whose rows use columns of the table; Skiff layouts that `TableLayout::from_schema`
accepts, and rows of their tables).

`RpcConnectionProofs`. None of the safety properties is inductive. `IInv` is the
types; **`PermitsConserved`**, `permits + holders + queued cancellations + the one in
the writer's hands = MaxInFlight`, from which `CancelHasRoom` follows, since a holder
leaves at most `MaxInFlight - 1` for the queue; and a **ledger** of request ids: a call that
ended is not under way (`CallsLedger`), every entry of the map has an owner and every
armed call an entry or an answer until the waiters close (`MapLedger`), what is cancelled was
abandoned and what was queued is sent once (`QueueLedger`), and `closed` is set before
anyone is told (`CloseLedger`). Theorems: `TypeCorrect`, `CancellationAlwaysFits`,
`MapDoesNotLeak`, `ClosingIsClean`, `CancelsAreOwed`, and `Refinement`: each step maps to
one of `RpcCalls` or a stutter.

`HeavyRoutingProofs`. `RulesAreKept` needs that clients sharing a cell have the same
rules (`SharersAgree`) and that a pool is within the rules of every client that sees it
(`PoolsAdmitted`), which needs new cells to be unasked (`FreshCells`).
`LookupsAreRateLimited` (`LookupsAreSpaced`, an action property) needs that what a cell
remembers never runs ahead of the time since its last lookup (`ClocksSound`): a pool that
loses a host keeps its clock, an emptied one starts a wait. Theorems: `RoutingTypeCorrect`,
`PickNeverPanics`, `DropsAreExact`, `RulesAreKept`, `LookupsAreRateLimited`.

`TransactionProofs`, for any number of processes, transactions and attempts. What a process
may conclude from an answer depends on requests that are still on their way and on what the
cluster remembers, so `IInv` relates the three: each step of a handle has its own command
under way, under its own mutation id (`PcMatchesCall`, `PcMatchesHistory`, `CallIsSound`);
what a commit returned and what the keep-alive reports is true (`OutcomeIsSound`); a request
on the network is one its process sent and no newer than its call (`RequestOK`); a remembered
answer is true of its transaction, and while the cache lasts what was done is remembered as
done (`ClusterOK`). Two theorems, `CommitsAnswerTruly` and
`StartsCreateOne`, have the hypothesis `CacheOutlastsRetries`
(`Attempts <= CacheLife`): a cluster that forgets a mutation id while its request is still
being repeated would carry it out again, and section 3 says when that happens.
`OkIsPublished` needs no such condition: what is lost with the cache is the truth of a
refusal, never that of a success. Theorems: `TransactionTypes`, `OkIsPublished`,
`CommitsAnswerTruly`, `StartsCreateOne`, `AttachersDoNotAbort`, `KeepAlivesAreTrue`.

`HttpCommandProofs`, for any sites, timeouts and numbers of attempts and redirects.
`NothingLeavesHome` holds because an attempt away from home has neither token nor body
(`HomeInv`). `CommandsTakeEffectOnce` and `OkIsDone` are about commands of the client's own table
(`Profiles = ClientProfiles`, which is what `MCHttpCommand` checks as well; for another table
they would be false): `DoneInv` says that a command sent once has at most one request or
effect (`SingleOK`), that a marked one is done once (`MarkedOK`), that a stream is
read once, in the only request of its only attempt (`BodyOK`), and that a success on its way back
is of a request that took effect (`AnswerOK`). That the answer is whole where it is the result is an
invariant of its own (`WholeInv`): what a buffered command or a lookup returns Ok for is
a body read to its end. `TimesHold` needs that the pauses so far are the
backoffs of the attempts so far (`WaitsOK`) and that every request of an
attempt is given up at the attempt's one deadline, whatever hop it is on (`ClockOK`). The prover knows no exponentiation, so this
theorem has the law of powers of two as hypothesis (`PowersDouble`,
`2^(n+1) = 2 * 2^n`), and everything else about the backoff follows from it.

`ProcedureProofs`, for any number of commands, launchers, clients, locks, parts and attempts, and for any
times:

- `OperationsAreTruthful`: how an operation ended does not change, and a terminal status that was
  read is that end, or the aborted state that a later abort made of it (`WaitInv`); where end and
  state differ an abort was accepted (`AbortInv`); a command sent once has a single request, so
  its refusal speaks of that one (`ControlInv`).
- `UploadsHold`: `FileInv` says where each launcher stands, which nodes are its own, and that every
  failure it has met is recorded (`LauncherOK`); and that a cached file without its mark was handed
  over without it by a launcher that has not set it since (`HandoverOK`).
- `LocksHold`: no lock is granted before one it conflicts with (`InOrder`), and the state a client
  has read of its lock stays true while its transaction lives (`ClientOK`).
- `BatchesAreSound`: a batch that must not be repeated has one request for each chunk, and
  nothing of the chunk is done while it is on its way (`SentOnce`); otherwise every mutation done is
  remembered under the id of its own chunk and place, and no two parts share an id
  (`IdsAreTrue`; with an id given by the caller this needs `OneRequest`). That chunks do not overlap
  (`ChunksAreApart`) and where their parts stand (`ChunkIs`) are lemmas about the arithmetic of the
  cuts; `NothingAhead` and `Progress` give what an interruption reports.
- `OneLossIsSurvived`: if
  `2 * Latency + 2 * PingInterval + PingRequestTimeout < Timeout` (`RoomForOneLoss`), a
  transaction whose pings are never lost twice in a row does not expire under its
  handle. The invariant bounds the age of the cluster's clock by what the thread may have
  waited for since the last ping that arrived (`ClockIsYoung`), which needs that thread and
  caller are never late (`ThreadOnTime`, `CallerOnTime`). The largest of those sums is the
  left side of the condition.

`JobReaderProofs`, for streams, buffers and record sizes of any length and every way in which reads
cut the stream. `ReaderInv` says where the reader is: for some `n` it **stands before the n-th
record** (`ReaderAt(n)`), at its first byte or at the separator before it; the buffer holds the stretch of
the stream that was read last, without a gap (`Window`); what is lined up is that record, whole
(`LinedUp`); all rows and switches before it are consumed (`Consumed`), and the three numbers are
those of the whole stream at that place (`IndicesTrue`). Lemmas give what `skip_separators` finds
there (`StartIs`, from the order of records, which follows from the least counterexample) and how the
true numbers change from one record to the next (`NumberStep`, `RowNumberStep`, `RunStep`); then a
step either stays before the n-th record or goes to the next. `RowsComeOutTrue` and
`EndsAndSizesAreTrue` have no hypothesis. `StopsHold` and `GroupsHold` are about streams in which no
cut record looks malformed (`BinaryStreams`, the binary format; finding 4 is what happens in text).
`GroupsHold` adds `GroupsFit(n)`: there are as many groups as runs (`Counted`) unless a `next_group` failed
or nothing more can come (`Stuck`, which a refused record is for good), and the living group took
its key at the head of the run in which the reader is (`LiveGroup`).

`StreamProofs`, for the four parts that turn a sequence of things into a stream and back. They
need to know what a flattened sequence or a recursive function is at every place, which is
induction; the library's induction theorems cannot be used, so each such lemma shows that the
set of numbers at which it holds contains 0 and, with a number, the next, and `Inductive` (proved
from the least counterexample) makes that all of them. Three parts have the same argument: **what has
gone out, what is held back and what is still to come are together the whole**, in this order.

- `BodiesAreWhole` (`UploadInv`): the bytes read, the rest of the chunk and the rows not yet
  encoded are the body; a transport that has been told the end has had all of it.
- `FramesStayTrue` (`BusInv`): what the reader has handed on, the words it still holds and those
  that are to arrive are the packets that were sent, up to the place where the peer closed or a
  word was flawed. The reader stands before a packet, so what it takes for a header is one, and
  it refuses it for the reason it names.
- `OutputStaysWhole` (`WriterInv`): for each table, the rows the cluster reads from the bytes at
  the descriptor (`Obeyed`, which follows the switches) are a prefix of those written, and
  what was given to the writer is the rows `Settled` at the descriptor and those `Due` from its buffers;
  only a failure that was reported, or a `finish` not called, leaves any behind.

`TablesStayTrue` (`TabletInv`) is about requests that outlive their callers. A transaction has one
commit token, which is with the program, in its commit request, in the history, or spent
(`TokensSound`): so it commits once. A modification is in one place only, and before the commit
of its transaction (`WrittenOnce`). What is on the wire is what a call asked for (`RequestsSound`), an
answer is true of what the cluster did and stays so (`AnswersSound`): a refusal speaks of a
transaction that can never commit (`IsDead`), and later commits do not change a table at an earlier
timestamp. Rows arrive as they were given because a name keeps its place in the table
that `column_names` builds (`GivenArrives`), and read back as the rows of their keys (`AnswersAreRead`).

`SkiffProofs`, for any layouts, rows and limits, wherever the stream is cut or a read fails.
`SkiffRowsStayTrue` (`SkiffIInv`): until it stops, the reader stands where the row it returned last
ends (`RowEnd`), everything it has returned is the row that was sent (`OutTrue`), and of each table it
knows the numbers of the last row (`Knows`), which is what makes the numbers that are not sent
come out right (`KnowsNext`). A stop carries the reason it names (`StopTrue`). The step is a chain of
lemmas from the stream to the row: where in the stream each column stands (`ColumnBytesAre`,
`ColumnsPlaced`); that a cursor there takes the column whole, at its cost, or stops for a reason
(`ColumnIsRead`, with `ItemsAreRead` for the loop of a repeated variant); that the columns
together are the row and its `Footprint` (`RowIsRead`); that a stream which ends before a row is
the one that ends between two (`NoRowIsRead`, `RowsArrivedAre`). That `skip_row` takes what
`next_row` takes does not depend on what the stream holds: two cursors that agree in place, budget and
reason (`Alike`) still agree after one has decoded a column and the other has skipped it, up to the
whole row (`AlikeRows`).

Each invariant was checked with TLC on the instance of its run before it was proved, except those of
`StreamProofs` and `SkiffProofs`, whose parts quantify over all sequences: of these, the properties
themselves were checked, and of `TabletInv` the parts that TLC can enumerate.

Only model-checked: all liveness (fairness and `ENABLED` are beyond the prover), and `YsonIsRead`,
since the operators of `Yson` are RECURSIVE: its proof would be an induction over nested values, which
the induction on numbers used above does not give. All other invariants that the runs check have a theorem.

## 5. Not modelled, and the plan

Left out, and why:

- **Data without control.** The building of operation specs (`spec.rs`), paths
  (`path.rs`), schemas, the RPC row format (`rpc/wire.rs`) and message headers, the spelling of
  tokens and scalars in YSON and Skiff, error texts. They format or parse values
  in a single pass and keep no state; a model would be their transliteration, and unit
  tests over their inputs say more. Of YSON also struct variants and the struct shapes
  that cannot be read back (section 3).
- **Code that is not the program's own logic.** Derive macros, generated protobuf code,
  logging and tracing, worker bootstrap, benchmarks, examples, `xtask`.
- **What is below the code.** Sockets, TLS, HTTP framing, the allocator.

About half of the repository's lines of Rust are tests, examples and generated
code; of the other half, which includes its many comments, the map covers a third. Most of what remains
is the first item of this list and the pass-through methods of the client.

What is worth doing next, in this order:

1. Check varints, the RPC row format and paths against reference definitions over
   bounded inputs.
2. Rewrite the accesses of `Yson` as functions on depth, and prove `YsonIsRead`
   for flat values first.
