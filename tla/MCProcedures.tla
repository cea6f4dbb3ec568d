---------------------------- MODULE MCProcedures ----------------------------
(* The procedures that share no state, for TLC: a behaviour follows one of *)
(* them, chosen at the start, while the others rest.                       *)
EXTENDS Operations, CypressLocks, FileCache, JobWriter, Bus, SkiffReader, RowUpload,
        TabletClient, MCJobReader, MCYson

CONSTANTS l1, l2, a1, a2

VARIABLE part

Resting(p) ==
  /\ p # "operation" => opSuspended = FALSE /\ OperationInit
  /\ p # "locks" => tx = [c \in Lockers |-> "none"] /\ LocksInit
  /\ p # "files" => FilesInit
  /\ p # "writer" => mode = "descriptors" /\ WriterInit
  /\ p # "bus" =>
       /\ script = <<>> /\ stream = <<>> /\ flaw = 0 /\ arrived = 0 /\ consumed = 0
       /\ peerClosed = FALSE /\ got = <<>> /\ busPhase = "over" /\ busError = "none"
  /\ p # "skiff" =>
       /\ skiffRows = <<>> /\ skiffInput = <<>> /\ skiffBad = 0 /\ skiffPos = 0
       /\ controlState = <<>> /\ skiffOut = <<>> /\ skiffStop = "none"
  /\ p # "upload" => source = <<Ends>> /\ UploadInit
  /\ p # "tables" => program = [a \in Apps |-> <<>>] /\ TabletInit
  /\ p # "job" => input = <<>> /\ limit = 0 /\ reading = "events" /\ Init
  /\ p # "yson" =>
       /\ ysonSource = 0 /\ ysonInput = <<>> /\ ysonAt = 0 /\ ysonFirst = TRUE
       /\ ysonItems = <<>> /\ ysonStop = "none"

Only(p) ==
  /\ part = p
  /\ UNCHANGED part
  /\ p # "operation" => UNCHANGED operationVars
  /\ p # "locks" => UNCHANGED lockVars
  /\ p # "files" => UNCHANGED fileVars
  /\ p # "writer" => UNCHANGED writerVars
  /\ p # "bus" => UNCHANGED busVars
  /\ p # "skiff" => UNCHANGED skiffVars
  /\ p # "upload" => UNCHANGED uploadVars
  /\ p # "tables" => UNCHANGED tabletVars
  /\ p # "job" => UNCHANGED vars
  /\ p # "yson" => UNCHANGED ysonVars

MCInit ==
  \/ part = "operation" /\ OperationInit /\ Resting("operation")
  \/ part = "locks" /\ LocksInit /\ Resting("locks")
  \/ part = "files" /\ FilesInit /\ Resting("files")
  \/ part = "writer" /\ WriterInit /\ Resting("writer")
  \/ part = "bus" /\ BusInit /\ Resting("bus")
  \/ part = "skiff" /\ SkiffInit /\ Resting("skiff")
  \/ part = "upload" /\ UploadInit /\ Resting("upload")
  \/ part = "tables" /\ TabletInit /\ Resting("tables")
  \/ part = "job" /\ Init /\ Resting("job")
  \/ part = "yson" /\ YsonInit /\ Resting("yson")

MCNext ==
  \/ Only("operation") /\ OperationNext
  \/ Only("locks") /\ LocksNext
  \/ Only("files") /\ FilesNext
  \/ Only("writer") /\ WriterNext
  \/ Only("bus") /\ BusNext
  \/ Only("skiff") /\ SkiffNext
  \/ Only("upload") /\ UploadNext
  \/ Only("tables") /\ TabletNext
  \/ Only("job") /\ Next
  \/ Only("yson") /\ YsonNext

MCVars == <<part, operationVars, lockVars, fileVars, writerVars, busVars, skiffVars,
            uploadVars, tabletVars, vars, ysonVars>>

\* The threads that poll are scheduled and a job's reads return; nothing is assumed
\* of the cluster.
MCSpec ==
  /\ MCInit /\ [][MCNext]_MCVars
  /\ WF_operationVars(part = "operation" /\ WaitSteps)
  /\ \A c \in Lockers : WF_lockVars(part = "locks" /\ LockSteps(c))
  /\ WF_vars(part = "job" /\ ReaderStep)

\* The loops that poll end: whoever waits for an operation learns that it has ended,
\* and whoever waits for a lock stops, also when its own transaction is in the way
\* (wait_for_operation, lock_waiting).
PollsEnd ==
  \A c \in Lockers :
    (opState \in Terminal \/ lockPhase[c] = "poll") ~> (waitPhase = "done" \/ lockPhase[c] = "done")

\* A handshake of every kind, and after a good one up to two packets: an empty
\* message, acknowledgements with and without parts, parts that are absent, empty
\* or of the largest size, a part that is too large to write, too many parts to
\* write and to read, and a packet that is too long to read.
Hello == Packet("message", "handshake", <<1>>, "handshake")
Of(type, parts) == Packet(type, "call", parts, "data")
Packets == {Of("message", <<>>), Of("ack", <<>>), Of("ack", <<2>>), Of("message", <<Null, 0>>),
            Of("message", <<3, 1>>), Of("message", <<6>>), Of("message", <<1, 1, 1>>),
            Of("message", <<0, 0, 0, 0>>), Of("message", <<3, 3>>)}
MCScripts ==
  {<<Hello, p>> : p \in Packets}
    \cup {<<Hello, p, q>> : p \in {Of("ack", <<>>), Of("message", <<Null, 0>>), Of("message", <<6>>)},
                           q \in {Of("message", <<>>), Of("ack", <<2>>)}}
    \cup {<<Packet(type, id, parts, body)>> :
             type \in {"message", "ack"}, id \in {"handshake", "call"},
             parts \in {<<Null>>, <<1>>, <<1, 1>>}, body \in {"handshake", "data"}}

\* A table with every system column, one with none and one whose keys alone are
\* told; rows that continue their table, jump, or change range, and data that is
\* empty, within its limit, over the blob's and over the row's.
MCLayouts == <<<<"key", "row", "range", "blob">>, <<"items">>, <<"key", "blob">>>>
Row(t, i, g, k, d) == [table |-> t, row |-> i, range |-> g, key |-> k, data |-> d]
MCStreams ==
  LET First == {Row(t, 4, 0, TRUE, d) : t \in 0..2, d \in {0, 1, 3}} \cup {Row(0, 0, 1, FALSE, 2)}
      Then  == {Row(t, i, g, FALSE, 1) : t \in 0..1, i \in {1, 5}, g \in 0..1}
  IN  {<<r, q>> : r \in First, q \in Then}
        \cup {<<r, q, Row(0, 6, 0, TRUE, 0)>> : r \in {f \in First : f.data = 1}, q \in Then}

\* Rows of one and three bytes, or refused, and iterators that yield after their end.
MCSources ==
  LET R == {1, 3, Unwritable}
  IN  {<<Ends>>} \cup {<<r, q, Ends, 1, Ends>> : r \in R, q \in R}
        \cup {<<r, 1, q, Ends, 1, Ends>> : r \in R, q \in R}

\* One program writes; the other writes in a transaction, reads in one twice,
\* reads outside, or gives its transaction up.
Insert == [delete |-> FALSE, rows |-> <<<<<<"k", 1>>, <<"a", 5>>>>, <<<<"b", 6>>, <<"k", 2>>>>>>]
Delete == [delete |-> TRUE, rows |-> <<<<<<"k", 2>>>>>>]
ApiCall(api, mod, keys) == [api |-> api, mod |-> mod, keys |-> keys]
Do(api)      == ApiCall(api, NoRow, <<>>)
Alone(mod)   == ApiCall("alone", mod, <<>>)
InTx(mod)    == ApiCall("modify", mod, <<>>)
Reads(keys)  == ApiCall("read", NoRow, keys)
LooksUp(keys) == ApiCall("lookup", NoRow, keys)
Together(p, q) == [a \in {a1, a2} |-> IF a = a1 THEN p ELSE q]
MCPrograms ==
  {Together(<<Alone(Insert)>>, q) :
     q \in {<<Do("start"), InTx(Delete), Do("commit")>>,
            <<Do("start"), Reads(<<2, 1>>), Reads(<<1>>)>>,
            <<LooksUp(<<1, 2>>), Do("start"), Do("drop")>>,
            <<Do("start"), Do("ping"), Do("abort")>>}}
    \cup {Together(<<Alone(Insert), Alone(Delete)>>, <<>>), Together(<<>>, <<>>)}
MCReplyNames == <<"b", "k", "a">>
=============================================================================
