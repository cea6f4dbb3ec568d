---------------------------- MODULE ClientCommands ----------------------------
(***************************************************************************)
(* The commands of the HTTP client: what each method of Client sends, taken *)
(* from crates/ytsaurus-client/src/lib.rs, dynamic.rs and transaction.rs.  *)
(* One operator per method that sends a request of its own; the methods    *)
(* that only choose its arguments share it.                                *)
(*                                                                         *)
(*   form        which half of Transport carries it: "send" reads the      *)
(*               answer into memory, "open" hands the body back unread,    *)
(*               "upload" reads the request body as it goes, "fetch" is    *)
(*               the /hosts lookup                                         *)
(*   repeatable  its class in retry.rs                                     *)
(*   body        "none", "bytes" held in memory, or a "stream"             *)
(*                                                                         *)
(* What a command does to the cluster is the cluster's business: Effect.   *)
(***************************************************************************)
Command(name, form, repeatable, body) ==
  [name |-> name, form |-> form, repeatable |-> repeatable, body |-> body]
Read(name)        == Command(name, "send", "Freely", "none")
Mutation(name)    == Command(name, "send", "WithMutationId", "none")

\* Cypress
Exists            == Read("exists")
Create            == Mutation("create")
CreateTable       == Mutation("create")
AlterTable        == Mutation("alter_table")
RemoveWith        == Mutation("remove")
List              == Read("list")
Transfer(command) == Mutation(command)
LinkInner         == Mutation("link")
LockInner         == Mutation("lock")
Get               == Read("get")
GetAs             == Read("get")

\* Mutant: an attribute is written like a read, with no id to repeat it under.
SetAttributeFreely == Command("set", "send", "Freely", "bytes")
SetAttribute      == Command("set", "send", "WithMutationId", "bytes")

\* Files, tables and rows: heavy, sent once
FileFromCache     == Read("get_file_from_cache")
PutFileToCache    == Mutation("put_file_to_cache")
WriteFileInner    == Command("write_file", "send", "Heavy", "bytes")
ReadFile          == Command("read_file", "send", "Heavy", "none")
ReadFileStreaming == Command("read_file", "open", "Heavy", "none")
WriteYsonTable    == Command("write_table", "send", "Heavy", "bytes")
WriteSkiffTable   == Command("write_table", "send", "Heavy", "bytes")
ReadYsonTable     == Command("read_table", "send", "Heavy", "none")
ReadSkiffTable    == Command("read_table", "send", "Heavy", "none")
WriteTableRows    == Command("write_table", "upload", "Heavy", "stream")
WriteTableStreaming == Command("write_table", "upload", "Heavy", "stream")
ReadTableStreaming == Command("read_table", "open", "Heavy", "none")
LookupRows        == Command("lookup_rows", "send", "Heavy", "bytes")
SelectRows        == Command("select_rows", "send", "Heavy", "none")
ModifyRows(command) == Command(command, "send", "Heavy", "bytes")

\* Operations and jobs
StartOperation    == Mutation("start_operation")
\* Mutant: an abort is repeated like a read.
AbortOperationRepeated == Read("abort_operation")
AbortOperation    == Command("abort_operation", "send", "Never", "none")
SuspendOperation  == Read("suspend_operation")
ResumeOperation   == Command("resume_operation", "send", "Never", "none")
CompleteOperation == Command("complete_operation", "send", "Never", "none")
UpdateOperationParameters == Read("update_operation_parameters")
ListOperations    == Read("list_operations")
ListOperationEvents == Read("list_operation_events")
GetOperationBody  == Read("get_operation")
ListJobs          == Read("list_jobs")
GetJob            == Read("get_job")
GetJobInput       == Command("get_job_input", "open", "Heavy", "none")
GetJobStderr      == Command("get_job_stderr", "send", "Heavy", "none")

\* Transactions
StartTransaction  == Mutation("start_transaction")
PingTransaction   == Read("ping_transaction")
CommitTransaction == Mutation("commit_transaction")
AbortTransaction  == Read("abort_transaction")

\* Commands this crate does not model are sent once unless the caller says more.
RawCommand(body)  == Command("raw", "send", "Never", body)
RawCommandStreaming == Command("raw", "open", "Heavy", "none")
RawCommandUpload  == Command("raw", "upload", "Heavy", "stream")

\* The /hosts lookup of Client::heavy_proxy and of automatic routing.
HeavyHosts        == Command("/hosts", "fetch", "Freely", "none")

Commands ==
  {Exists, Create, CreateTable, AlterTable, RemoveWith, List, Transfer("copy"),
   Transfer("move"), LinkInner, LockInner, Get, GetAs, SetAttribute, FileFromCache,
   PutFileToCache, WriteFileInner, ReadFile, ReadFileStreaming, WriteYsonTable,
   WriteSkiffTable, ReadYsonTable, ReadSkiffTable, WriteTableRows, WriteTableStreaming,
   ReadTableStreaming, LookupRows, SelectRows, ModifyRows("insert_rows"),
   ModifyRows("delete_rows"), StartOperation, AbortOperation, SuspendOperation,
   ResumeOperation, CompleteOperation, UpdateOperationParameters, ListOperations,
   ListOperationEvents, GetOperationBody, ListJobs, GetJob, GetJobInput, GetJobStderr,
   StartTransaction, PingTransaction, CommitTransaction, AbortTransaction,
   RawCommand("none"), RawCommand("bytes"), RawCommandStreaming, RawCommandUpload, HeavyHosts}

-----------------------------------------------------------------------------
\* What the cluster does with a command: "none" when it only reads, "settled"
\* when doing it again changes nothing (a second suspend is accepted, an abort
\* of a transaction already gone answers {}), "once" when it must not be done
\* twice.
Effect(name) ==
  CASE name \in {"exists", "list", "get", "get_file_from_cache", "read_file", "read_table",
                 "lookup_rows", "select_rows", "list_operations", "list_operation_events",
                 "get_operation", "list_jobs", "get_job", "get_job_input", "get_job_stderr",
                 "/hosts"} -> "none"
    [] name \in {"suspend_operation", "update_operation_parameters", "ping_transaction",
                 "abort_transaction"} -> "settled"
    [] OTHER -> "once"

\* What the transport can tell apart of a command.
Profile(c) == [form |-> c.form, repeatable |-> c.repeatable, body |-> c.body,
               effect |-> Effect(c.name)]
=============================================================================
