------------------------------ MODULE JobWriter ------------------------------
(***************************************************************************)
(* A job's output tables: JobWriter of crates/ytsaurus-job/src/writer.rs,  *)
(* SkiffJobWriter of skiff_writer.rs, WorkerWriter of worker.rs, which     *)
(* forwards to either, and the end of a job in crate::run.                 *)
(*                                                                         *)
(* Rows go to one descriptor per table, or all to one with a record that   *)
(* switches the table, or as Skiff, field by field.  Between the writer    *)
(* and a descriptor is a std BufWriter, which is external: it holds bytes  *)
(* back, and a descriptor that fails takes a prefix of them.  A job stops  *)
(* at the first write that fails.                                          *)
(***************************************************************************)
EXTENDS Integers, Sequences, SequencesExt

CONSTANTS
  OutTables,     \* logical_tables
  SinkCapacity,  \* TABLE_BUFFER_BYTES
  RowSizes,      \* lengths of an encoded row
  MaxRows        \* bound: rows in a behaviour

ASSUME WriterAssumption ==
  OutTables \in Nat \ {0} /\ SinkCapacity \in Nat \ {0} /\ MaxRows \in Nat
    /\ RowSizes \subseteq Nat \ {0}

VARIABLES
  mode,         \* "descriptors", "switches" or "skiff"
  current,      \* Routing::TableSwitches: the table in force
  held,         \* each sink's BufWriter: bytes held back
  landed,       \* each sink's descriptor: bytes it has taken
  finished,
  jobAt,        \* "body", "write", "flush", "finish", "drop", "close" or "exit"
  sinkAt,       \* the sink under way
  todo,         \* what write_all is still to be called with
  jobRows,      \* history: the rows the writer took, as [table, size]
  exitCode      \* what the job's result amounts to

sinkVars   == <<held, landed>>
writerVars == <<mode, current, sinkVars, finished, jobAt, sinkAt, todo, jobRows, exitCode>>

Tables == 0..OutTables - 1
Sinks  == IF mode = "switches" THEN {0} ELSE Tables

WriterInit ==
  /\ mode \in {"descriptors", "switches", "skiff"}
  /\ current = 0
  /\ held = [s \in Tables |-> <<>>] /\ landed = [s \in Tables |-> <<>>]
  /\ finished = FALSE
  /\ jobAt = "body" /\ sinkAt = 0 /\ todo = <<>>
  /\ jobRows = <<>> /\ exitCode = 0

\* The job's body returns an error, or ends; its writer is dropped.
JobReturns(code) == jobAt' = "drop" /\ sinkAt' = 0 /\ todo' = <<>> /\ exitCode' = code

-----------------------------------------------------------------------------
(***************************************************************************)
(* A row.                                                                  *)
(***************************************************************************)
\* Bytes: pieces of row n, the ";" after it or the tag before it, a switch.
RowBytes(n, size) == [k \in 1..size |-> <<"row", n, k>>]
Delimiter(n)      == <<<<"mark", n, 0>>>>
SwitchTo(t)       == <<<<"switch", t, 0>>>>

\* The arguments of the calls of write_all that make up row n: write_bytes
\* writes the switch, the row and its separator, the Skiff encoder the tag and
\* one field after the other.
RowChunks(n, t, size) ==
  IF mode = "skiff"
  THEN <<Delimiter(n)>> \o [k \in 1..size |-> <<RowBytes(n, size)[k]>>]
  ELSE (IF mode = "switches" /\ t # current THEN <<SwitchTo(t)>> ELSE <<>>)
         \o <<RowBytes(n, size), Delimiter(n)>>

\* Mutant: a writer that is finished still takes rows.
AdmitsAlways(t) == t \in Tables

\* check_table.
Admits(t) == ~finished /\ t \in Tables

WriteRow(t, size) ==
  /\ jobAt = "body" /\ Len(jobRows) < MaxRows
  /\ Admits(t)
  /\ jobRows' = Append(jobRows, [table |-> t, size |-> size])
  /\ todo' = RowChunks(Len(jobRows) + 1, t, size)
  /\ current' = IF mode = "switches" THEN t ELSE current
  /\ sinkAt' = IF mode = "switches" THEN 0 ELSE t
  /\ jobAt' = "write"
  /\ UNCHANGED <<mode, sinkVars, finished, exitCode>>

\* UnknownTable, WriteAfterFinish, and a row that YSON cannot encode, which is
\* found out before a byte is written.  A job that shrugs it off changes nothing.
RowRefused ==
  /\ jobAt = "body"
  /\ JobReturns(1)
  /\ UNCHANGED <<mode, current, sinkVars, finished, jobRows>>

\* Skiff finds a value that does not fit its schema when it comes to it.
ValueRefused ==
  /\ jobAt = "write" /\ mode = "skiff"
  /\ todo # <<>> /\ Head(todo) # Delimiter(Len(jobRows))
  /\ JobReturns(1)
  /\ UNCHANGED <<mode, current, sinkVars, finished, jobRows>>

RowWritten ==
  /\ jobAt = "write" /\ todo = <<>>
  /\ jobAt' = "body"
  /\ UNCHANGED <<mode, current, sinkVars, finished, sinkAt, todo, jobRows, exitCode>>

-----------------------------------------------------------------------------
(***************************************************************************)
(* BufWriter, for the sink under way.                                      *)
(***************************************************************************)
\* The descriptor takes `bytes`, of which `keep` stay with the BufWriter.
Takes(bytes, keep) ==
  /\ landed' = [landed EXCEPT ![sinkAt] = @ \o bytes]
  /\ held' = [held EXCEPT ![sinkAt] = keep]

\* The descriptor fails after a proper prefix of what is held.
FailsHolding(bytes) ==
  \E k \in 0..Len(bytes) - 1 : Takes(SubSeq(bytes, 1, k), SubSeq(bytes, k + 1, Len(bytes)))

\* write_all: a chunk that fits is held, otherwise what is held goes out first;
\* one as large as the buffer is not held at all.
WriteAll ==
  /\ jobAt = "write" /\ todo # <<>>
  /\ LET chunk == Head(todo)
         old   == held[sinkAt]
         fits  == Len(chunk) <= SinkCapacity - Len(old)
         large == Len(chunk) >= SinkCapacity
     IN \/ /\ CASE fits /\ ~large  -> Takes(<<>>, old \o chunk)
                [] ~fits /\ ~large -> Takes(old, chunk)
                [] OTHER           -> Takes(old \o chunk, <<>>)
           /\ todo' = Tail(todo)
           /\ UNCHANGED <<jobAt, sinkAt, exitCode>>
        \/ ~fits /\ FailsHolding(old) /\ JobReturns(1)
        \/ large /\ (\E k \in 0..Len(chunk) - 1 : Takes(old \o SubSeq(chunk, 1, k), <<>>)) /\ JobReturns(1)
  /\ UNCHANGED <<mode, current, finished, jobRows>>

-----------------------------------------------------------------------------
(***************************************************************************)
(* flush, finish, Drop and the end of the job.                             *)
(***************************************************************************)
\* The job calls flush, or finish, which flushes too.
CallFlush ==
  /\ jobAt = "body"
  /\ jobAt' \in {"flush", "finish"} /\ sinkAt' = 0
  /\ UNCHANGED <<mode, current, sinkVars, finished, todo, jobRows, exitCode>>

\* One table after the other, up to the first that fails.
FlushTable ==
  /\ jobAt \in {"flush", "finish"} /\ sinkAt \in Sinks
  /\ \/ Takes(held[sinkAt], <<>>) /\ sinkAt' = sinkAt + 1 /\ UNCHANGED <<jobAt, todo, exitCode>>
     \/ FailsHolding(held[sinkAt]) /\ JobReturns(1)
  /\ UNCHANGED <<mode, current, finished, jobRows>>

Flushed ==
  /\ jobAt \in {"flush", "finish"} /\ sinkAt \notin Sinks
  /\ finished' = (finished \/ jobAt = "finish")
  /\ jobAt' = "body"
  /\ UNCHANGED <<mode, current, sinkVars, sinkAt, todo, jobRows, exitCode>>

\* The body ends well, having called finish or forgotten to.
BodyEnds ==
  /\ jobAt = "body"
  /\ JobReturns(0)
  /\ UNCHANGED <<mode, current, sinkVars, finished, jobRows>>

\* Drop flushes unless finished, stops at the first failure and only says so.
DropFlushes ==
  /\ jobAt = "drop" /\ ~finished /\ sinkAt \in Sinks
  /\ \/ Takes(held[sinkAt], <<>>) /\ sinkAt' = sinkAt + 1 /\ UNCHANGED jobAt
     \/ FailsHolding(held[sinkAt]) /\ jobAt' = "close" /\ sinkAt' = 0
  /\ UNCHANGED <<mode, current, finished, todo, jobRows, exitCode>>

Dropped ==
  /\ jobAt = "drop" /\ (finished \/ sinkAt \notin Sinks)
  /\ jobAt' = "close" /\ sinkAt' = 0
  /\ UNCHANGED <<mode, current, sinkVars, finished, todo, jobRows, exitCode>>

\* Each BufWriter goes, trying once more and telling nobody.
SinkDropped ==
  /\ jobAt = "close" /\ sinkAt \in Sinks
  /\ Takes(held[sinkAt], <<>>) \/ FailsHolding(held[sinkAt])
  /\ sinkAt' = sinkAt + 1
  /\ UNCHANGED <<mode, current, finished, jobAt, todo, jobRows, exitCode>>

JobExits ==
  /\ jobAt = "close" /\ sinkAt \notin Sinks
  /\ jobAt' = "exit"
  /\ UNCHANGED <<mode, current, sinkVars, finished, sinkAt, todo, jobRows, exitCode>>

WriterNext ==
  \/ \E t \in Tables, size \in RowSizes : WriteRow(t, size)
  \/ RowRefused \/ ValueRefused \/ WriteAll \/ RowWritten
  \/ CallFlush \/ FlushTable \/ Flushed
  \/ BodyEnds \/ DropFlushes \/ Dropped \/ SinkDropped \/ JobExits

WriterSpec == WriterInit /\ [][WriterNext]_writerVars

-----------------------------------------------------------------------------
\* What the cluster reads: the bytes of each table, switches obeyed and removed.
Obey(read, byte) ==
  IF byte[1] = "switch" THEN [read EXCEPT !.at = byte[2]]
  ELSE [read EXCEPT !.out[read.at] = Append(@, byte)]
Obeyed(bytes) ==
  LET read[i \in 0..Len(bytes)] ==
        IF i = 0 THEN [at |-> 0, out |-> [t \in Tables |-> <<>>]] ELSE Obey(read[i - 1], bytes[i])
  IN  read[Len(bytes)]
Arrived(t) == IF mode = "switches" THEN Obeyed(landed[0]).out[t] ELSE landed[t]

\* What the job wrote to it.
RowWhole(n) ==
  IF mode = "skiff" THEN Delimiter(n) \o RowBytes(n, jobRows[n].size)
  ELSE RowBytes(n, jobRows[n].size) \o Delimiter(n)
Owed(t) == FlattenSeq([n \in DOMAIN jobRows |-> IF jobRows[n].table = t THEN RowWhole(n) ELSE <<>>])

\* "a job that exits zero with a short table is far worse than one that fails
\* loudly": however the buffers filled and whichever descriptor failed, a table
\* holds the rows written to it, in order, cut short at most, and whole when the
\* job has called finish and exits with zero.
OutputIsWhole ==
  /\ \A t \in Tables : IsPrefix(Arrived(t), Owed(t))
  /\ jobAt = "exit" /\ exitCode = 0 /\ finished => \A t \in Tables : Arrived(t) = Owed(t)
=============================================================================
