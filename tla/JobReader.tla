------------------------------ MODULE JobReader ------------------------------
(***************************************************************************)
(* A job's input stream: JobReader, Groups and Group of                    *)
(* crates/ytsaurus-job/src/reader.rs.                                      *)
(*                                                                         *)
(* The stream is a sequence of records with a separator after each: rows,  *)
(* key switches and other control records.  The reader holds a window of   *)
(* it in a buffer that it compacts, grows and fills by reads that return   *)
(* as many bytes as they like; it routes control records itself and hands  *)
(* out rows and key switches, or the groups between switches.              *)
(*                                                                         *)
(* A byte is its offset in the stream, so that what is in the buffer can   *)
(* be told from what should be.  scan_value is reduced to whether the      *)
(* bytes at hand hold the whole record; decoding to the record's kind.     *)
(* A record is malformed from its first byte on.  A job reads in one of    *)
(* three ways throughout: next_event, groups or groups_by.                 *)
(***************************************************************************)
EXTENDS Integers, Sequences, FiniteSets

CONSTANTS
  Inputs,       \* the streams to read
  BufferBytes,  \* the buffer's first size (with_buffer_size), 64 at least
  MaxRecord,    \* max_record_bytes
  None

Kinds == {"row", "list", "switch", "table", "rowIndex", "rangeIndex", "skip",
          "badControl", "malformed"}
\* torn: the lengths at which a cut record is an error rather than incomplete,
\* none in the binary format.  The text lexer has no end-of-input case for a
\* number or a %-literal.
Records == [kind : Kinds, n : Nat, at : Nat, len : Nat \ {0}, torn : SUBSET Nat]

\* Records lie one after the other with one separator between two of them.
ASSUME InputsAssumption ==
  \A s \in Inputs :
    /\ s \in Seq(Records)
    /\ \A i \in DOMAIN s :
         s[i].at = IF i = 1 THEN 0 ELSE s[i - 1].at + s[i - 1].len + 1
ASSUME SizesAssumption == BufferBytes \in Nat \ {0} /\ MaxRecord \in Nat /\ None \notin Nat

VARIABLES
  \* The stream, external
  input,       \* its records
  limit,       \* the offset at which it ends, in the middle of a record or not
  bytesTaken,  \* bytes read so far
  \* JobReader
  buf,         \* buf[..filled]
  capacity,    \* buf.len()
  pos,
  base,        \* base_offset
  inputDone,
  pending,
  tableIndex, rowIndex, rangeIndex,
  \* Groups and Group
  reading,     \* how the job reads: "events", "groups" or "groupsBy"
  inGroup,
  group,       \* the Group handed out last, None when there is none
  \* The call under way
  pc,
  result,      \* what the last call returned
  \* History
  passed,      \* the row or switch consumed last, by its place in the stream
  made,        \* groups handed out
  lapsed       \* some next_group failed on a read or on a key

streamVars == <<input, limit, bytesTaken>>
bufferVars == <<buf, capacity, pos, base, inputDone>>
indexVars  == <<tableIndex, rowIndex, rangeIndex>>
groupVars  == <<reading, inGroup, group, made, lapsed>>
vars == <<streamVars, bufferVars, pending, indexVars, groupVars, pc, result, passed>>

Rows == {"row", "list"}
Data == Rows \cup {"switch"}

StreamEnd(s) == IF s = <<>> THEN 0 ELSE s[Len(s)].at + s[Len(s)].len + 1

Init ==
  /\ input \in Inputs
  /\ limit \in 0..StreamEnd(input)
  /\ bytesTaken = 0
  /\ buf = <<>> /\ capacity = BufferBytes /\ pos = 0 /\ base = 0
  /\ inputDone = FALSE
  /\ pending = None
  /\ tableIndex = 0 /\ rowIndex = None /\ rangeIndex = None
  /\ reading \in {"events", "groups", "groupsBy"} /\ inGroup = FALSE /\ group = None
  /\ pc = "idle" /\ result = [is |-> "none"]
  /\ passed = 0 /\ made = 0 /\ lapsed = FALSE

-----------------------------------------------------------------------------
(***************************************************************************)
(* next_record_len: the record at the front of the buffer.                 *)
(***************************************************************************)
RecordAt(byte) == {i \in DOMAIN input : input[i].at <= byte
                                          /\ byte < input[i].at + input[i].len}

\* skip_separators
Start == CHOOSE q \in pos..Len(buf) :
           /\ \A p \in pos + 1..q : RecordAt(buf[p]) = {}
           /\ q < Len(buf) => RecordAt(buf[q + 1]) # {}

RecordPlace  == CHOOSE i \in RecordAt(buf[Start + 1]) : TRUE
Record == input[RecordPlace]

\* scan_value: the whole record is there, in its place.
Scans(kinds) ==
  /\ Start < Len(buf)
  /\ Record.kind \in kinds
  /\ Start + Record.len <= Len(buf)
Malformed ==
  /\ Start < Len(buf)
  /\ Record.kind = "malformed" \/ Len(buf) - Start \in Record.torn
Incomplete == ~Scans(Kinds) /\ ~Malformed

Returns(r) == pc' = "idle" /\ result' = r

\* Control records are applied on the way.  A new table restarts the
\* numbering.
ApplyControl ==
  /\ pc # "idle" /\ pending = None
  /\ Scans({"table", "rowIndex", "rangeIndex", "skip"})
  /\ pos' = Start + Record.len
  /\ CASE Record.kind = "table" -> /\ tableIndex' = Record.n
                                    /\ rowIndex' = None /\ rangeIndex' = None
       [] Record.kind = "rowIndex" -> /\ rowIndex' = Record.n
                                       /\ UNCHANGED <<tableIndex, rangeIndex>>
       [] Record.kind = "rangeIndex" -> /\ rangeIndex' = Record.n
                                         /\ UNCHANGED <<tableIndex, rowIndex>>
       [] OTHER -> UNCHANGED indexVars
  /\ UNCHANGED <<streamVars, buf, capacity, base, inputDone, pending, groupVars, pc,
                 result, passed>>

\* A row or a switch is lined up, not yet consumed.
LineUp ==
  /\ pc # "idle" /\ pending = None
  /\ Scans(Data)
  /\ pos' = Start
  /\ pending' = [kind |-> Record.kind, len |-> Record.len]
  /\ UNCHANGED <<streamVars, buf, capacity, base, inputDone, indexVars, groupVars, pc,
                 result, passed>>

RefuseRecord ==
  /\ pc # "idle" /\ pending = None
  /\ \/ Malformed /\ Returns([is |-> "yson"])
     \/ Scans({"badControl"}) /\ Returns([is |-> "badControl"])
  /\ pos' = Start
  /\ UNCHANGED <<streamVars, buf, capacity, base, inputDone, pending, indexVars,
                 groupVars, passed>>

-----------------------------------------------------------------------------
(***************************************************************************)
(* fill: compact, grow, read once.                                         *)
(***************************************************************************)
Rest == SubSeq(buf, Start + 1, Len(buf))

TooLarge == Len(Rest) = capacity /\ capacity >= MaxRecord

\* Mutant: the buffer does not grow.
GrownNever == capacity
Grown == IF Len(Rest) = capacity
         THEN IF 2 * capacity < MaxRecord THEN 2 * capacity ELSE MaxRecord
         ELSE capacity

Filling == pc # "idle" /\ pending = None /\ Incomplete /\ ~inputDone
Compact == base' = base + Start /\ pos' = 0

FillTooLarge ==
  /\ Filling /\ TooLarge
  /\ Compact /\ buf' = Rest
  /\ Returns([is |-> "tooLarge"])
  /\ UNCHANGED <<streamVars, capacity, inputDone, pending, indexVars, groupVars, passed>>

\* Mutant: nothing read is bytesTaken for an interruption.
FillIgnoringEnd(n) ==
  /\ Filling /\ ~TooLarge
  /\ n = 0 <=> (bytesTaken = limit \/ Len(Rest) = Grown)
  /\ Len(Rest) + n <= Grown /\ bytesTaken + n <= limit
  /\ Compact /\ capacity' = Grown
  /\ buf' = Rest \o [i \in 1..n |-> bytesTaken + i - 1]
  /\ bytesTaken' = bytesTaken + n
  /\ UNCHANGED <<inputDone, input, limit, pending, indexVars, groupVars, pc, result, passed>>

\* A read returns n bytes: none at the end of the stream, or when there is no
\* room for any.
Fill(n) ==
  /\ Filling /\ ~TooLarge
  /\ n = 0 <=> (bytesTaken = limit \/ Len(Rest) = Grown)
  /\ Len(Rest) + n <= Grown /\ bytesTaken + n <= limit
  /\ Compact /\ capacity' = Grown
  /\ buf' = Rest \o [i \in 1..n |-> bytesTaken + i - 1]
  /\ bytesTaken' = bytesTaken + n
  /\ inputDone' = (n = 0)
  /\ UNCHANGED <<input, limit, pending, indexVars, groupVars, pc, result, passed>>

FillFails ==
  /\ Filling /\ ~TooLarge
  /\ Compact /\ capacity' = Grown /\ buf' = Rest
  /\ Returns([is |-> "read"])
  /\ lapsed' = (lapsed \/ pc \in {"drain", "group"})
  /\ UNCHANGED <<streamVars, inputDone, pending, indexVars, reading, inGroup, group, made,
                 passed>>

-----------------------------------------------------------------------------
(***************************************************************************)
(* The end of the stream, or of what there is of it.                       *)
(***************************************************************************)
AtEnd == pc # "idle" /\ pending = None /\ Incomplete /\ inputDone

Truncated ==
  /\ AtEnd /\ Start < Len(buf)
  /\ pos' = Start
  /\ Returns([is |-> "truncated"])
  /\ UNCHANGED <<streamVars, buf, capacity, base, inputDone, pending, indexVars,
                 groupVars, passed>>

\* No more events, groups or rows, whichever was asked for.
End ==
  /\ AtEnd /\ Start = Len(buf)
  /\ pos' = Start
  /\ Returns([is |-> "end"])
  /\ inGroup' = (inGroup /\ pc = "row")
  /\ group' = IF pc = "row" THEN [group EXCEPT !.done = TRUE] ELSE None
  /\ UNCHANGED <<streamVars, buf, capacity, base, inputDone, pending, indexVars, reading,
                 made, lapsed, passed>>

-----------------------------------------------------------------------------
(***************************************************************************)
(* consume, discard_pending, and the calls.                                *)
(***************************************************************************)
\* Mutant: only rows that are handed out are counted.
ConsumeHanded ==
  /\ pos' = pos + pending.len
  /\ rowIndex' = IF pending.kind \in Rows /\ rowIndex # None /\ pc # "drain"
                 THEN rowIndex + 1 ELSE rowIndex
  /\ pending' = None
  /\ passed' = RecordPlace

\* Every row counts, handed out or skipped.
Consume ==
  /\ pos' = pos + pending.len
  /\ rowIndex' = IF pending.kind \in Rows /\ rowIndex # None THEN rowIndex + 1 ELSE rowIndex
  /\ pending' = None
  /\ passed' = RecordPlace

TheRow ==
  [is |-> "row", bytes |-> SubSeq(buf, pos + 1, pos + pending.len), offset |-> base + pos,
   table |-> tableIndex, row |-> rowIndex, range |-> rangeIndex,
   group |-> IF group = None THEN None ELSE group.no,
   key |-> IF group = None THEN None ELSE group.key]

Ready(call) == pc = call /\ pending # None

NextEvent ==
  /\ pc = "idle" /\ reading = "events"
  /\ pc' = "event" /\ result' = [is |-> "none"]
  /\ UNCHANGED <<streamVars, bufferVars, pending, indexVars, groupVars, passed>>

EventReady ==
  /\ Ready("event")
  /\ Consume
  /\ Returns(IF pending.kind \in Rows THEN TheRow ELSE [is |-> "switch"])
  /\ UNCHANGED <<streamVars, buf, capacity, base, inputDone, tableIndex, rangeIndex, groupVars>>

\* A Group borrows its Groups, so it is gone when the next one is asked for.
NextGroup ==
  /\ pc = "idle" /\ reading # "events"
  /\ pc' = IF inGroup THEN "drain" ELSE "group"
  /\ result' = [is |-> "none"]
  /\ group' = None
  /\ UNCHANGED <<streamVars, bufferVars, pending, indexVars, reading, inGroup, made,
                 lapsed, passed>>

\* What is left of the current group is skipped, its boundary included.
DrainReady ==
  /\ Ready("drain")
  /\ Consume
  /\ pc' = IF pending.kind = "switch" THEN "group" ELSE "drain"
  /\ UNCHANGED <<streamVars, buf, capacity, base, inputDone, tableIndex, rangeIndex,
                 groupVars, result>>

\* Mutant: an empty group that is alive.
EmptyGroupAlive ==
  /\ Ready("group") /\ pending.kind = "switch"
  /\ Consume
  /\ inGroup' = TRUE
  /\ made' = made + 1
  /\ group' = [no |-> made + 1, done |-> FALSE, key |-> None]
  /\ Returns([is |-> "group"])
  /\ UNCHANGED <<streamVars, buf, capacity, base, inputDone, tableIndex, rangeIndex,
                 reading, lapsed>>

\* Back-to-back switches: a group with nothing to drain.
EmptyGroup ==
  /\ Ready("group") /\ pending.kind = "switch"
  /\ Consume
  /\ inGroup' = FALSE
  /\ made' = made + 1
  /\ group' = [no |-> made + 1, done |-> TRUE, key |-> None]
  /\ Returns([is |-> "group"])
  /\ UNCHANGED <<streamVars, buf, capacity, base, inputDone, tableIndex, rangeIndex,
                 reading, lapsed>>

\* decode_key reads the row while it is pending; a row that is not a map has
\* no key.
KeyFails == reading = "groupsBy" /\ pending.kind = "list"
Key == IF reading = "groupsBy" THEN RecordPlace ELSE None

\* The group's first row stays pending for next_row.
FullGroup ==
  /\ Ready("group") /\ pending.kind \in Rows
  /\ IF KeyFails
     THEN /\ Returns([is |-> "yson"])
          /\ lapsed' = TRUE
          /\ UNCHANGED <<inGroup, made, group>>
     ELSE /\ inGroup' = TRUE
          /\ made' = made + 1
          /\ group' = [no |-> made + 1, done |-> FALSE, key |-> Key]
          /\ Returns([is |-> "group"])
          /\ UNCHANGED lapsed
  /\ UNCHANGED <<streamVars, bufferVars, pending, indexVars, reading, passed>>

\* A finished group answers at once.
NextRow ==
  /\ pc = "idle" /\ group # None
  /\ IF group.done THEN Returns([is |-> "boundary"])
     ELSE pc' = "row" /\ result' = [is |-> "none"]
  /\ UNCHANGED <<streamVars, bufferVars, pending, indexVars, groupVars, passed>>

\* The switch stays pending for next_group.
RowReady ==
  /\ Ready("row")
  /\ IF pending.kind = "switch"
     THEN /\ Returns([is |-> "boundary"])
          /\ group' = [group EXCEPT !.done = TRUE]
          /\ UNCHANGED <<pos, rowIndex, pending, passed>>
     ELSE Consume /\ Returns(TheRow) /\ UNCHANGED group
  /\ UNCHANGED <<streamVars, buf, capacity, base, inputDone, tableIndex, rangeIndex,
                 reading, inGroup, made, lapsed>>

ReaderStep ==
  \/ ApplyControl \/ LineUp \/ RefuseRecord \/ FillTooLarge
  \/ \E n \in 0..limit : Fill(n)
  \/ Truncated \/ End \/ EventReady \/ DrainReady \/ EmptyGroup \/ FullGroup \/ RowReady

Next == NextEvent \/ NextGroup \/ NextRow \/ ReaderStep \/ FillFails

Spec == Init /\ [][Next]_vars

\* A call under way runs on; reads return.
FairSpec == Spec /\ WF_vars(ReaderStep)

-----------------------------------------------------------------------------
(***************************************************************************)
(* What a reader of the whole stream would say.                            *)
(***************************************************************************)
LastBefore(i, kinds) ==
  LET before == {j \in 1..i - 1 : input[j].kind \in kinds}
  IN IF before = {} THEN 0 ELSE CHOOSE j \in before : \A k \in before : k <= j

RowsBetween(j, i) == Cardinality({k \in j + 1..i - 1 : input[k].kind \in Rows})
SwitchesBefore(i) == Cardinality({k \in 1..i - 1 : input[k].kind = "switch"})

TrueTable(i) ==
  LET j == LastBefore(i, {"table"}) IN IF j = 0 THEN 0 ELSE input[j].n
TrueIndex(i, kind) ==
  LET j == LastBefore(i, {"table", kind})
  IN IF j = 0 \/ input[j].kind = "table" THEN None ELSE input[j].n
TrueRowIndex(i) ==
  LET j == LastBefore(i, {"table", "rowIndex"})
  IN IF TrueIndex(i, "rowIndex") = None THEN None ELSE input[j].n + RowsBetween(j, i)

\* Records that are there from their first byte to their last.
WholeRecord(i) == input[i].at + input[i].len <= limit

\* However the stream is cut into reads, the buffer compacted and grown, and
\* rows handed out or skipped, a row comes out with its own bytes, at its own
\* offset, and with the table, row and range numbers that the whole stream
\* gives it.
RowsAreTrue ==
  result.is = "row" =>
    LET r == input[passed] IN
      /\ r.kind \in Rows
      /\ result.bytes = [i \in 1..r.len |-> r.at + i - 1]
      /\ result.offset = r.at
      /\ result.table = TrueTable(passed)
      /\ result.row = TrueRowIndex(passed)
      /\ result.range = TrueIndex(passed, "rangeIndex")

\* The end is reported once nothing is left, and only for a stream that ends
\* between two records; a cut record is an error and never passed over.
EndIsReal ==
  result.is \in {"end", "truncated"} =>
    /\ \A i \in DOMAIN input : WholeRecord(i) /\ input[i].kind \in Data => i <= passed
    /\ result.is = "truncated" <=>
         \E i \in DOMAIN input : input[i].at < limit /\ ~WholeRecord(i)

\* A record is refused for its size only if it is larger than the limit, and the
\* buffer never grows past it.
TooLargeIsTrue ==
  /\ capacity <= (IF BufferBytes < MaxRecord THEN MaxRecord ELSE BufferBytes)
  /\ result.is = "tooLarge" =>
       \E i \in DOMAIN input : input[i].at = base + pos /\ input[i].len > MaxRecord

\* A stream is refused as malformed only where it is: a record that a read or
\* the buffer has cut is waited for, never an error of the format.
RefusalIsReal ==
  result.is = "yson" =>
    \E i \in DOMAIN input :
      /\ input[i].at = base + pos
      /\ input[i].kind = "malformed" \/ (reading = "groupsBy" /\ input[i].kind = "list")

\* The stream stops for a job only where it really does: at its end, at a cut, at a
\* record the job said it would not hold, or at one that is malformed.
StopsAreReal == EndIsReal /\ TooLargeIsTrue /\ RefusalIsReal

\* Groups are the runs between key switches: a row is handed out by the group
\* of its own run, never by an empty group before it, with the key of the run's
\* first row.  A next_group that failed may have passed its boundary already,
\* and the next one then passes over a group; its key still fits its rows.
GroupsAreSegments ==
  result.is = "row" /\ result.group # None =>
    /\ ~lapsed => result.group = SwitchesBefore(passed) + 1
    /\ reading = "groupsBy" =>
         /\ result.key # None
         /\ SwitchesBefore(result.key) = SwitchesBefore(passed)
         /\ LastBefore(result.key, Data) = 0
              \/ input[LastBefore(result.key, Data)].kind = "switch"

\* Every call of a job returns: nothing makes the loops of ensure_pending and
\* fill go round for ever, at the end of the stream or with a full buffer.
CallsReturn == pc # "idle" ~> pc = "idle"
=============================================================================
