----------------------------- MODULE SkiffReader -----------------------------
(***************************************************************************)
(* A job's Skiff input: SkiffJobReader of crates/ytsaurus-job/src/skiff.rs *)
(* on Decoder of crates/ytsaurus-skiff/src/wire.rs.                        *)
(*                                                                         *)
(* The stream is a sequence of numbers: the two bytes of a table's tag, a  *)
(* boolean, the tag of a variant, an integer, the length of a blob, a byte *)
(* of its payload.  Nothing in it says where a row ends but the schema.    *)
(* It may be cut anywhere, because its writer died, or one read may fail.  *)
(* How reads are cut is hidden by read_exact.                              *)
(***************************************************************************)
EXTENDS Integers, Sequences, SequencesExt

CONSTANTS
  SkiffLayouts,   \* for each table, its columns in order
  SkiffStreams,   \* what the cluster sends: sequences of rows
  MaxBlobBytes,   \* max_blob_bytes
  MaxRowBytes,    \* max_row_bytes, where a Value counts 1
  NoValue         \* Value::Nothing

VARIABLES
  skiffRows,     \* the rows of the stream
  skiffInput,    \* as much of it as arrives
  skiffBad,      \* where a read fails, 0 for nowhere
  skiffPos,      \* numbers consumed
  controlState,  \* SkiffJobReader::state: row_index and range_index of each table
  skiffOut,      \* the rows next_row has returned
  skiffStop      \* why it returns no more: "none" is the end of the stream

skiffVars == <<skiffRows, skiffInput, skiffBad, skiffPos, controlState, skiffOut,
               skiffStop>>

SkiffTables == 0..Len(SkiffLayouts) - 1
Layout(t)   == SkiffLayouts[t + 1]
RepeatedEnd == 9

System  == {"key", "row", "range"}
Columns == System \cup {"blob", "items"}
\* What a row holds: its place, and data that each data column carries.
InputRow == [table : SkiffTables, row : Nat, range : Nat, key : BOOLEAN, data : Nat]
\* TableLayout::from_schema: system columns form a prefix and appear once.
GoodLayout(columns) ==
  \A i \in DOMAIN columns : columns[i] \in System =>
    \A j \in 1..i - 1 : columns[j] \in System \ {columns[i]}

ASSUME SkiffAssumption ==
  /\ {MaxBlobBytes, MaxRowBytes} \subseteq Nat
  /\ NoValue \notin Nat
  /\ SkiffLayouts \in Seq(Seq(Columns))
  /\ \A t \in SkiffTables : GoodLayout(Layout(t))
  /\ \A rows \in SkiffStreams : rows \in Seq(InputRow)

-----------------------------------------------------------------------------
(***************************************************************************)
(* The cluster, which is external.  A row's index is sent where it is not  *)
(* the one after the last row of its table, its range where it changes.    *)
(***************************************************************************)
Optional(x) == IF x = NoValue THEN <<0>> ELSE <<1, x>>

\* The rows of the same table that came right before the i-th: one or none.
Before(rows, i) ==
  {j \in 1..i - 1 : rows[j].table = rows[i].table
                    /\ \A k \in j + 1..i - 1 : rows[k].table # rows[i].table}

Column(rows, i, column) ==
  LET r == rows[i]
      Unless(x, known) == Optional(IF known THEN NoValue ELSE x)
  IN  CASE column = "key"   -> <<IF r.key THEN 1 ELSE 0>>
        [] column = "row"   -> Unless(r.row, \E j \in Before(rows, i) : r.row = rows[j].row + 1)
        [] column = "range" -> Unless(r.range, \E j \in Before(rows, i) : r.range = rows[j].range)
        [] column = "blob"  -> <<r.data>> \o [k \in 1..r.data |-> 0]
        [] column = "items" -> FlattenSeq([k \in 1..r.data |-> Optional(k)]) \o <<RepeatedEnd>>

EncodedRow(rows, i) ==
  <<rows[i].table, 0>> \o FlattenSeq([c \in DOMAIN Layout(rows[i].table) |->
                                       Column(rows, i, Layout(rows[i].table)[c])])
Encoded(rows) == FlattenSeq([i \in DOMAIN rows |-> EncodedRow(rows, i)])

-----------------------------------------------------------------------------
(***************************************************************************)
(* The decoder.  A cursor says how far it has come, what is left of the    *)
(* row's budget, what it has decoded and why it stopped.                   *)
(***************************************************************************)
Cursor(at, left, values, stop) == [at |-> at, left |-> left, values |-> values, stop |-> stop]
Stopped(c, why) == [c EXCEPT !.stop = why]
On(c) == c.stop = "no"

\* read_exact of n numbers: a failed read consumes what came before it.
Exactly(c, n) ==
  IF ~On(c) THEN c
  ELSE IF skiffBad \in c.at + 1..c.at + n /\ skiffBad <= Len(skiffInput) + 1
       THEN Cursor(skiffBad - 1, c.left, c.values, "read")
  ELSE IF c.at + n > Len(skiffInput) THEN Cursor(Len(skiffInput), c.left, c.values, "truncated")
  ELSE [c EXCEPT !.at = @ + n]
Number(c) == skiffInput[c.at]

\* RowBudget::charge.
Charge(c, n) ==
  IF ~On(c) THEN c
  ELSE IF c.left < n THEN Stopped(c, "rowTooLarge")
  ELSE [c EXCEPT !.left = @ - n]

Value(c, v) == IF On(c) THEN [c EXCEPT !.values = Append(@, v)] ELSE c

\* read_blob: a length over the limit, or over what is left, is refused before
\* the payload is read.
Blob(c0) ==
  LET c == Exactly(c0, 1)
  IN  IF ~On(c) THEN c
      ELSE IF Number(c) > MaxBlobBytes THEN Stopped(c, "blobTooLarge")
      ELSE Value(Exactly(Charge(c, Number(c)), Number(c)), Number(c))

\* A variant8<nothing; int64>, and an item of a repeated one: the tag, then the
\* child, which is a value of its own.
Child(c) ==
  IF ~On(c) THEN c
  ELSE IF Number(c) = 0 THEN Value(Charge(c, 1), NoValue)
  ELSE IF Number(c) # 1 THEN Stopped(c, "invalidTag")
  ELSE LET v == Exactly(Charge(c, 1), 1) IN IF On(v) THEN Value(v, Number(v)) ELSE v

Item(c0) ==
  IF ~On(c0) THEN c0
  ELSE LET c == Exactly(c0, 1)
       IN  IF On(c) /\ Number(c) = RepeatedEnd THEN Stopped(c, "end") ELSE Child(c)

\* Every item takes at least a number of the stream, so the loop ends with it.
Repeated(c0) ==
  LET after[n \in 0..Len(skiffInput) + 1] ==
        IF n = 0 THEN [c0 EXCEPT !.values = <<>>] ELSE Item(after[n - 1])
      c == after[Len(skiffInput) + 1]
  IN  IF c.stop = "end" THEN Cursor(c.at, c.left, Append(c0.values, Len(c.values)), "no")
      ELSE [c EXCEPT !.values = c0.values]

\* decode_value of a column.
DecodeValue(c0, column) ==
  LET c == Charge(c0, 1)
  IN  IF ~On(c) THEN c
      ELSE CASE column = "key" -> LET k == Exactly(c, 1) IN
                                  IF On(k) THEN Value(k, Number(k) # 0) ELSE k
             [] column \in {"row", "range"} -> Child(Exactly(c, 1))
             [] column = "blob"  -> Blob(c)
             [] column = "items" -> Repeated(c)

\* skip_value of a column: the same bytes and charges, and no value.
SkipChild(c) ==
  IF ~On(c) THEN c
  ELSE IF Number(c) > 1 THEN Stopped(c, "invalidTag")
  ELSE Exactly(Charge(c, 1), Number(c))
SkipItem(c0) ==
  LET c == Exactly(c0, 1)
  IN  IF On(c) /\ Number(c) = RepeatedEnd THEN Stopped(c, "end") ELSE SkipChild(c)
SkipValue(c0, column) ==
  LET c == Exactly(Charge(c0, 1), 1)
      after[n \in 0..Len(skiffInput) + 1] ==
        IF n = 0 THEN Charge(c0, 1) ELSE SkipItem(after[n - 1])
      items == after[Len(skiffInput) + 1]
  IN  IF ~On(c) THEN c
      ELSE CASE column = "key" -> c
             [] column \in {"row", "range"} -> SkipChild(c)
             [] column = "blob"  -> IF Number(c) > MaxBlobBytes THEN Stopped(c, "blobTooLarge")
                                    ELSE Exactly(Charge(c, Number(c)), Number(c))
             [] column = "items" -> IF items.stop = "end" THEN Stopped(items, "no") ELSE items

\* Mutant: a tag cut in two is an end too.
CleanEndLenient(first, tag) == "truncated" \in {first.stop, tag.stop}
\* The stream ends where no byte of a row has come.
CleanEnd(first, tag) == first.stop = "truncated"

\* The tag of a row.
RowStart ==
  LET first == Exactly(Cursor(skiffPos, MaxRowBytes, <<>>, "no"), 1)
      tag   == Exactly(first, 1)
      table == Number(first)
  IN  IF CleanEnd(first, tag) THEN Stopped(first, "none")
      ELSE IF ~On(tag) THEN tag
      ELSE IF Number(tag) # 0 \/ table \notin SkiffTables THEN Stopped(tag, "invalidTable")
      ELSE Charge(tag, 1)

\* A row, by what is done with each of its columns.
Advance(Step(_, _)) ==
  LET layout == Layout(skiffInput[skiffPos + 1])
      after[n \in 0..Len(layout)] ==
        IF n = 0 THEN RowStart ELSE Step(after[n - 1], layout[n])
  IN  IF On(RowStart) THEN after[Len(layout)] ELSE RowStart

\* Decoder::next_row and Decoder::skip_row.
DecodedRow == Advance(DecodeValue)
SkippedRow == Advance(SkipValue)

-----------------------------------------------------------------------------
(***************************************************************************)
(* The reader of a job.                                                    *)
(***************************************************************************)
Place(t, column) ==
  IF column \in ToSet(Layout(t)) THEN CHOOSE i \in DOMAIN Layout(t) : Layout(t)[i] = column ELSE 0
DataColumns(t) == {i \in DOMAIN Layout(t) : Layout(t)[i] \notin System}
\* TableLayout::system_columns is empty.
IsPlain(t) == DataColumns(t) = DOMAIN Layout(t)

\* apply_row_index, and the count kept for a table without system columns.
RowIndex(t, values) ==
  LET i == Place(t, "row")
      o == controlState[t].row
  IN  CASE i > 0         -> IF values[i] = NoValue THEN o + 1 ELSE values[i]
        [] i = 0 /\ IsPlain(t) -> o + 1
        [] OTHER         -> o
\* apply_range_index.
RangeIndex(t, values) ==
  LET i == Place(t, "range")
  IN  IF i > 0 /\ values[i] # NoValue THEN values[i] ELSE controlState[t].range

SkiffInit ==
  /\ skiffRows \in SkiffStreams
  /\ \E n \in 0..Len(Encoded(skiffRows)) : skiffInput = SubSeq(Encoded(skiffRows), 1, n)
  /\ skiffBad \in {0} \cup (IF skiffInput = Encoded(skiffRows) THEN 1..Len(skiffInput) + 1 ELSE {})
  /\ skiffPos = 0
  /\ controlState = [t \in SkiffTables |-> [row |-> 0, range |-> 0]]
  /\ skiffOut = <<>>
  /\ skiffStop = "no"

\* A row comes out without its system columns.
NextSkiffRow ==
  LET c == DecodedRow
      t == skiffInput[skiffPos + 1]
  IN  /\ skiffStop = "no" /\ On(c)
      /\ controlState' = [controlState EXCEPT ![t] = [row |-> RowIndex(t, c.values),
                                                     range |-> RangeIndex(t, c.values)]]
      /\ skiffOut' = Append(skiffOut, [table |-> t,
                                       row   |-> RowIndex(t, c.values),
                                       range |-> RangeIndex(t, c.values),
                                       key   |-> Place(t, "key") > 0 /\ c.values[Place(t, "key")],
                                       data  |-> [i \in DataColumns(t) |-> c.values[i]]])
      /\ skiffPos' = c.at
      /\ UNCHANGED <<skiffRows, skiffInput, skiffBad, skiffStop>>

\* The end, or an error, at which a job stops.
NextSkiffStops ==
  LET c == DecodedRow
  IN  /\ skiffStop = "no" /\ ~On(c)
      /\ skiffStop' = c.stop
      /\ skiffPos' = c.at
      /\ UNCHANGED <<skiffRows, skiffInput, skiffBad, controlState, skiffOut>>

SkiffNext == NextSkiffRow \/ NextSkiffStops

SkiffSpec == SkiffInit /\ [][SkiffNext]_skiffVars

-----------------------------------------------------------------------------
\* What the i-th row should read as: a column that its table does not carry
\* keeps its default, and rows of a table without any are counted from one.
TrueRow(i) ==
  LET r == skiffRows[i]
      t == r.table
      nth == Cardinality({j \in 1..i : skiffRows[j].table = t})
  IN  [table |-> t,
       row   |-> IF Place(t, "row") > 0 THEN r.row ELSE IF IsPlain(t) THEN nth ELSE 0,
       range |-> IF Place(t, "range") > 0 THEN r.range ELSE 0,
       key   |-> Place(t, "key") > 0 /\ r.key,
       data  |-> [j \in DataColumns(t) |-> r.data]]

\* What a row costs: a Value for itself, each column and each child, and its blob.
Cost(r, column) == CASE column = "key" -> 1
                     [] column \in {"row", "range"} -> 2
                     [] column \in {"blob", "items"} -> 1 + r.data
Footprint(r) ==
  LET sum[n \in 0..Len(Layout(r.table))] ==
        IF n = 0 THEN 1 ELSE sum[n - 1] + Cost(r, Layout(r.table)[n])
  IN  sum[Len(Layout(r.table))]

RowsThatArrived == {n \in 0..Len(skiffRows) : Encoded(SubSeq(skiffRows, 1, n)) = skiffInput}

\* A job reads the rows the cluster sent, with the numbers they have in their
\* tables although most are not sent; it is told of an end only where the stream
\* ends between two rows, and refused only what is cut, failed or over a limit;
\* and skip_row accepts "exactly a stream that decodes" (wire.rs:244).
SkiffRowsAreTrue ==
  LET next == skiffRows[Len(skiffOut) + 1]
      d == DecodedRow
      s == SkippedRow
  IN  /\ \A i \in DOMAIN skiffOut : skiffOut[i] = TrueRow(i)
      /\ skiffStop \in {"no", "none", "truncated", "read", "rowTooLarge", "blobTooLarge"}
      /\ skiffStop = "none" => RowsThatArrived = {Len(skiffOut)}
      /\ skiffStop = "truncated" => RowsThatArrived = {}
      /\ skiffStop = "read" => skiffPos = skiffBad - 1
      /\ skiffStop = "rowTooLarge" => Footprint(next) > MaxRowBytes
      /\ skiffStop = "blobTooLarge" => "blob" \in ToSet(Layout(next.table)) /\ next.data > MaxBlobBytes
      /\ skiffStop = "no" => <<d.at, d.left, d.stop>> = <<s.at, s.left, s.stop>>
=============================================================================
