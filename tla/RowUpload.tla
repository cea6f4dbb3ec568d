------------------------------ MODULE RowUpload ------------------------------
(***************************************************************************)
(* Rows encoded while they are sent: RowStream of                          *)
(* crates/ytsaurus-client/src/stream.rs and Client::write_table_rows of    *)
(* lib.rs.                                                                 *)
(*                                                                         *)
(* A row is as many bytes as its number says and a terminator, or, when    *)
(* its Serialize refuses it, Unwritable: then it leaves a byte behind.     *)
(* The caller's iterator may yield again after it has ended.               *)
(*                                                                         *)
(* The transport is external: it asks for the body in pieces of any size,  *)
(* may ask again after its end and may give up before it.  A body that     *)
(* failed it may take for one that ended early, and so for a success.      *)
(***************************************************************************)
EXTENDS Integers, Sequences, SequencesExt

CONSTANTS
  RowSources,   \* what iterators yield: sequences of rows and Ends
  RowChunk,     \* ROW_CHUNK
  MaxRead,      \* the largest piece the transport asks for
  Unwritable,
  Ends          \* the iterator's None, before which are the rows to write

ASSUME UploadAssumption ==
  /\ RowChunk \in Nat \ {0} /\ MaxRead \in Nat \ {0}
  /\ Unwritable \notin Nat /\ Ends \notin Nat /\ Unwritable # Ends
  /\ RowSources \subseteq Seq(Nat \cup {Unwritable, Ends})

VARIABLES
  source,       \* all the iterator yields
  yielded,      \* how much of it
  rowBuffer,    \* RowStream::buffer, each byte as its row's number and its own
  rowPosition,
  rowFailed,
  exhausted,
  taken,        \* the body the transport has sent
  bodyState,    \* as the transport sees it: "open", "ended" or "failed"
  writeResult   \* what write_table_rows returned

uploadVars == <<source, yielded, rowBuffer, rowPosition, rowFailed, exhausted, taken,
                bodyState, writeResult>>

\* The bytes of the i-th that the iterator yields; a terminator is 0.
EncodedBytes(i) ==
  IF source[i] = Unwritable THEN <<<<i, 1>>>>
  ELSE [b \in 1..source[i] + 1 |-> IF b > source[i] THEN <<i, 0>> ELSE <<i, b>>]

UploadInit ==
  /\ source \in RowSources /\ yielded = 0
  /\ rowBuffer = <<>> /\ rowPosition = 0 /\ rowFailed = FALSE /\ exhausted = FALSE
  /\ taken = <<>> /\ bodyState = "open" /\ writeResult = "none"

\* Mutant: the iterator is asked again after it has ended.
LatchedNever == FALSE
\* The end of the iterator is latched.
Latched == exhausted

\* One turn of RowStream::fill: a row is taken unless there is enough, the
\* iterator has ended or a row was refused.
FillTurn(f, i) ==
  IF f.over \/ f.bad \/ i <= yielded \/ Len(f.buffer) >= RowChunk THEN f
  ELSE IF source[i] = Ends THEN [f EXCEPT !.next = i, !.over = TRUE]
  ELSE [f EXCEPT !.next = i, !.buffer = @ \o EncodedBytes(i), !.bad = source[i] = Unwritable]

\* RowStream::fill, from a cleared buffer.
Filled ==
  LET filling[i \in 0..Len(source)] ==
        IF i = 0 THEN [next |-> yielded, buffer |-> <<>>, over |-> Latched, bad |-> FALSE]
        ELSE FillTurn(filling[i - 1], i)
  IN  filling[Len(source)]

\* Bytes of the buffer from `position` on are handed over, as many as fit.
HandOver(n, buffer, position) ==
  LET last == IF position + n < Len(buffer) THEN position + n ELSE Len(buffer)
  IN  /\ taken' = taken \o SubSeq(buffer, position + 1, last)
      /\ rowPosition' = last

Asked == writeResult = "none" /\ rowPosition = Len(rowBuffer)

\* Read::read.
ReadBuffered(n) ==
  /\ writeResult = "none" /\ rowPosition < Len(rowBuffer)
  /\ HandOver(n, rowBuffer, rowPosition)
  /\ UNCHANGED <<source, yielded, rowBuffer, rowFailed, exhausted, bodyState, writeResult>>

ReadFilled(n) ==
  /\ Asked /\ ~rowFailed
  /\ yielded' = Filled.next /\ rowBuffer' = Filled.buffer
  /\ rowFailed' = Filled.bad /\ exhausted' = Filled.over
  /\ IF Filled.bad THEN bodyState' = "failed" /\ rowPosition' = 0 /\ UNCHANGED taken
     ELSE IF Filled.buffer = <<>> THEN bodyState' = "ended" /\ rowPosition' = 0 /\ UNCHANGED taken
     ELSE HandOver(n, Filled.buffer, 0) /\ UNCHANGED bodyState
  /\ UNCHANGED <<source, writeResult>>

\* A stream that failed fails again once its buffer is used up.
ReadAgain ==
  /\ Asked /\ rowFailed
  /\ bodyState' = "failed"
  /\ UNCHANGED <<source, yielded, rowBuffer, rowPosition, rowFailed, exhausted, taken, writeResult>>

\* The transport returns, and then write_table_rows, which looks at the stream's
\* own failure first.
WriteReturns ==
  /\ writeResult = "none"
  /\ \E sent \in (IF bodyState = "open" THEN {"error"} ELSE {"ok", "error"}) :
       writeResult' = IF rowFailed THEN "error" ELSE sent
  /\ UNCHANGED <<source, yielded, rowBuffer, rowPosition, rowFailed, exhausted, taken, bodyState>>

UploadNext ==
  \/ \E n \in 1..MaxRead : ReadBuffered(n) \/ ReadFilled(n)
  \/ ReadAgain \/ WriteReturns

UploadSpec == UploadInit /\ [][UploadNext]_uploadVars

-----------------------------------------------------------------------------
RowsToWrite == {i \in DOMAIN source : \A j \in 1..i : source[j] # Ends}
WholeBody   == FlattenSeq([i \in 1..Cardinality(RowsToWrite) |-> EncodedBytes(i)])

\* "Ending early would upload a truncated table as a success": the body is the
\* rows in order, whatever the pieces it is asked for in; it is called a success
\* only when it was all of them and none was refused; and nothing is appended to
\* a body that has ended.
BodyIsWhole ==
  /\ bodyState # "failed" => IsPrefix(taken, WholeBody)
  /\ bodyState = "ended" \/ writeResult = "ok" =>
       taken = WholeBody /\ \A i \in RowsToWrite : source[i] # Unwritable
=============================================================================
