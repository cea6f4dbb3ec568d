----------------------------- MODULE TabletClient -----------------------------
(***************************************************************************)
(* Dynamic tables over RPC: Client and Transaction of                      *)
(* crates/ytsaurus-rpc/src/client.rs as the blocking facade of blocking.rs *)
(* and blocking/convert.rs drives them.                                    *)
(*                                                                         *)
(* A blocking client makes one call at a time, and its connection's tasks  *)
(* run only inside block_on: a request whose caller has timed out may      *)
(* still be in the queue and go out with the next call.  No request is     *)
(* sent twice.  The calls on the connection are RpcConnection's subject.   *)
(*                                                                         *)
(* The proxy and the tables are external: requests that have arrived are   *)
(* dealt with in any order, and may be refused; a transaction sees what    *)
(* was committed when it started, and expires when it pleases.             *)
(***************************************************************************)
EXTENDS Integers, Sequences, SequencesExt

CONSTANTS
  Apps,            \* programs, each with a blocking client of its own
  TableKeys,       \* keys of the table, values of its column "k"
  Programs,        \* what each of them may do: sequences of calls, [api, mod, keys], where a
                   \* mod is [delete, rows] and a row a sequence of <<name, value>>
  ReplyNames,      \* the name table of the proxy's answers, which has every column
  CellValues,      \* values of cells
  NoRow

VARIABLES
  tabletTx,    \* the cluster's transactions: [state, start, mods]
  commits,     \* the mods of the committed ones, in order
  outQueue,    \* each connection's outbound queue
  onWire,      \* requests that have arrived and are not dealt with
  replies,     \* answers that have not been read
  apiAt,       \* each program: "idle", or the request it is blocked on
  apiCall,     \* the call under way: [no, api, tx, mod, keys, since]
  handle,      \* the transaction it holds, 0 for none
  program,     \* the calls of each program
  callNo,      \* how many it has made
  apiDone      \* history: the calls that have returned

tabletClusterVars == <<tabletTx, commits>>
tabletVars == <<tabletClusterVars, outQueue, onWire, replies, apiAt, apiCall, handle, program, callNo,
                apiDone>>

-----------------------------------------------------------------------------
(***************************************************************************)
(* Rows: the interface names columns, the wire numbers them.               *)
(***************************************************************************)
Cells == ToSet(ReplyNames) \X CellValues
Mods == [delete : BOOLEAN, rows : Seq(Seq(Cells))]
ProgramSteps == [api : STRING, mod : Mods \cup {NoRow}, keys : Seq(TableKeys)]

ASSUME TabletAssumption ==
  /\ ReplyNames \in Seq(STRING)
  /\ NoRow \notin Nat /\ NoRow \notin Seq(Cells) /\ NoRow \notin Seq(Nat \X CellValues)
  /\ \A p \in Programs : \A a \in Apps :
       /\ p[a] \in Seq(ProgramSteps)
       /\ \A i \in DOMAIN p[a] : p[a][i].api \in {"alone", "modify"} => p[a][i].mod \in Mods

Names(row) == [i \in DOMAIN row |-> row[i][1]]
Named(row) == ToSet(row)

\* column_names: in first-seen order.
AddName(names, name) == IF name \in ToSet(names) THEN names ELSE Append(names, name)
ColumnNames(rows) ==
  LET all == FlattenSeq([i \in DOMAIN rows |-> Names(rows[i])])
      names[n \in 0..Len(all)] == IF n = 0 THEN <<>> ELSE AddName(names[n - 1], all[n])
  IN  names[Len(all)]

\* row_to_wire and row_from_wire.
IdOf(name, names) == (CHOOSE i \in DOMAIN names : names[i] = name) - 1
ToWire(row, names) == [i \in DOMAIN row |-> <<IdOf(row[i][1], names), row[i][2]>>]
FromWire(row, names) == [i \in DOMAIN row |-> <<names[row[i][1] + 1], row[i][2]>>]

\* modify_request, with the rows in its attachment.
ModifyRequest(mod) ==
  [names |-> ColumnNames(mod.rows), delete |-> mod.delete,
   rows |-> [i \in DOMAIN mod.rows |-> ToWire(mod.rows[i], ColumnNames(mod.rows))]]

-----------------------------------------------------------------------------
(***************************************************************************)
(* The tables.                                                             *)
(***************************************************************************)
KeyOf(row) == (CHOOSE c \in Named(row) : c[1] = "k")[2]

Upserted(table, delete, row) ==
  [table EXCEPT ![KeyOf(row)] =
     IF delete THEN NoRow
     ELSE Named(row) \cup (IF @ = NoRow THEN {} ELSE {c \in @ : c[1] \notin ToSet(Names(row))})]
Modified(table, mod) ==
  LET after[n \in 0..Len(mod.rows)] ==
        IF n = 0 THEN table
        ELSE Upserted(after[n - 1], mod.delete, FromWire(mod.rows[n], mod.names))
  IN  after[Len(mod.rows)]
Committed(table, mods) ==
  LET after[n \in 0..Len(mods)] == IF n = 0 THEN table ELSE Modified(after[n - 1], mods[n].mod)
  IN  after[Len(mods)]
TableAt(history, ts) ==
  LET after[n \in 0..ts] ==
        IF n = 0 THEN [k \in TableKeys |-> NoRow] ELSE Committed(after[n - 1], history[n].mods)
  IN  after[ts]

\* What was committed up to a timestamp.
AsOf(ts) == TableAt(commits, ts)

\* A row as the answer carries it.
Replied(row) ==
  IF row = NoRow THEN NoRow ELSE ToWire(SetToSeq(row), ReplyNames)

TabletInit ==
  /\ tabletTx = <<>> /\ commits = <<>>
  /\ outQueue = [a \in Apps |-> <<>>] /\ onWire = {} /\ replies = {}
  /\ apiAt = [a \in Apps |-> "idle"] /\ apiCall = [a \in Apps |-> NoRow]
  /\ handle = [a \in Apps |-> 0] 
  /\ program \in Programs /\ callNo = [a \in Apps |-> 0] /\ apiDone = {}

-----------------------------------------------------------------------------
(***************************************************************************)
(* The facade.  A call posts a request and blocks on it.                   *)
(***************************************************************************)
Upcoming(a) == program[a][callNo[a] + 1]
May(a, api) ==
  apiAt[a] = "idle" /\ callNo[a] < Len(program[a]) /\ Upcoming(a).api = api

\* Mutant: a transaction's reads take the caller's timestamp, which is none.
ReadTimestampLatest(call) == NoRow
\* A read inside a transaction is as of its start, outside of the latest.
ReadTimestamp(call) == IF call.tx = 0 THEN NoRow ELSE tabletTx[call.tx].start

Request(call, kind) ==
  [no |-> call.no, kind |-> kind, tx |-> call.tx,
   mod |-> IF kind = "modify" THEN ModifyRequest(call.mod) ELSE NoRow,
   keys |-> IF kind = "read" THEN call.keys ELSE <<>>,
   at |-> IF kind = "read" THEN ReadTimestamp(call) ELSE NoRow]

Block(a, call, kind) ==
  /\ apiAt' = [apiAt EXCEPT ![a] = kind]
  /\ apiCall' = [apiCall EXCEPT ![a] = call]
  /\ outQueue' = [outQueue EXCEPT ![a] = Append(@, Request(call, kind))]

Calls(a, api, tx, kind) ==
  /\ May(a, api)
  /\ callNo' = [callNo EXCEPT ![a] = @ + 1]
  /\ Block(a, [no |-> <<a, callNo[a] + 1>>, api |-> api, tx |-> tx, mod |-> Upcoming(a).mod,
               keys |-> Upcoming(a).keys, since |-> Len(commits)], kind)
  /\ UNCHANGED <<tabletClusterVars, onWire, replies, program, apiDone>>

\* insert_rows and delete_rows of the client: a transaction of their own.
ModifyAlone(a) == Calls(a, "alone", 0, "start") /\ UNCHANGED handle

StartTabletTx(a) == Calls(a, "start", 0, "start") /\ UNCHANGED handle

\* insert_rows and delete_rows of a transaction, and its pings.
ModifyInTx(a) == handle[a] # 0 /\ Calls(a, "modify", handle[a], "modify") /\ UNCHANGED handle
PingTx(a)     == handle[a] # 0 /\ Calls(a, "ping", handle[a], "ping") /\ UNCHANGED handle

\* lookup_rows, with keep_missing_rows, of the client and of a transaction;
\* select_rows reads every key and drops those without a row.
LookUp(a)   == Calls(a, "lookup", 0, "read") /\ UNCHANGED handle
ReadInTx(a) == handle[a] # 0 /\ Calls(a, "read", handle[a], "read") /\ UNCHANGED handle

\* commit and abort consume the transaction, whatever comes of them.
EndTx(a, kind) ==
  /\ handle[a] # 0
  /\ Calls(a, kind, handle[a], kind)
  /\ handle' = [handle EXCEPT ![a] = 0]

\* A dropped transaction is not aborted.
DropTx(a) ==
  /\ May(a, "drop") /\ handle[a] # 0
  /\ callNo' = [callNo EXCEPT ![a] = @ + 1]
  /\ handle' = [handle EXCEPT ![a] = 0]
  /\ UNCHANGED <<tabletClusterVars, outQueue, onWire, replies, apiAt, apiCall, program, apiDone>>

\* The call returns.
ApiReturns(a, how, rows) ==
  /\ apiAt' = [apiAt EXCEPT ![a] = "idle"]
  /\ apiDone' = apiDone \cup {[call |-> apiCall[a], at |-> apiAt[a], how |-> how, rows |-> rows,
                               until |-> Len(commits)]}
  /\ apiCall' = [apiCall EXCEPT ![a] = NoRow]
  /\ UNCHANGED outQueue

\* block_on: the writer goes through the queue, from before the call too.
WriterRuns(a) ==
  /\ apiAt[a] # "idle" /\ outQueue[a] # <<>>
  /\ onWire' = onWire \cup {Head(outQueue[a])}
  /\ outQueue' = [outQueue EXCEPT ![a] = Tail(@)]
  /\ UNCHANGED <<tabletClusterVars, replies, apiAt, apiCall, handle, program, callNo, apiDone>>

\* What comes after an answer: the next of a write's three requests, or the
\* call's return.
GoesOn(a, r) == apiCall[a].api = "alone" /\ apiAt[a] # "commit" /\ r.ok

Answered(a) ==
  /\ apiAt[a] # "idle"
  /\ \E r \in replies :
       /\ r.no = apiCall[a].no /\ r.kind = apiAt[a]
       /\ replies' = replies \ {r}
       /\ IF GoesOn(a, r)
          THEN /\ Block(a, IF r.kind = "start" THEN [apiCall[a] EXCEPT !.tx = r.tx] ELSE apiCall[a],
                        IF r.kind = "start" THEN "modify" ELSE "commit")
               /\ UNCHANGED <<handle, apiDone>>
          ELSE /\ ApiReturns(a, IF r.ok THEN "ok" ELSE "refused",
                         [i \in DOMAIN r.rows |-> IF r.rows[i] = NoRow THEN NoRow
                                                  ELSE FromWire(r.rows[i], ReplyNames)])
               /\ handle' = IF apiCall[a].api = "start" /\ r.ok THEN [handle EXCEPT ![a] = r.tx]
                            ELSE handle
       /\ UNCHANGED <<tabletClusterVars, onWire, program, callNo>>

\* The deadline; the request stays wherever it is.
TimesOut(a) ==
  /\ apiAt[a] # "idle"
  /\ ApiReturns(a, "timeout", <<>>)
  /\ replies' = {r \in replies : r.no # apiCall[a].no}
  /\ UNCHANGED <<tabletClusterVars, onWire, handle, program, callNo>>

-----------------------------------------------------------------------------
\* An answer nobody waits for any more is dropped by the reader.
Reply(r, ok, tx, rows) ==
  replies' = replies \cup {[no |-> r.no, kind |-> r.kind, ok |-> ok, tx |-> tx, rows |-> rows] :
                           a \in {b \in Apps : apiAt[b] = r.kind /\ apiCall[b].no = r.no}}
IsOpen(tx) == tabletTx[tx].state = "open"

Dealt(r) ==
  onWire' = onWire \ {r} /\ UNCHANGED <<outQueue, apiAt, apiCall, handle, program, callNo, apiDone>>

DealStart(r) ==
  /\ r.kind = "start" /\ Dealt(r)
  /\ tabletTx' = Append(tabletTx, [state |-> "open", start |-> Len(commits), mods |-> <<>>])
  /\ Reply(r, TRUE, Len(tabletTx) + 1, <<>>)
  /\ UNCHANGED commits

DealModify(r) ==
  /\ r.kind = "modify" /\ IsOpen(r.tx) /\ Dealt(r)
  /\ tabletTx' = [tabletTx EXCEPT ![r.tx].mods = Append(@, [no |-> r.no, mod |-> r.mod])]
  /\ Reply(r, TRUE, r.tx, <<>>)
  /\ UNCHANGED commits

DealEnd(r) ==
  /\ r.kind \in {"commit", "abort"} /\ IsOpen(r.tx) /\ Dealt(r)
  /\ tabletTx' = [tabletTx EXCEPT ![r.tx].state = IF r.kind = "commit" THEN "committed" ELSE "aborted"]
  /\ commits' = IF r.kind = "commit"
                THEN Append(commits, [tx |-> r.tx, mods |-> tabletTx[r.tx].mods]) ELSE commits
  /\ Reply(r, TRUE, r.tx, <<>>)

DealRead(r) ==
  /\ r.kind = "read" /\ Dealt(r)
  /\ LET table == AsOf(IF r.at = NoRow THEN Len(commits) ELSE r.at)
     IN  Reply(r, TRUE, 0, [i \in DOMAIN r.keys |-> Replied(table[r.keys[i]])])
  /\ UNCHANGED tabletClusterVars

DealPing(r) ==
  /\ r.kind = "ping" /\ IsOpen(r.tx) /\ Dealt(r)
  /\ Reply(r, TRUE, r.tx, <<>>)
  /\ UNCHANGED tabletClusterVars

\* A conflict, a missing tablet, a transaction that is gone.
Refuse(r) ==
  /\ Dealt(r)
  /\ Reply(r, FALSE, 0, <<>>)
  /\ UNCHANGED tabletClusterVars

ExpireTablet(tx) ==
  /\ IsOpen(tx)
  /\ tabletTx' = [tabletTx EXCEPT ![tx].state = "expired"]
  /\ UNCHANGED <<commits, outQueue, onWire, replies, apiAt, apiCall, handle, program, callNo, apiDone>>

TabletNext ==
  \/ \E a \in Apps :
       \/ ModifyAlone(a) \/ StartTabletTx(a) \/ ModifyInTx(a) \/ PingTx(a)
       \/ LookUp(a) \/ ReadInTx(a) \/ EndTx(a, "commit") \/ EndTx(a, "abort") \/ DropTx(a)
       \/ WriterRuns(a) \/ Answered(a) \/ TimesOut(a)
  \/ \E r \in onWire :
       DealStart(r) \/ DealModify(r) \/ DealEnd(r) \/ DealRead(r) \/ DealPing(r) \/ Refuse(r)
  \/ \E tx \in DOMAIN tabletTx : ExpireTablet(tx)

TabletSpec == TabletInit /\ [][TabletNext]_tabletVars

-----------------------------------------------------------------------------
\* The writes of a call that were published, with the rows by name.
Published(no) ==
  UNION {{<<i, j>> : j \in {m \in DOMAIN commits[i].mods : commits[i].mods[m].no = no}} :
           i \in DOMAIN commits}
AsGiven(mod, wire) ==
  /\ wire.delete = mod.delete
  /\ [i \in DOMAIN wire.rows |-> Named(FromWire(wire.rows[i], wire.names))]
       = [i \in DOMAIN mod.rows |-> Named(mod.rows[i])]
\* What a read of a table should return.
Expected(ts, keys) ==
  [i \in DOMAIN keys |-> AsOf(ts)[keys[i]]]
Got(rows) == [i \in DOMAIN rows |-> IF rows[i] = NoRow THEN NoRow ELSE Named(rows[i])]

\* A write that is reported done was published, once and with the columns its rows
\* name; one that is refused, or that failed before its commit was sent, never
\* is, however late its requests arrive.  What a transaction committed holds
\* every write it was told of.  Its reads are all of one moment, its start, and
\* give an answer per key, in order; those outside are of a moment of the call.
TablesAreTrue ==
  \A d \in apiDone :
    LET c == d.call
    IN  /\ c.api = "alone" /\ d.how = "ok" =>
             \E p \in Published(c.no) :
               /\ Published(c.no) = {p}
               /\ AsGiven(c.mod, commits[p[1]].mods[p[2]].mod)
        /\ c.api = "alone" /\ (d.how = "timeout" => d.at # "commit") /\ d.how # "ok" =>
             Published(c.no) = {}
        /\ c.api = "modify" /\ d.how = "ok" =>
             \A i \in DOMAIN commits : commits[i].tx = c.tx =>
               \E j \in DOMAIN commits[i].mods :
                 commits[i].mods[j].no = c.no /\ AsGiven(c.mod, commits[i].mods[j].mod)
        /\ c.api = "commit" /\ d.how # "timeout" =>
             (d.how = "ok" <=> \E i \in DOMAIN commits : commits[i].tx = c.tx)
        /\ c.api \in {"read", "lookup"} /\ d.how = "ok" =>
             \E ts \in (IF c.tx = 0 THEN c.since..d.until ELSE {tabletTx[c.tx].start}) :
               Got(d.rows) = Expected(ts, c.keys)
=============================================================================
