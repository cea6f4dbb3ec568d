--------------------------- MODULE KeepAliveTiming ---------------------------
(***************************************************************************)
(* The times of a transaction's keep-alive: Transaction::start, attach and *)
(* held, ping_interval, first_ping_in, ping_request_timeout and the loop   *)
(* of KeepAlive::spawn in crates/ytsaurus-client/src/transaction.rs.       *)
(*                                                                         *)
(* The cluster drops a transaction whose clock has run for Timeout; a ping *)
(* that reaches it restarts the clock.  Pings are answered within Latency, *)
(* or lost: then they, or only their answers, never arrive, and the thread *)
(* learns it at the latest when their budget is spent.  How a handle is    *)
(* given up is Transaction's subject.                                      *)
(***************************************************************************)
EXTENDS Integers

CONSTANTS
  Timeout,         \* the transaction's timeout
  Second,          \* units of time in a second
  DefaultTimeout,  \* DEFAULT_TIMEOUT of the transport
  Latency,         \* the longest a ping that is answered takes
  MaxSpent         \* bound: the longest a start or an attach is followed

ASSUME TimingAssumption ==
  /\ {Timeout, Second, DefaultTimeout} \subseteq Nat \ {0}
  /\ {Latency, MaxSpent} \subseteq Nat

Greater(a, b) == IF a > b THEN a ELSE b
Smaller(a, b) == IF a < b THEN a ELSE b

\* Mutant: half of the timeout.
PingIntervalHalf == Greater(Timeout \div 2, Second)
PingInterval == Greater(Timeout \div 3, Second)

FirstPingIn(spent) == IF spent < PingInterval THEN PingInterval - spent ELSE 0

PingRequestTimeout == Smaller(Greater(PingInterval \div 2, Second), DefaultTimeout)

VARIABLES
  starter,      \* the caller: "starting", "attaching", "pinging", "held" or "failed"
  took,         \* how long the caller's command has taken
  reached,      \* the caller's ping has restarted the clock, since then `ago`
  ago,
  txOpen,       \* the transaction: "no" before it is created, "yes", "expired"
  clock,        \* time since its clock was last restarted
  pinger,       \* the keep-alive thread: "none", "wait", "ping"
  pingWait,     \* how long it waits before its next ping
  elapsed,      \* how long it has waited, or its ping has taken
  fate,         \* of the ping under way: "good" or "lost"
  pingApplied,  \* it has restarted the clock
  missed        \* pings lost since the last answer, up to 2

starterVars == <<starter, took, reached, ago>>
pingerVars  == <<pinger, pingWait, elapsed, fate, pingApplied, missed>>
timingVars  == <<starterVars, txOpen, clock, pingerVars>>

TimingInit ==
  /\ \/ starter = "starting" /\ txOpen = "no" /\ clock = 0
     \/ starter = "attaching" /\ txOpen = "yes" /\ clock \in 0..Timeout - 1
  /\ took = 0 /\ reached = FALSE /\ ago = 0
  /\ pinger = "none" /\ pingWait = 0 /\ elapsed = 0
  /\ fate = "good" /\ pingApplied = FALSE /\ missed = 0

\* The cluster creates the transaction, at some time while the start is under
\* way; a repeated start returns the one the first attempt made.
TxCreated ==
  /\ starter = "starting" /\ txOpen = "no"
  /\ txOpen' = "yes" /\ clock' = 0
  /\ UNCHANGED <<starterVars, pingerVars>>

SpawnThread(first) ==
  /\ pinger' = "wait" /\ pingWait' = first /\ elapsed' = 0
  /\ UNCHANGED <<fate, pingApplied, missed>>

\* start returns at once when it was quick, with the time it took off the first
\* wait; otherwise the keep-alive is started and the caller pings.
StartReturns ==
  /\ starter = "starting" /\ txOpen # "no"
  /\ IF took < PingInterval
     THEN starter' = "held" /\ SpawnThread(FirstPingIn(took))
     ELSE starter' = "pinging" /\ SpawnThread(FirstPingIn(0))
  /\ UNCHANGED <<took, reached, ago, txOpen, clock>>

\* The ping of a slow start, and of an attach, reaches the cluster.  It is the
\* last of its attempts; the others took some of the time.
CallerPingArrives ==
  /\ starter \in {"pinging", "attaching"}
  /\ ~reached /\ txOpen = "yes"
  /\ reached' = TRUE /\ ago' = 0 /\ clock' = 0
  /\ UNCHANGED <<starter, took, txOpen, pingerVars>>

\* ... and is answered: the slow start returns, and an attach makes its handle.
CallerPingAnswered ==
  /\ starter \in {"pinging", "attaching"} /\ reached
  /\ starter' = "held"
  /\ IF starter = "attaching" THEN SpawnThread(FirstPingIn(0)) ELSE UNCHANGED pingerVars
  /\ UNCHANGED <<took, reached, ago, txOpen, clock>>

\* ... or fails, for whatever reason: there is no handle.
CallerPingFails ==
  /\ starter \in {"pinging", "attaching"}
  /\ starter' = "failed"
  /\ pinger' = "none"
  /\ UNCHANGED <<took, reached, ago, txOpen, clock, pingWait, elapsed, fate, pingApplied, missed>>

\* The thread's wait is over and it sends a ping.
SendPing ==
  /\ pinger = "wait" /\ elapsed >= pingWait
  /\ pinger' = "ping" /\ elapsed' = 0 /\ pingApplied' = FALSE
  /\ fate' \in {"good", "lost"}
  /\ missed' = IF fate' = "lost" THEN Smaller(missed + 1, 2) ELSE missed
  /\ UNCHANGED <<starterVars, txOpen, clock, pingWait>>

PingArrives ==
  /\ pinger = "ping" /\ ~pingApplied /\ txOpen = "yes"
  /\ pingApplied' = TRUE /\ clock' = 0
  /\ UNCHANGED <<starterVars, txOpen, pinger, pingWait, elapsed, fate, missed>>

PingAnswered ==
  /\ pinger = "ping" /\ fate = "good" /\ pingApplied
  /\ pinger' = "wait" /\ pingWait' = PingInterval /\ elapsed' = 0 /\ missed' = 0
  /\ UNCHANGED <<starterVars, txOpen, clock, fate, pingApplied>>

\* A lost ping fails early, or when its budget is spent; the next one is its
\* retry.
PingFails ==
  /\ pinger = "ping" /\ fate = "lost"
  /\ pinger' = "wait" /\ pingWait' = PingInterval /\ elapsed' = 0
  /\ UNCHANGED <<starterVars, txOpen, clock, fate, pingApplied, missed>>

\* A ping of a transaction that is gone is the last.
PingRefused ==
  /\ pinger = "ping" /\ fate = "good" /\ txOpen = "expired"
  /\ pinger' = "none"
  /\ UNCHANGED <<starterVars, txOpen, clock, pingWait, elapsed, fate, pingApplied, missed>>

\* Nothing overstays: a wait ends when it is over, a good ping within Latency,
\* a lost one with its budget, the caller's answer within Latency.
MayWait ==
  /\ pinger = "wait" => elapsed < pingWait
  /\ pinger = "ping" => elapsed < (IF fate = "good" THEN Latency ELSE PingRequestTimeout)
  /\ starter \in {"pinging", "attaching"} /\ reached => ago < Latency
  /\ starter \in {"starting", "pinging", "attaching"} => took < MaxSpent

\* Time passes.  The history counters stop where nothing depends on them.
Pass ==
  /\ MayWait
  /\ took' = IF starter \in {"starting", "pinging", "attaching"} THEN took + 1 ELSE took
  /\ ago' = IF reached /\ starter \in {"pinging", "attaching"} THEN ago + 1 ELSE ago
  /\ clock' = IF txOpen = "yes" THEN clock + 1 ELSE clock
  /\ txOpen' = IF txOpen = "yes" /\ clock + 1 >= Timeout THEN "expired" ELSE txOpen
  /\ elapsed' = IF pinger = "none" THEN elapsed ELSE elapsed + 1
  /\ UNCHANGED <<starter, reached, pinger, pingWait, fate, pingApplied, missed>>

TimingNext ==
  \/ TxCreated \/ StartReturns \/ CallerPingArrives \/ CallerPingAnswered \/ CallerPingFails
  \/ SendPing
  \/ PingArrives \/ PingAnswered \/ PingFails \/ PingRefused \/ Pass

TimingSpec == TimingInit /\ [][TimingNext]_timingVars

-----------------------------------------------------------------------------
\* The arithmetic it takes: two pings that are answered, two intervals and one
\* whole ping budget fit into the timeout.
RoomForOneLoss == 2 * Latency + 2 * PingInterval + PingRequestTimeout < Timeout

\* "a third of the timeout, so one lost ping is not a lost transaction": while
\* a handle is held and no two pings in a row are lost, its transaction does not
\* expire, however slow the start was, whenever in it the transaction began and
\* whenever an attach came.
OneLostPingIsSurvived ==
  starter = "held" /\ missed < 2 => txOpen = "yes"
=============================================================================
