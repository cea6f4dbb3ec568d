---------------------------- MODULE HeavyRouting ----------------------------
(***************************************************************************)
(* Where heavy commands go: `Transport::base_for` and `after_heavy` of     *)
(* crates/ytsaurus-client/src/http.rs.                                     *)
(*                                                                         *)
(* Clones of a client share one HeavyProxy behind a mutex.  A heavy        *)
(* command takes the mutex, asks `/hosts` when what is there is too old    *)
(* (keeping the mutex while it waits), picks a host and lets go; when the  *)
(* command fails it takes the mutex again, to drop the host.  A builder    *)
(* that changes the rules gives its client a HeavyProxy of its own.        *)
(*                                                                         *)
(* Time is counted in ticks, and ages no reader tells apart are one age.   *)
(* The cluster is external: it may list any hosts, fail to answer, and     *)
(* its hosts may fail, until it is healthy, if ever.                       *)
(***************************************************************************)
EXTENDS Integers, FiniteSets

CONSTANTS
  Clients,     \* clones of a client, each with at most one command under way
  Hosts,       \* what /hosts may list
  Rules,       \* values of Transport::hosts
  Admits,      \* the hosts each of them lets a client use (heavy_base)
  FirstRule,   \* the rule the clients start with
  Refresh,     \* each client's host_list_refresh
  RetryAfter,  \* hosts_retry_after
  MaxAge,      \* bound: the age at which clocks stop
  MaxCells,    \* bound: HeavyProxy values ever made
  Base, NoHost, NoOne

ASSUME RulesAssumption == Admits \in [Rules -> SUBSET Hosts] /\ FirstRule \in Rules
ASSUME TimesAssumption ==
  /\ MaxAge \in Nat \ {0} /\ MaxCells \in Nat \ {0}
  /\ Refresh \in [Clients -> 1..MaxAge] /\ RetryAfter \in 1..MaxAge
ASSUME SentinelsAssumption ==
  Base \notin Hosts /\ NoHost \notin Hosts /\ Base # NoHost /\ NoOne \notin Clients

VARIABLES
  rules,      \* Transport::hosts
  discovery,  \* Transport::discovery
  cell,       \* which HeavyProxy the client's Arc points to
  made,       \* how many there are
  heavy,      \* their values
  lock,       \* who holds the mutex of each
  phase,         \* where each client is with its heavy command
  dest,       \* the Destination of the command under way
  listed,     \* history: the usable hosts of the answer that made the pool
  failed,     \* history: the hosts at which a command failed since then
  since,      \* history: time since /hosts was last asked for each cell
  healthy     \* the cluster has recovered for good

clientVars == <<rules, discovery, cell, made>>
callVars   == <<phase, dest>>
cellVars   == <<heavy, listed, failed>>
routingVars == <<clientVars, callVars, cellVars, lock, since, healthy>>

Cells == 1..MaxCells

\* `clock` is the age of the answer, for FellBack the time left until `until`.
State(kind, hosts, clock) == [kind |-> kind, hosts |-> hosts, clock |-> clock]
Unasked == State("Unasked", {}, 0)
Pool(hosts) == State("Pool", hosts, 0)
Configured == State("Configured", {}, 0)
FellBack == State("FellBack", {}, RetryAfter)

RoutingInit ==
  /\ rules = [c \in Clients |-> FirstRule]
  /\ discovery = [c \in Clients |-> TRUE]
  /\ cell = [c \in Clients |-> 1]
  /\ made = 1
  /\ heavy = [k \in Cells |-> Unasked]
  /\ lock = [k \in Cells |-> NoOne]
  /\ phase = [c \in Clients |-> "idle"]
  /\ dest = [c \in Clients |-> NoHost]
  /\ listed = [k \in Cells |-> {}]
  /\ failed = [k \in Cells |-> {}]
  /\ since = [k \in Cells |-> MaxAge]
  /\ healthy = FALSE

-----------------------------------------------------------------------------
(***************************************************************************)
(* base_for.                                                               *)
(***************************************************************************)
Mine(c) == heavy[cell[c]]

\* Mutant: a cluster that named nobody usable is never asked again.
StaleUnlessRefused(c) ==
  CASE Mine(c).kind = "Unasked" -> TRUE
    [] Mine(c).kind = "Pool" -> Mine(c).clock >= Refresh[c]
    [] Mine(c).kind = "Configured" -> FALSE
    [] Mine(c).kind = "FellBack" -> Mine(c).clock = 0

\* Whether the cluster has to be asked, against this client's own interval.
Stale(c) ==
  CASE Mine(c).kind = "Unasked" -> TRUE
    [] Mine(c).kind \in {"Pool", "Configured"} -> Mine(c).clock >= Refresh[c]
    [] Mine(c).kind = "FellBack" -> Mine(c).clock = 0

\* Where a command goes that finds the HeavyProxy s.
Picks(s) == IF s.kind = "Pool" THEN s.hosts ELSE {Base}

SendTo(c, h) ==
  /\ phase' = [phase EXCEPT ![c] = "sent"]
  /\ dest' = [dest EXCEPT ![c] = h]

RouteUndiscovered(c) ==
  /\ phase[c] = "idle"
  /\ ~discovery[c]
  /\ SendTo(c, Base)
  /\ UNCHANGED <<clientVars, cellVars, lock, since, healthy>>

Route(c) ==
  /\ phase[c] = "idle"
  /\ discovery[c]
  /\ lock[cell[c]] = NoOne
  /\ ~Stale(c)
  /\ \E h \in Picks(Mine(c)) : SendTo(c, h)
  /\ UNCHANGED <<clientVars, cellVars, lock, since, healthy>>

BeginLookup(c) ==
  /\ phase[c] = "idle"
  /\ discovery[c]
  /\ lock[cell[c]] = NoOne
  /\ Stale(c)
  /\ lock' = [lock EXCEPT ![cell[c]] = c]
  /\ phase' = [phase EXCEPT ![c] = "asking"]
  /\ UNCHANGED <<clientVars, dest, cellVars, since, healthy>>

\* The lookup is over: the HeavyProxy becomes s and the command is routed.
Resolve(c, s) ==
  /\ heavy' = [heavy EXCEPT ![cell[c]] = s]
  /\ \E h \in Picks(s) : SendTo(c, h)
  /\ lock' = [lock EXCEPT ![cell[c]] = NoOne]
  /\ since' = [since EXCEPT ![cell[c]] = 0]
  /\ UNCHANGED <<clientVars, healthy>>

\* Mutant: a pool that is kept stays as old as it was.
KeptStale(c) == Mine(c)

\* A refresh with no usable list keeps the pool for another interval.
Kept(c) == [Mine(c) EXCEPT !.clock = 0]

LookupAnswers(c, answer) ==
  /\ phase[c] = "asking"
  /\ healthy => answer = Hosts
  /\ LET usable == answer \cap Admits[rules[c]] IN
       IF usable # {}
       THEN /\ Resolve(c, Pool(usable))
            /\ listed' = [listed EXCEPT ![cell[c]] = usable]
            /\ failed' = [failed EXCEPT ![cell[c]] = {}]
       ELSE /\ Resolve(c, IF Mine(c).kind = "Pool" THEN Kept(c) ELSE Configured)
            /\ UNCHANGED <<listed, failed>>

\* `soon`: retry::worth_asking_again.
LookupFails(c, soon) ==
  /\ phase[c] = "asking"
  /\ ~healthy
  /\ Resolve(c, CASE Mine(c).kind = "Pool" -> Kept(c)
                  [] OTHER -> IF soon THEN FellBack ELSE Configured)
  /\ UNCHANGED <<listed, failed>>

-----------------------------------------------------------------------------
(***************************************************************************)
(* after_heavy.                                                            *)
(***************************************************************************)
Return(c) ==
  /\ phase' = [phase EXCEPT ![c] = "idle"]
  /\ dest' = [dest EXCEPT ![c] = NoHost]

\* The command succeeds, or fails through a fault of its own, or fails at the
\* configured address: nothing is concluded about a host.
Finish(c) ==
  /\ phase[c] = "sent"
  /\ Return(c)
  /\ UNCHANGED <<clientVars, cellVars, lock, since, healthy>>

\* Mutant: the emptied pool stays a pool.
WithoutFallback(s, h) ==
  IF s.kind = "Pool" THEN [s EXCEPT !.hosts = @ \ {h}] ELSE s

\* Mutant: the host is dropped by position, so another may go in its stead.
WithoutNeighbour(s, h) ==
  IF s.kind = "Pool"
  THEN LET gone == CHOOSE g \in s.hosts : TRUE IN
       IF s.hosts \ {gone} = {} THEN FellBack ELSE [s EXCEPT !.hosts = @ \ {gone}]
  ELSE s

\* What dropping a host leaves: the HeavyProxy may have changed since the
\* command was routed, and an emptied pool becomes a fallback.
Without(s, h) ==
  IF s.kind = "Pool"
  THEN IF s.hosts \ {h} = {} THEN FellBack ELSE [s EXCEPT !.hosts = @ \ {h}]
  ELSE s

\* A failure attributable to the host (retry::attributable_to_the_host).
FailAtHost(c) ==
  /\ phase[c] = "sent"
  /\ dest[c] \in Hosts
  /\ ~healthy
  /\ lock[cell[c]] = NoOne
  /\ heavy' = [heavy EXCEPT ![cell[c]] = Without(@, dest[c])]
  /\ failed' = [failed EXCEPT ![cell[c]] =
                  IF heavy'[cell[c]].kind = "Pool" THEN @ \cup {dest[c]} ELSE {}]
  /\ listed' = [listed EXCEPT ![cell[c]] =
                  IF heavy'[cell[c]].kind = "Pool" THEN @ ELSE {}]
  /\ Return(c)
  /\ UNCHANGED <<clientVars, lock, since, healthy>>

-----------------------------------------------------------------------------
(***************************************************************************)
(* Builders and clones.                                                    *)
(***************************************************************************)
\* Mutant: the shared value is forgotten instead.
ForgetShared(c) ==
  /\ lock[cell[c]] = NoOne
  /\ heavy' = [heavy EXCEPT ![cell[c]] = Unasked]
  /\ UNCHANGED <<made, cell, listed, failed>>

\* A fresh Arc, not a write through the shared one.
ForgetHeavy(c) ==
  /\ made < MaxCells
  /\ made' = made + 1
  /\ cell' = [cell EXCEPT ![c] = made + 1]
  /\ UNCHANGED cellVars

SetRules(c, r) ==
  /\ phase[c] = "idle"
  /\ rules' = [rules EXCEPT ![c] = r]
  /\ ForgetHeavy(c)
  /\ UNCHANGED <<discovery, callVars, lock, since, healthy>>

SetProxyDiscovery(c, enabled) ==
  /\ phase[c] = "idle"
  /\ discovery' = [discovery EXCEPT ![c] = enabled]
  /\ ForgetHeavy(c)
  /\ UNCHANGED <<rules, callVars, lock, since, healthy>>

\* d becomes a clone of c.
Clone(c, d) ==
  /\ phase[d] = "idle"
  /\ rules' = [rules EXCEPT ![d] = rules[c]]
  /\ discovery' = [discovery EXCEPT ![d] = discovery[c]]
  /\ cell' = [cell EXCEPT ![d] = cell[c]]
  /\ UNCHANGED <<made, callVars, cellVars, lock, since, healthy>>

-----------------------------------------------------------------------------
Aged(n) == IF n < MaxAge THEN n + 1 ELSE n

Tick ==
  /\ heavy' = [k \in Cells |->
                 [heavy[k] EXCEPT !.clock =
                    CASE heavy[k].kind = "Unasked" -> 0
                      [] heavy[k].kind = "FellBack" -> IF @ > 0 THEN @ - 1 ELSE 0
                      [] OTHER -> Aged(@)]]
  /\ since' = [k \in Cells |-> Aged(since[k])]
  /\ UNCHANGED <<clientVars, callVars, listed, failed, lock, healthy>>

Heal == healthy' = TRUE /\ UNCHANGED <<clientVars, callVars, cellVars, lock, since>>

CommandStep(c) ==
  \/ RouteUndiscovered(c) \/ Route(c) \/ BeginLookup(c)
  \/ \E answer \in SUBSET Hosts : LookupAnswers(c, answer)
  \/ \E soon \in BOOLEAN : LookupFails(c, soon)
  \/ Finish(c) \/ FailAtHost(c)

BuilderStep(c) ==
  \/ \E r \in Rules : SetRules(c, r)
  \/ \E enabled \in BOOLEAN : SetProxyDiscovery(c, enabled)
  \/ \E d \in Clients \ {c} : Clone(c, d)

RoutingNext ==
  \/ \E c \in Clients : CommandStep(c) \/ BuilderStep(c)
  \/ Tick
  \/ Heal

RoutingSpec == RoutingInit /\ [][RoutingNext]_routingVars

\* Time passes, lookups end (hosts_timeout bounds them) and so do commands.  A
\* client that goes on sending heavy commands gets the mutex in the end: it is
\* free for all but the length of a lookup in every interval.
RoutingFairness ==
  /\ WF_routingVars(Tick)
  /\ \A c \in Clients :
       /\ SF_routingVars(RouteUndiscovered(c) \/ Route(c) \/ BeginLookup(c))
       /\ WF_routingVars(\E answer \in SUBSET Hosts : LookupAnswers(c, answer))
       /\ WF_routingVars(Finish(c))

FairRoutingSpec == RoutingSpec /\ RoutingFairness

-----------------------------------------------------------------------------
States == [kind : {"Unasked", "Pool", "Configured", "FellBack"},
           hosts : SUBSET Hosts, clock : 0..MaxAge]

\* Every variable has its type.
TypeOK ==
  /\ rules \in [Clients -> Rules]
  /\ discovery \in [Clients -> BOOLEAN]
  /\ cell \in [Clients -> 1..made]
  /\ made \in Cells
  /\ heavy \in [Cells -> States]
  /\ lock \in [Cells -> Clients \cup {NoOne}]
  /\ phase \in [Clients -> {"idle", "asking", "sent"}]
  /\ dest \in [Clients -> Hosts \cup {Base, NoHost}]
  /\ listed \in [Cells -> SUBSET Hosts]
  /\ failed \in [Cells -> SUBSET Hosts]
  /\ since \in [Cells -> 0..MaxAge]
  /\ healthy \in BOOLEAN

\* A pool has a host to pick, or `pick` would divide by zero: however drops,
\* refreshes and late failures of several commands interleave.
PoolNeverEmpty == \A k \in Cells : heavy[k].kind = "Pool" => heavy[k].hosts # {}

\* A pool is exactly the usable hosts of the answer it was made from, minus the
\* ones at which a command failed since: two commands that fail at one host
\* never evict a neighbour, and a host that failed is not picked again before a
\* refresh lists it.
PoolIsAnswerMinusFailed ==
  \A k \in Cells : heavy[k].kind = "Pool" => heavy[k].hosts = listed[k] \ failed[k]

\* A command never goes to a host that its own client's rules refuse, whatever
\* its clones have looked up under theirs.
RoutedWithinRules ==
  \A c \in Clients : dest[c] \in Hosts => discovery[c] /\ dest[c] \in Admits[rules[c]]

\* "Every outcome sets a clock": a HeavyProxy is not looked up again before the
\* shorter of the two intervals has passed since its last lookup.
LookupsAreSpaced ==
  [][\A c \in Clients : phase[c] = "idle" /\ phase'[c] = "asking" =>
       since[cell[c]] >= (IF Refresh[c] < RetryAfter THEN Refresh[c] ELSE RetryAfter)]_routingVars

\* No verdict is kept for the client's life: once the cluster is healthy, a
\* client that goes on sending heavy commands has them routed to a discovered
\* host again, whatever fallback or refusal it was in.
RoutingRecovers ==
  \A c \in Clients :
    (healthy /\ discovery[c]) ~> (dest[c] \in Hosts \/ ~discovery[c])
=============================================================================
