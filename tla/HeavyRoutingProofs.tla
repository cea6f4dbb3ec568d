-------------------------- MODULE HeavyRoutingProofs --------------------------
(***************************************************************************)
(* Proofs about HeavyRouting, for any number of clones, hosts and rules    *)
(* and for any intervals.                                                  *)
(***************************************************************************)
EXTENDS HeavyRouting, TLAPS

(***************************************************************************)
(* The strengthening.  A pool was admitted under the rules of the client   *)
(* that looked it up; that it suits every other client that picks from it  *)
(* follows because clients that share a HeavyProxy share the rules, which  *)
(* in turn needs a rule change to leave for a cell nobody has.             *)
(***************************************************************************)
SharersAgree ==
  \A c, d \in Clients : cell[c] = cell[d] =>
    rules[c] = rules[d] /\ discovery[c] = discovery[d]

PoolsAdmitted ==
  \A c \in Clients : Mine(c).kind = "Pool" => Mine(c).hosts \subseteq Admits[rules[c]]

FreshCells == \A k \in Cells : k > made => heavy[k] = Unasked

OnlyDiscoverersAsk == \A c \in Clients : phase[c] = "asking" => discovery[c]

IdleMeansNowhere == \A c \in Clients : phase[c] # "sent" => dest[c] = NoHost

IInv ==
  /\ TypeOK
  /\ PoolNeverEmpty
  /\ PoolIsAnswerMinusFailed
  /\ RoutedWithinRules
  /\ SharersAgree
  /\ PoolsAdmitted
  /\ FreshCells
  /\ OnlyDiscoverersAsk
  /\ IdleMeansNowhere

-----------------------------------------------------------------------------
\* The values a HeavyProxy is given are states.
LEMMA StatesOK ==
  /\ Unasked \in States /\ Configured \in States /\ FellBack \in States
  /\ \A S \in SUBSET Hosts : Pool(S) \in States
BY TimesAssumption DEF Unasked, Configured, FellBack, Pool, State, States

\* Dropping a host leaves a state: a smaller pool that is not empty, a fallback,
\* or what was there.
LEMMA WithoutIsState ==
  ASSUME NEW s \in States, NEW h \in Hosts
  PROVE  /\ Without(s, h) \in States
         /\ Without(s, h).kind = "Pool" =>
              /\ s.kind = "Pool"
              /\ Without(s, h).hosts = s.hosts \ {h}
              /\ Without(s, h).hosts # {}
BY StatesOK DEF Without, States, FellBack, State

\* A new client has asked nobody and routed nothing.
LEMMA InitInv == RoutingInit => IInv
<1> SUFFICES ASSUME RoutingInit PROVE IInv
  OBVIOUS
<1>1. 1 \in Cells /\ 1 \in 1..made /\ made \in Cells
  BY TimesAssumption DEF Cells, RoutingInit
<1>2. \A k \in Cells : heavy[k] = Unasked
  BY DEF RoutingInit
<1>3. Unasked.kind # "Pool"
  BY DEF Unasked, State
<1>4. heavy \in [Cells -> States]
  BY StatesOK DEF RoutingInit
<1>5. TypeOK
  <2>1. discovery \in [Clients -> BOOLEAN] /\ healthy \in BOOLEAN
    BY Zenon DEF RoutingInit
  <2> QED
    BY <1>1, <1>4, <2>1, RulesAssumption, TimesAssumption DEF RoutingInit, TypeOK
<1>6. PoolNeverEmpty /\ PoolIsAnswerMinusFailed /\ FreshCells
  BY <1>2, <1>3 DEF PoolNeverEmpty, PoolIsAnswerMinusFailed, FreshCells
<1>7. PoolsAdmitted
  BY <1>1, <1>2, <1>3 DEF PoolsAdmitted, Mine, RoutingInit
<1>8. RoutedWithinRules /\ SharersAgree /\ OnlyDiscoverersAsk /\ IdleMeansNowhere
  BY SentinelsAssumption
  DEF RoutingInit, RoutedWithinRules, SharersAgree, OnlyDiscoverersAsk, IdleMeansNowhere
<1> QED
  BY <1>5, <1>6, <1>7, <1>8 DEF IInv

\* Putting a state in one cell, when its pool suits that cell's clients, and
\* routing one of them by it.
LEMMA ResolveInv ==
  ASSUME IInv, NEW c \in Clients, NEW s \in States, phase[c] = "asking",
         s.kind = "Pool" => s.hosts # {} /\ s.hosts \subseteq Admits[rules[c]],
         Resolve(c, s),
         listed' \in [Cells -> SUBSET Hosts], failed' \in [Cells -> SUBSET Hosts],
         \A j \in Cells \ {cell[c]} : listed'[j] = listed[j] /\ failed'[j] = failed[j],
         s.kind = "Pool" => s.hosts = listed'[cell[c]] \ failed'[cell[c]]
  PROVE  IInv'
<1> USE DEF IInv
<1> DEFINE k == cell[c]
<1>1. k \in 1..made /\ made \in Cells /\ k \in Cells
  BY TimesAssumption DEF TypeOK, Cells
<1>2. PICK h \in Picks(s) : SendTo(c, h)
  BY DEF Resolve
<1>3. /\ heavy' = [heavy EXCEPT ![k] = s]
      /\ UNCHANGED <<rules, discovery, cell, made, healthy>>
      /\ phase' = [phase EXCEPT ![c] = "sent"] /\ dest' = [dest EXCEPT ![c] = h]
      /\ lock' = [lock EXCEPT ![k] = NoOne] /\ since' = [since EXCEPT ![k] = 0]
  BY <1>2 DEF Resolve, SendTo, clientVars
<1>4. h \in Hosts \cup {Base} /\ (h \in Hosts => h \in Admits[rules[c]])
  <2>1. CASE s.kind = "Pool"
    BY <1>2, <2>1 DEF Picks, States
  <2>2. CASE s.kind # "Pool"
    BY <1>2, <2>2, SentinelsAssumption DEF Picks
  <2> QED
    BY <2>1, <2>2
<1>5. TypeOK'
  <2>1. discovery' \in [Clients -> BOOLEAN] /\ healthy' \in BOOLEAN
    BY <1>3, Zenon DEF TypeOK
  <2>2. 0 \in 0..MaxAge
    BY TimesAssumption
  <2> QED
    BY <1>1, <1>3, <1>4, <2>1, <2>2 DEF TypeOK
<1>6. \A j \in Cells : heavy'[j] = IF j = k THEN s ELSE heavy[j]
  BY <1>1, <1>3 DEF TypeOK
<1>7. PoolNeverEmpty'
  BY <1>6 DEF PoolNeverEmpty
<1>8. PoolIsAnswerMinusFailed'
  BY <1>1, <1>6 DEF PoolIsAnswerMinusFailed, TypeOK
<1>9. RoutedWithinRules'
  BY <1>3, <1>4 DEF RoutedWithinRules, TypeOK, OnlyDiscoverersAsk
<1>10. SharersAgree'
  BY <1>3 DEF SharersAgree
<1>11. PoolsAdmitted'
  <2> SUFFICES ASSUME NEW d \in Clients, Mine(d)'.kind = "Pool"
               PROVE  Mine(d)'.hosts \subseteq Admits[rules'[d]]
    BY DEF PoolsAdmitted
  <2>1. cell[d] \in Cells
    BY TimesAssumption DEF TypeOK, Cells
  <2>2. CASE cell[d] = k
    BY <1>3, <1>6, <2>1, <2>2 DEF SharersAgree, Mine
  <2>3. CASE cell[d] # k
    BY <1>3, <1>6, <2>1, <2>3 DEF PoolsAdmitted, Mine
  <2> QED
    BY <2>2, <2>3
<1>12. FreshCells'
  BY <1>1, <1>3, <1>6 DEF FreshCells, Cells
<1>13. OnlyDiscoverersAsk' /\ IdleMeansNowhere'
  BY <1>3 DEF OnlyDiscoverersAsk, IdleMeansNowhere, TypeOK
<1> QED
  BY <1>5, <1>7, <1>8, <1>9, <1>10, <1>11, <1>12, <1>13

\* A lookup that brings no list keeps the pool or leaves none.
LEMMA KeepsInv ==
  ASSUME IInv, NEW c \in Clients, NEW s \in States, phase[c] = "asking", Resolve(c, s),
         s.kind = "Pool" => Mine(c).kind = "Pool" /\ s.hosts = Mine(c).hosts,
         UNCHANGED <<listed, failed>>
  PROVE  IInv'
<1>1. cell[c] \in Cells
  BY TimesAssumption DEF IInv, TypeOK, Cells
<1>2. /\ listed' \in [Cells -> SUBSET Hosts] /\ failed' \in [Cells -> SUBSET Hosts]
      /\ \A j \in Cells \ {cell[c]} : listed'[j] = listed[j] /\ failed'[j] = failed[j]
  BY DEF IInv, TypeOK
<1>3. s.kind = "Pool" => /\ s.hosts # {} /\ s.hosts \subseteq Admits[rules[c]]
                         /\ s.hosts = listed'[cell[c]] \ failed'[cell[c]]
  BY <1>1 DEF IInv, PoolNeverEmpty, PoolsAdmitted, PoolIsAnswerMinusFailed, Mine
<1> QED
  BY <1>1, <1>2, <1>3, ResolveInv

\* An answer, usable or not, preserves the invariant.
LEMMA AnswerInv ==
  ASSUME IInv, NEW c \in Clients, NEW answer \in SUBSET Hosts, LookupAnswers(c, answer)
  PROVE  IInv'
<1> DEFINE usable == answer \cap Admits[rules[c]]
<1>1. cell[c] \in Cells /\ Mine(c) \in States /\ listed[cell[c]] \in SUBSET Hosts
      /\ failed[cell[c]] \in SUBSET Hosts
  BY TimesAssumption DEF IInv, TypeOK, Cells, Mine, States
<1>2. CASE usable # {}
  <2>1. Pool(usable) \in States /\ Pool(usable).kind = "Pool" /\ Pool(usable).hosts = usable
    BY StatesOK DEF Pool, State
  <2>2. /\ Resolve(c, Pool(usable)) /\ phase[c] = "asking"
        /\ listed' = [listed EXCEPT ![cell[c]] = usable]
        /\ failed' = [failed EXCEPT ![cell[c]] = {}]
    BY <1>2 DEF LookupAnswers
  <2>3. /\ listed' \in [Cells -> SUBSET Hosts] /\ failed' \in [Cells -> SUBSET Hosts]
        /\ \A j \in Cells \ {cell[c]} : listed'[j] = listed[j] /\ failed'[j] = failed[j]
        /\ listed'[cell[c]] = usable /\ failed'[cell[c]] = {}
    BY <1>1, <2>2 DEF IInv, TypeOK
  <2>4. usable \subseteq Admits[rules[c]]
    OBVIOUS
  <2> HIDE DEF usable
  <2> QED
    BY <1>2, <2>1, <2>2, <2>3, <2>4, ResolveInv
<1>3. CASE usable = {}
  <2> DEFINE s == IF Mine(c).kind = "Pool" THEN Kept(c) ELSE Configured
  <2>1. Resolve(c, s) /\ phase[c] = "asking" /\ UNCHANGED <<listed, failed>>
    BY <1>3 DEF LookupAnswers
  <2>2. s \in States /\ (s.kind = "Pool" => Mine(c).kind = "Pool" /\ s.hosts = Mine(c).hosts)
    BY <1>1, StatesOK, TimesAssumption DEF Kept, States, Configured, State
  <2>3. QED
    BY <1>1, <2>1, <2>2, KeepsInv
<1> QED
  BY <1>2, <1>3

\* So does a lookup that fails.
LEMMA FailureInv ==
  ASSUME IInv, NEW c \in Clients, NEW soon \in BOOLEAN, LookupFails(c, soon)
  PROVE  IInv'
<1>1. Mine(c) \in States
  BY TimesAssumption DEF IInv, TypeOK, Cells, Mine, States
<1> DEFINE s == CASE Mine(c).kind = "Pool" -> Kept(c)
                  [] OTHER -> IF soon THEN FellBack ELSE Configured
<1>2. Resolve(c, s) /\ phase[c] = "asking" /\ UNCHANGED <<listed, failed>>
  BY DEF LookupFails
<1>3. s \in States /\ (s.kind = "Pool" => Mine(c).kind = "Pool" /\ s.hosts = Mine(c).hosts)
  BY <1>1, StatesOK, TimesAssumption DEF Kept, States, Configured, FellBack, State
<1> QED
  BY <1>2, <1>3, KeepsInv

\* A failure at a host drops that host and no other.
LEMMA DropInv ==
  ASSUME IInv, NEW c \in Clients, FailAtHost(c)
  PROVE  IInv'
<1> USE DEF IInv
<1> DEFINE k == cell[c]
           s == Without(heavy[k], dest[c])
<1>1. k \in Cells /\ k \in 1..made /\ made \in Cells /\ heavy[k] \in States
  BY TimesAssumption DEF TypeOK, Cells
<1>2. /\ heavy' = [heavy EXCEPT ![k] = s]
      /\ UNCHANGED <<rules, discovery, cell, made, healthy, lock, since>>
      /\ phase' = [phase EXCEPT ![c] = "idle"] /\ dest' = [dest EXCEPT ![c] = NoHost]
      /\ dest[c] \in Hosts
  BY DEF FailAtHost, Return, clientVars
<1>3. /\ s \in States
      /\ s.kind = "Pool" => /\ heavy[k].kind = "Pool" /\ s.hosts # {}
                            /\ s.hosts = heavy[k].hosts \ {dest[c]}
  BY <1>1, <1>2, WithoutIsState
<1> HIDE DEF s
<1>4. \A j \in Cells : heavy'[j] = IF j = k THEN s ELSE heavy[j]
  BY <1>1, <1>2 DEF TypeOK
<1>5. /\ failed' = [failed EXCEPT ![k] = IF s.kind = "Pool" THEN @ \cup {dest[c]} ELSE {}]
      /\ listed' = [listed EXCEPT ![k] = IF s.kind = "Pool" THEN @ ELSE {}]
  BY <1>1, <1>4 DEF FailAtHost
<1>6. TypeOK'
  <2>1. discovery' \in [Clients -> BOOLEAN] /\ healthy' \in BOOLEAN
    BY <1>2, Zenon DEF TypeOK
  <2>2. failed' \in [Cells -> SUBSET Hosts] /\ listed' \in [Cells -> SUBSET Hosts]
    BY <1>1, <1>2, <1>5 DEF TypeOK
  <2> QED
    BY <1>1, <1>2, <1>3, <2>1, <2>2 DEF TypeOK
<1>7. PoolNeverEmpty'
  BY <1>3, <1>4 DEF PoolNeverEmpty
<1>8. PoolIsAnswerMinusFailed'
  <2> SUFFICES ASSUME NEW j \in Cells, heavy'[j].kind = "Pool"
               PROVE  heavy'[j].hosts = listed'[j] \ failed'[j]
    BY DEF PoolIsAnswerMinusFailed
  <2>1. CASE j = k
    <3>1. listed'[k] = listed[k] /\ failed'[k] = failed[k] \cup {dest[c]}
      BY <1>1, <1>4, <1>5, <2>1 DEF TypeOK
    <3>2. heavy[k].hosts = listed[k] \ failed[k]
      BY <1>1, <1>3, <1>4, <2>1 DEF PoolIsAnswerMinusFailed
    <3> QED
      BY <1>3, <1>4, <2>1, <3>1, <3>2
  <2>2. CASE j # k
    BY <1>4, <1>5, <2>2 DEF PoolIsAnswerMinusFailed, TypeOK
  <2> QED
    BY <2>1, <2>2
<1>9. RoutedWithinRules'
  BY <1>2, SentinelsAssumption DEF RoutedWithinRules, TypeOK
<1>10. SharersAgree' /\ OnlyDiscoverersAsk' /\ IdleMeansNowhere'
  BY <1>2 DEF SharersAgree, OnlyDiscoverersAsk, IdleMeansNowhere, TypeOK
<1>11. PoolsAdmitted'
  <2> SUFFICES ASSUME NEW d \in Clients, heavy'[cell[d]].kind = "Pool"
               PROVE  heavy'[cell[d]].hosts \subseteq Admits[rules[d]]
    BY <1>2 DEF PoolsAdmitted, Mine
  <2>1. cell[d] \in Cells
    BY TimesAssumption DEF TypeOK, Cells
  <2> QED
    BY <1>3, <1>4, <2>1 DEF PoolsAdmitted, Mine
<1>12. FreshCells'
  BY <1>1, <1>2, <1>4 DEF FreshCells, Cells
<1> QED
  BY <1>6, <1>7, <1>8, <1>9, <1>10, <1>11, <1>12

\* A builder gives its client a HeavyProxy that nobody shares; a clone shares
\* the rules along with the value.
LEMMA BuilderInv ==
  ASSUME IInv, NEW c \in Clients, BuilderStep(c)
  PROVE  IInv'
<1> USE DEF IInv
<1>1. /\ UNCHANGED <<heavy, listed, failed, phase, dest, lock, since, healthy>>
      /\ made' \in {made, made + 1} /\ made' \in Cells /\ made \in Nat
  BY TimesAssumption
  DEF BuilderStep, SetRules, SetProxyDiscovery, Clone, ForgetHeavy, cellVars, callVars,
      TypeOK, Cells
<1>2. (PoolNeverEmpty /\ PoolIsAnswerMinusFailed /\ FreshCells /\ IdleMeansNowhere)'
  BY <1>1 DEF PoolNeverEmpty, PoolIsAnswerMinusFailed, FreshCells, IdleMeansNowhere, Cells
<1>3. ASSUME NEW d \in Clients, NEW r \in Rules, NEW b \in BOOLEAN, phase[d] = "idle",
             rules' = [rules EXCEPT ![d] = r], discovery' = [discovery EXCEPT ![d] = b],
             ForgetHeavy(d)
      PROVE  IInv'
  <2>1. /\ made < MaxCells /\ made' = made + 1 /\ cell' = [cell EXCEPT ![d] = made + 1]
        /\ made + 1 \in Cells /\ made + 1 > made
    BY <1>3, TimesAssumption DEF ForgetHeavy, TypeOK, Cells
  <2>2. discovery' \in [Clients -> BOOLEAN]
    BY <1>3, Zenon DEF TypeOK
  <2>3. cell' \in [Clients -> 1..made']
    BY <2>1, TimesAssumption DEF TypeOK, Cells
  <2>4. TypeOK'
    BY <1>1, <1>3, <2>2, <2>3 DEF TypeOK
  <2>5. \A e \in Clients \ {d} : cell'[e] = cell[e] /\ cell'[e] # made + 1
                                /\ rules'[e] = rules[e] /\ discovery'[e] = discovery[e]
    BY <1>3, <2>1 DEF TypeOK, Cells
  <2>6. cell'[d] = made + 1
    BY <2>1 DEF TypeOK
  <2>7. SharersAgree'
    BY <2>5, <2>6 DEF SharersAgree
  <2>8. heavy'[made + 1].kind # "Pool"
    BY <1>1, <2>1 DEF FreshCells, Unasked, State
  <2>9. PoolsAdmitted'
    BY <1>1, <2>5, <2>6, <2>8 DEF PoolsAdmitted, Mine
  <2>10. RoutedWithinRules'
    BY <1>1, <1>3, <2>5, SentinelsAssumption DEF RoutedWithinRules, IdleMeansNowhere
  <2>11. OnlyDiscoverersAsk'
    BY <1>1, <1>3, <2>5 DEF OnlyDiscoverersAsk
  <2> QED
    BY <1>2, <2>4, <2>7, <2>9, <2>10, <2>11
<1>4. CASE \E r \in Rules : SetRules(c, r)
  <2>1. PICK r \in Rules : SetRules(c, r)
    BY <1>4
  <2>2. discovery' = [discovery EXCEPT ![c] = discovery[c]] /\ discovery[c] \in BOOLEAN
    BY <2>1 DEF SetRules, TypeOK
  <2> QED
    BY <1>3, <2>1, <2>2 DEF SetRules
<1>5. CASE \E enabled \in BOOLEAN : SetProxyDiscovery(c, enabled)
  <2>1. PICK b \in BOOLEAN : SetProxyDiscovery(c, b)
    BY <1>5
  <2>2. rules' = [rules EXCEPT ![c] = rules[c]] /\ rules[c] \in Rules
    BY <2>1 DEF SetProxyDiscovery, TypeOK
  <2> QED
    BY <1>3, <2>1, <2>2 DEF SetProxyDiscovery
<1>6. CASE \E d \in Clients \ {c} : Clone(c, d)
  <2>1. PICK d \in Clients \ {c} : Clone(c, d)
    BY <1>6
  <2>2. /\ rules' = [rules EXCEPT ![d] = rules[c]] /\ cell' = [cell EXCEPT ![d] = cell[c]]
        /\ discovery' = [discovery EXCEPT ![d] = discovery[c]] /\ made' = made
        /\ phase[d] = "idle"
    BY <2>1 DEF Clone
  <2>3. discovery' \in [Clients -> BOOLEAN]
    BY <2>2, Zenon DEF TypeOK
  <2>4. TypeOK'
    BY <1>1, <2>2, <2>3 DEF TypeOK
  <2>5. /\ cell'[d] = cell[c] /\ rules'[d] = rules[c] /\ discovery'[d] = discovery[c]
        /\ \A e \in Clients \ {d} : /\ cell'[e] = cell[e] /\ rules'[e] = rules[e]
                                     /\ discovery'[e] = discovery[e]
    BY <2>2 DEF TypeOK
  <2>6. SharersAgree'
    BY <2>5 DEF SharersAgree
  <2>7. PoolsAdmitted'
    BY <1>1, <2>5 DEF PoolsAdmitted, Mine
  <2>8. RoutedWithinRules' /\ OnlyDiscoverersAsk'
    BY <1>1, <2>2, <2>5, SentinelsAssumption
    DEF RoutedWithinRules, OnlyDiscoverersAsk, IdleMeansNowhere
  <2> QED
    BY <1>2, <2>4, <2>6, <2>7, <2>8
<1> QED
  BY <1>4, <1>5, <1>6 DEF BuilderStep

\* The steps that move one command and leave every HeavyProxy alone.
LEMMA MovesInv ==
  ASSUME IInv, NEW c \in Clients,
         RouteUndiscovered(c) \/ Route(c) \/ BeginLookup(c) \/ Finish(c)
  PROVE  IInv'
<1> USE DEF IInv
<1>1. UNCHANGED <<rules, discovery, cell, made, heavy, listed, failed, since, healthy>>
  BY DEF RouteUndiscovered, Route, BeginLookup, Finish, clientVars, cellVars
<1>2. (PoolNeverEmpty /\ PoolIsAnswerMinusFailed /\ SharersAgree /\ PoolsAdmitted /\ FreshCells)'
  BY <1>1 DEF PoolNeverEmpty, PoolIsAnswerMinusFailed, SharersAgree, PoolsAdmitted, FreshCells, Mine
<1>3. cell[c] \in Cells /\ Mine(c) \in States
  BY TimesAssumption DEF TypeOK, Cells, Mine
<1>4. discovery' \in [Clients -> BOOLEAN] /\ healthy' \in BOOLEAN
  BY <1>1, Zenon DEF TypeOK
<1>5. CASE BeginLookup(c)
  <2>1. /\ phase' = [phase EXCEPT ![c] = "asking"] /\ lock' = [lock EXCEPT ![cell[c]] = c]
        /\ dest' = dest /\ discovery[c] /\ phase[c] = "idle"
    BY <1>5 DEF BeginLookup
  <2>2. TypeOK'
    BY <1>1, <1>3, <1>4, <2>1 DEF TypeOK
  <2>3. (RoutedWithinRules /\ OnlyDiscoverersAsk /\ IdleMeansNowhere)'
    BY <1>1, <2>1 DEF RoutedWithinRules, OnlyDiscoverersAsk, IdleMeansNowhere, TypeOK
  <2> QED
    BY <1>2, <2>2, <2>3
<1>6. CASE Finish(c)
  <2>1. /\ phase' = [phase EXCEPT ![c] = "idle"] /\ dest' = [dest EXCEPT ![c] = NoHost]
        /\ lock' = lock
    BY <1>6 DEF Finish, Return
  <2>2. TypeOK'
    BY <1>1, <1>4, <2>1 DEF TypeOK
  <2>3. (RoutedWithinRules /\ OnlyDiscoverersAsk /\ IdleMeansNowhere)'
    BY <1>1, <2>1, SentinelsAssumption
    DEF RoutedWithinRules, OnlyDiscoverersAsk, IdleMeansNowhere, TypeOK
  <2> QED
    BY <1>2, <2>2, <2>3
<1>7. CASE RouteUndiscovered(c) \/ Route(c)
  <2>1. PICK h \in Hosts \cup {Base} :
          /\ phase' = [phase EXCEPT ![c] = "sent"] /\ dest' = [dest EXCEPT ![c] = h]
          /\ lock' = lock
          /\ h \in Hosts => discovery[c] /\ h \in Admits[rules[c]]
    <3>1. CASE RouteUndiscovered(c)
      BY <3>1, SentinelsAssumption DEF RouteUndiscovered, SendTo
    <3>2. CASE Route(c)
      <4>1. PICK h \in Picks(Mine(c)) : SendTo(c, h)
        BY <3>2 DEF Route
      <4>2. h \in Hosts \cup {Base} /\ (h \in Hosts => h \in Admits[rules[c]])
        <5>1. CASE Mine(c).kind = "Pool"
          BY <1>3, <4>1, <5>1 DEF Picks, States, PoolsAdmitted
        <5>2. CASE Mine(c).kind # "Pool"
          BY <4>1, <5>2, SentinelsAssumption DEF Picks
        <5> QED
          BY <5>1, <5>2
      <4> QED
        BY <3>2, <4>1, <4>2 DEF SendTo, Route
    <3> QED
      BY <1>7, <3>1, <3>2
  <2>2. TypeOK'
    BY <1>1, <1>4, <2>1 DEF TypeOK
  <2>3. RoutedWithinRules'
    BY <1>1, <2>1 DEF RoutedWithinRules, TypeOK
  <2>4. (OnlyDiscoverersAsk /\ IdleMeansNowhere)'
    BY <1>1, <2>1 DEF OnlyDiscoverersAsk, IdleMeansNowhere, TypeOK
  <2> QED
    BY <1>2, <2>2, <2>3, <2>4
<1> QED
  BY <1>5, <1>6, <1>7

\* Time changes no host, kind or route.
LEMMA TickInv == IInv /\ Tick => IInv'
<1> SUFFICES ASSUME IInv, Tick PROVE IInv'
  OBVIOUS
<1> USE DEF IInv
<1>1. UNCHANGED <<rules, discovery, cell, made, phase, dest, listed, failed, lock, healthy>>
  BY DEF Tick, clientVars, callVars
<1>2. \A n \in 0..MaxAge : Aged(n) \in 0..MaxAge
  BY TimesAssumption DEF Aged
<1>3. since' \in [Cells -> 0..MaxAge]
  BY <1>2 DEF Tick, TypeOK
<1>4. ASSUME NEW k \in Cells
      PROVE  /\ heavy'[k] \in States
             /\ heavy'[k].kind = heavy[k].kind /\ heavy'[k].hosts = heavy[k].hosts
             /\ heavy[k] = Unasked => heavy'[k] = Unasked
  <2>1. heavy[k] \in States
    BY DEF TypeOK
  <2> DEFINE n == CASE heavy[k].kind = "Unasked" -> 0
                    [] heavy[k].kind = "FellBack" ->
                         IF heavy[k].clock > 0 THEN heavy[k].clock - 1 ELSE 0
                    [] OTHER -> Aged(heavy[k].clock)
  <2>2. heavy'[k] = [heavy[k] EXCEPT !.clock = n]
    BY <2>1 DEF Tick, States
  <2>3. n \in 0..MaxAge
    BY <1>2, <2>1, TimesAssumption DEF States
  <2>4. heavy[k] = Unasked => n = 0
    BY DEF Unasked, State
  <2> HIDE DEF n
  <2> QED
    BY <2>1, <2>2, <2>3, <2>4 DEF States, Unasked, State
<1>5. heavy' \in [Cells -> States]
  <2>1. heavy' = [k \in Cells |-> heavy'[k]]
    BY DEF Tick
  <2> QED
    BY <1>4, <2>1
<1>6. discovery' \in [Clients -> BOOLEAN] /\ healthy' \in BOOLEAN
  BY <1>1, Zenon DEF TypeOK
<1>7. TypeOK'
  BY <1>1, <1>3, <1>5, <1>6 DEF TypeOK
<1>8. \A c \in Clients : cell[c] \in Cells
  BY TimesAssumption DEF TypeOK, Cells
<1>9. (PoolNeverEmpty /\ PoolIsAnswerMinusFailed /\ FreshCells)'
  BY <1>1, <1>4 DEF PoolNeverEmpty, PoolIsAnswerMinusFailed, FreshCells
<1>10. PoolsAdmitted'
  BY <1>1, <1>4, <1>8 DEF PoolsAdmitted, Mine
<1>11. (SharersAgree /\ RoutedWithinRules /\ OnlyDiscoverersAsk /\ IdleMeansNowhere)'
  BY <1>1 DEF SharersAgree, RoutedWithinRules, OnlyDiscoverersAsk, IdleMeansNowhere
<1> QED
  BY <1>7, <1>9, <1>10, <1>11

\* The invariant is inductive.
LEMMA Inductive == RoutingSpec => []IInv
<1>1. IInv /\ [RoutingNext]_routingVars => IInv'
  <2> SUFFICES ASSUME IInv, [RoutingNext]_routingVars PROVE IInv'
    OBVIOUS
  <2>1. ASSUME NEW c \in Clients, CommandStep(c) PROVE IInv'
    BY <2>1, MovesInv, AnswerInv, FailureInv, DropInv DEF CommandStep
  <2>2. ASSUME NEW c \in Clients, BuilderStep(c) PROVE IInv'
    BY <2>2, BuilderInv
  <2>3. CASE Tick
    BY <2>3, TickInv
  <2>4. CASE Heal \/ UNCHANGED routingVars
    <3>1. UNCHANGED <<clientVars, callVars, cellVars, lock, since>> /\ healthy' \in BOOLEAN
      <4>1. CASE Heal
        BY <4>1 DEF Heal
      <4>2. CASE UNCHANGED routingVars
        BY <4>2 DEF routingVars, IInv, TypeOK
      <4> QED
        BY <2>4, <4>1, <4>2
    <3>2. TypeOK'
      BY <3>1 DEF IInv, TypeOK, clientVars, callVars, cellVars
    <3> QED
      BY <3>1, <3>2
      DEF IInv, PoolNeverEmpty, PoolIsAnswerMinusFailed, RoutedWithinRules, SharersAgree,
          PoolsAdmitted, FreshCells, OnlyDiscoverersAsk, IdleMeansNowhere, Mine,
          clientVars, callVars, cellVars
  <2> QED
    BY <2>1, <2>2, <2>3, <2>4 DEF RoutingNext
<1> QED
  BY <1>1, InitInv, PTL DEF RoutingSpec

-----------------------------------------------------------------------------
\* Every variable of the routing state keeps its type.
THEOREM RoutingTypeCorrect == RoutingSpec => []TypeOK
<1>1. IInv => TypeOK
  BY DEF IInv
<1> QED
  BY <1>1, Inductive, PTL

\* `pick` never finds an empty pool, whatever the interleaving of lookups,
\* refreshes and failures.
THEOREM PickNeverPanics == RoutingSpec => []PoolNeverEmpty
<1>1. IInv => PoolNeverEmpty
  BY DEF IInv
<1> QED
  BY <1>1, Inductive, PTL

\* A pool is the last usable answer minus the hosts that failed since.
THEOREM DropsAreExact == RoutingSpec => []PoolIsAnswerMinusFailed
<1>1. IInv => PoolIsAnswerMinusFailed
  BY DEF IInv
<1> QED
  BY <1>1, Inductive, PTL

\* No heavy command goes to a host its own client's rules refuse, although the
\* pool it is picked from is shared with clones.
THEOREM RulesAreKept == RoutingSpec => []RoutedWithinRules
<1>1. IInv => RoutedWithinRules
  BY DEF IInv
<1> QED
  BY <1>1, Inductive, PTL

-----------------------------------------------------------------------------
(***************************************************************************)
(* How often /hosts is asked.  The clock a HeavyProxy keeps never runs     *)
(* ahead of the time since its last lookup: a pool that is kept, a pool    *)
(* that loses a host and a fallback all set it, and an emptied pool starts *)
(* a wait of its own.                                                      *)
(***************************************************************************)
ClockSound(s, n) ==
  /\ s.kind = "Unasked" => n = MaxAge
  /\ s.kind \in {"Pool", "Configured"} => s.clock <= n
  /\ s.kind = "FellBack" => s.clock + n >= RetryAfter

ClocksSound == \A k \in Cells : ClockSound(heavy[k], since[k])

\* What a lookup leaves was set by that lookup.
LEMMA ResolveClocks ==
  ASSUME IInv, ClocksSound, NEW c \in Clients, NEW s \in States, Resolve(c, s),
         s.kind # "Unasked", s.kind \in {"Pool", "Configured"} => s.clock = 0,
         s.kind = "FellBack" => s.clock = RetryAfter
  PROVE  ClocksSound'
<1>1. cell[c] \in Cells
  BY TimesAssumption DEF IInv, TypeOK, Cells
<1>2. \A k \in Cells : /\ heavy'[k] = IF k = cell[c] THEN s ELSE heavy[k]
                       /\ since'[k] = IF k = cell[c] THEN 0 ELSE since[k]
  BY <1>1 DEF IInv, TypeOK, Resolve
<1>3. ClockSound(s, 0)
  BY TimesAssumption DEF ClockSound
<1> QED
  BY <1>2, <1>3 DEF ClocksSound

\* A host that is dropped leaves the pool its clock, or a fallback with a wait.
LEMMA DropClocks ==
  ASSUME IInv, ClocksSound, NEW c \in Clients, FailAtHost(c)
  PROVE  ClocksSound'
<1> DEFINE k == cell[c]
<1>1. k \in Cells /\ heavy[k] \in States /\ since[k] \in Nat
  BY TimesAssumption DEF IInv, TypeOK, Cells
<1>2. /\ heavy' = [heavy EXCEPT ![k] = Without(heavy[k], dest[c])] /\ since' = since
  BY DEF FailAtHost
<1>3. ClockSound(heavy[k], since[k])
  BY <1>1 DEF ClocksSound
<1>4. ClockSound(Without(heavy[k], dest[c]), since[k])
  BY <1>1, <1>3, TimesAssumption DEF ClockSound, Without, FellBack, State, States
<1> QED
  BY <1>1, <1>2, <1>4 DEF ClocksSound, IInv, TypeOK

\* Time makes the answer and the lookup older alike, and a wait shorter.
LEMMA TickClocks == IInv /\ ClocksSound /\ Tick => ClocksSound'
<1> SUFFICES ASSUME IInv, ClocksSound, Tick, NEW k \in Cells
             PROVE  ClockSound(heavy[k], since[k])'
  BY DEF ClocksSound
<1>1. heavy[k] \in States /\ since[k] \in 0..MaxAge /\ ClockSound(heavy[k], since[k])
  BY DEF IInv, TypeOK, ClocksSound
<1> DEFINE n == CASE heavy[k].kind = "Unasked" -> 0
                  [] heavy[k].kind = "FellBack" ->
                       IF heavy[k].clock > 0 THEN heavy[k].clock - 1 ELSE 0
                  [] OTHER -> Aged(heavy[k].clock)
<1>2. heavy'[k] = [heavy[k] EXCEPT !.clock = n] /\ since'[k] = Aged(since[k])
  BY <1>1 DEF Tick, States
<1>3. /\ heavy'[k].kind = heavy[k].kind /\ heavy'[k].clock = n
      /\ heavy[k].clock \in 0..MaxAge
      /\ heavy[k].kind \in {"Unasked", "Pool", "Configured", "FellBack"}
  BY <1>1, <1>2 DEF States
<1>4. CASE heavy[k].kind = "Unasked"
  BY <1>1, <1>2, <1>3, <1>4, TimesAssumption DEF ClockSound, Aged
<1>5. CASE heavy[k].kind \in {"Pool", "Configured"}
  BY <1>1, <1>2, <1>3, <1>5, TimesAssumption DEF ClockSound, Aged
<1>6. CASE heavy[k].kind = "FellBack"
  BY <1>1, <1>2, <1>3, <1>6, TimesAssumption DEF ClockSound, Aged
<1> QED
  BY <1>3, <1>4, <1>5, <1>6

\* No step makes a HeavyProxy look older than its last lookup.
LEMMA ClocksInductive == RoutingSpec => []ClocksSound
<1>1. RoutingInit => ClocksSound
  BY DEF RoutingInit, ClocksSound, ClockSound, Unasked, State
<1>2. IInv /\ ClocksSound /\ [RoutingNext]_routingVars => ClocksSound'
  <2> SUFFICES ASSUME IInv, ClocksSound, [RoutingNext]_routingVars PROVE ClocksSound'
    OBVIOUS
  <2>1. ASSUME NEW c \in Clients, CommandStep(c) PROVE ClocksSound'
    <3>1. cell[c] \in Cells /\ Mine(c) \in States
      BY TimesAssumption DEF IInv, TypeOK, Cells, Mine
    <3>2. CASE RouteUndiscovered(c) \/ Route(c) \/ BeginLookup(c) \/ Finish(c)
      BY <3>2
      DEF RouteUndiscovered, Route, BeginLookup, Finish, cellVars, ClocksSound
    <3>3. ASSUME NEW answer \in SUBSET Hosts, LookupAnswers(c, answer) PROVE ClocksSound'
      <4> DEFINE usable == answer \cap Admits[rules[c]]
                 s == IF usable # {} THEN Pool(usable)
                      ELSE IF Mine(c).kind = "Pool" THEN Kept(c) ELSE Configured
      <4>1. Resolve(c, s)
        BY <3>3 DEF LookupAnswers
      <4>2. /\ s \in States /\ s.kind # "Unasked" /\ s.clock = 0
            /\ s.kind # "FellBack"
        BY <3>1, StatesOK, TimesAssumption DEF Kept, States, Configured, Pool, State
      <4> HIDE DEF s
      <4> QED
        BY <4>1, <4>2, ResolveClocks
    <3>4. ASSUME NEW soon \in BOOLEAN, LookupFails(c, soon) PROVE ClocksSound'
      <4> DEFINE s == CASE Mine(c).kind = "Pool" -> Kept(c)
                        [] OTHER -> IF soon THEN FellBack ELSE Configured
      <4>1. Resolve(c, s)
        BY <3>4 DEF LookupFails
      <4>2. /\ s \in States /\ s.kind # "Unasked"
            /\ s.kind \in {"Pool", "Configured"} => s.clock = 0
            /\ s.kind = "FellBack" => s.clock = RetryAfter
        BY <3>1, StatesOK, TimesAssumption DEF Kept, States, Configured, FellBack, State
      <4> HIDE DEF s
      <4> QED
        BY <4>1, <4>2, ResolveClocks
    <3> QED
      BY <2>1, <3>2, <3>3, <3>4, DropClocks DEF CommandStep
  <2>2. ASSUME NEW c \in Clients, BuilderStep(c) PROVE ClocksSound'
    BY <2>2
    DEF BuilderStep, SetRules, SetProxyDiscovery, Clone, ForgetHeavy, cellVars, ClocksSound
  <2>3. CASE Tick
    BY <2>3, TickClocks
  <2>4. CASE Heal \/ UNCHANGED routingVars
    BY <2>4 DEF Heal, routingVars, cellVars, ClocksSound
  <2> QED
    BY <2>1, <2>2, <2>3, <2>4 DEF RoutingNext
<1> QED
  BY <1>1, <1>2, Inductive, PTL DEF RoutingSpec

\* /hosts is not asked again for a HeavyProxy before the shorter of the two
\* intervals has passed, however lookups, failures and builders interleave.
THEOREM LookupsAreRateLimited == RoutingSpec => LookupsAreSpaced
<1> DEFINE Spaced == \A c \in Clients : phase[c] = "idle" /\ phase'[c] = "asking" =>
                       since[cell[c]] >= (IF Refresh[c] < RetryAfter THEN Refresh[c] ELSE RetryAfter)
<1>1. IInv /\ ClocksSound /\ [RoutingNext]_routingVars => [Spaced]_routingVars
  <2> SUFFICES ASSUME IInv, ClocksSound, RoutingNext,
                      NEW c \in Clients, phase[c] = "idle", phase'[c] = "asking"
               PROVE  since[cell[c]] >= (IF Refresh[c] < RetryAfter THEN Refresh[c] ELSE RetryAfter)
    OBVIOUS
  <2>1. BeginLookup(c)
    <3>1. phase \in [Clients -> {"idle", "asking", "sent"}]
      BY DEF IInv, TypeOK
    <3>2. PICK d \in Clients : CommandStep(d)
      BY <3>1 DEF RoutingNext, BuilderStep, SetRules, SetProxyDiscovery, Clone, Tick, Heal, callVars
    <3> QED
      BY <3>1, <3>2
      DEF CommandStep, RouteUndiscovered, Route, BeginLookup, LookupAnswers, LookupFails, Finish,
          FailAtHost, Resolve, SendTo, Return
  <2>2. Stale(c)
    BY <2>1 DEF BeginLookup
  <2>3. cell[c] \in Cells /\ Mine(c) \in States /\ since[cell[c]] \in 0..MaxAge
    BY TimesAssumption DEF IInv, TypeOK, Cells, Mine
  <2>4. ClockSound(Mine(c), since[cell[c]])
    BY <2>3 DEF ClocksSound, Mine
  <2>5. Refresh[c] \in 1..MaxAge
    BY TimesAssumption
  <2>6. /\ Mine(c).kind \in {"Unasked", "Pool", "Configured", "FellBack"}
        /\ Mine(c).clock \in 0..MaxAge
    BY <2>3 DEF States
  <2>7. CASE Mine(c).kind = "Unasked"
    BY <2>4, <2>5, <2>7, TimesAssumption DEF ClockSound
  <2>8. CASE Mine(c).kind \in {"Pool", "Configured"}
    <3>1. Mine(c).clock >= Refresh[c]
      BY <2>2, <2>8 DEF Stale
    <3> QED
      BY <2>3, <2>4, <2>5, <2>6, <2>8, <3>1, TimesAssumption DEF ClockSound
  <2>9. CASE Mine(c).kind = "FellBack"
    <3>1. Mine(c).clock = 0
      BY <2>2, <2>9 DEF Stale
    <3> QED
      BY <2>3, <2>4, <2>5, <2>6, <2>9, <3>1, TimesAssumption DEF ClockSound
  <2> QED
    BY <2>6, <2>7, <2>8, <2>9
<1> QED
  BY <1>1, Inductive, ClocksInductive, PTL DEF RoutingSpec, LookupsAreSpaced
=============================================================================
