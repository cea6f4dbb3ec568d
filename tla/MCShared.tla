------------------------------ MODULE MCShared ------------------------------
(* What threads and clones of one client share, for TLC, with the scheduling   *)
(* that the progress they make depends on: a transaction and its keep-alive    *)
(* thread, or the routing of heavy commands.  A behaviour follows one of them  *)
(* while the other rests.                                                      *)
EXTENDS Transaction, HeavyRouting

CONSTANTS s, c1, c2, near, far

VARIABLE part

\* Two hosts, one of which only the wider rule lets a client use, and two clones
\* with intervals of their own.
MCAdmits == [r \in {"SameDomain", "Anywhere"} |->
               IF r = "SameDomain" THEN {near} ELSE {near, far}]
MCRefresh == [c \in Clients |-> IF c = c1 THEN 2 ELSE 3]

MCInit == part \in {"transaction", "routing"} /\ Init /\ RoutingInit

Only(p) ==
  /\ part = p /\ UNCHANGED part
  /\ p # "transaction" => UNCHANGED vars
  /\ p # "routing" => UNCHANGED routingVars

MCNext ==
  \/ Only("transaction") /\ Next
  \/ Only("routing") /\ RoutingNext

\* Fairness and RoutingFairness, each for its part.
MCSpec ==
  /\ MCInit /\ [][MCNext]_<<part, vars, routingVars>>
  /\ \A h \in Handles :
       /\ WF_vars(part = "transaction" /\ (AttemptFails(h) \/ HandleReturns(h)))
       /\ WF_vars(part = "transaction" /\ ThreadStep(h))
  /\ \A t \in Txs : WF_vars(part = "transaction" /\ ~Pinged(t) /\ Expire(t))
  /\ WF_routingVars(part = "routing" /\ Tick)
  /\ \A c \in Clients :
       /\ SF_routingVars(part = "routing" /\ (RouteUndiscovered(c) \/ Route(c) \/ BeginLookup(c)))
       /\ WF_routingVars(part = "routing" /\ \E answer \in SUBSET Hosts : LookupAnswers(c, answer))
       /\ WF_routingVars(part = "routing" /\ Finish(c))
=============================================================================
