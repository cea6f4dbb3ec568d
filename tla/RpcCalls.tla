------------------------------ MODULE RpcCalls ------------------------------
(***************************************************************************)
(* What a connection promises its callers, with no queue, task, permit or  *)
(* lock in sight.  A call is opened once and finished once.  Its request   *)
(* reaches the proxy at most once, and only after it was opened (it may    *)
(* still arrive after the caller has given up).  "answer" is only reported *)
(* for a request that the proxy received, "closed" only on a connection    *)
(* that is lost.                                                           *)
(***************************************************************************)
CONSTANT Ids

VARIABLES
  open,      \* calls under way
  outcome,   \* how each call ended, "none" before that
  accepted,  \* requests that reached the proxy
  lost       \* the connection has failed

vars == <<open, outcome, accepted, lost>>

Init ==
  /\ open = {}
  /\ outcome = [i \in Ids |-> "none"]
  /\ accepted = {}
  /\ lost = FALSE

Opened(id) == id \in open \/ outcome[id] # "none"

Open(id) ==
  /\ ~Opened(id)
  /\ open' = open \cup {id}
  /\ UNCHANGED <<outcome, accepted, lost>>

Accept(id) ==
  /\ Opened(id)
  /\ id \notin accepted
  /\ accepted' = accepted \cup {id}
  /\ UNCHANGED <<open, outcome, lost>>

Finish(id, o) ==
  /\ id \in open
  /\ o = "answer" => id \in accepted
  /\ o = "closed" => lost
  /\ open' = open \ {id}
  /\ outcome' = [outcome EXCEPT ![id] = o]
  /\ UNCHANGED <<accepted, lost>>

Lose ==
  /\ lost' = TRUE
  /\ UNCHANGED <<open, outcome, accepted>>

Next ==
  \/ Lose
  \/ \E id \in Ids :
       \/ Open(id)
       \/ Accept(id)
       \/ \E o \in {"answer", "closed", "timeout", "dropped"} : Finish(id, o)

Spec == Init /\ [][Next]_vars
=============================================================================
