------------------------------ MODULE MCRetries ------------------------------
(* What is repeated and pinged so that nothing is done twice or lost, for TLC: *)
(* transactions, the times of their keep-alive, and batches.  A behaviour      *)
(* follows one of them while the others rest.                                  *)
EXTENDS Transaction, KeepAliveTiming, Batch

CONSTANTS s, a

VARIABLE part

Resting(p) ==
  /\ p # "transaction" => Init
  /\ p # "timing" =>
       /\ starter = "starting" /\ took = 0 /\ reached = FALSE /\ ago = 0
       /\ txOpen = "no" /\ clock = 0
       /\ pinger = "none" /\ pingWait = 0 /\ elapsed = 0 /\ fate = "good"
       /\ pingApplied = FALSE /\ missed = 0
  /\ p # "batch" =>
       /\ batch = <<>> /\ size = 1 /\ given = FALSE /\ batchPhase = "done" /\ chunk = 0
       /\ tries = 0 /\ reply = <<>> /\ sent = {} /\ knownIds = {} /\ partApplied = <<>>
       /\ results = <<>> /\ outcome = NoOutcome

Only(p) ==
  /\ part = p
  /\ UNCHANGED part
  /\ p # "transaction" => UNCHANGED vars
  /\ p # "timing" => UNCHANGED timingVars
  /\ p # "batch" => UNCHANGED batchVars

MCInit ==
  \/ part = "transaction" /\ Init /\ Resting("transaction")
  \/ part = "timing" /\ TimingInit /\ Resting("timing")
  \/ part = "batch" /\ BatchInit /\ Resting("batch")

MCNext ==
  \/ Only("transaction") /\ Next
  \/ Only("timing") /\ TimingNext
  \/ Only("batch") /\ BatchNext

MCSpec == MCInit /\ [][MCNext]_<<part, vars, timingVars, batchVars>>

\* Batches of up to three parts, of the kinds that are told apart.
PartKinds == {PartCreate, PartGet, PartRaw("Freely"), PartRaw("Never")}
MCBatches ==
  {<<>>, <<PartRemove>>} \cup UNION {[1..n -> PartKinds] : n \in 1..2}
         \cup {<<PartCreate, PartRaw("Never"), PartCreate>>, <<PartCreate, PartCreate, PartGet>>,
               <<PartRaw("Freely"), PartCreate, PartRaw("Never")>>}
=============================================================================
