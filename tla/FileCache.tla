------------------------------ MODULE FileCache ------------------------------
(***************************************************************************)
(* Launchers that send the same worker to the cluster at the same time:    *)
(* upload_worker_cached, upload_into_cache, upload_uncached,               *)
(* upload_executable and refused_or_reported of                            *)
(* crates/ytsaurus-client/src/lib.rs.                                      *)
(*                                                                         *)
(* A launcher looks the worker up by its hash, and otherwise stages it     *)
(* inside the cache, hands it over and clears the staging node; where the  *)
(* cluster denies it the cache it uploads outside.  Every request may      *)
(* fail, with or without having been carried out, and a launcher may die   *)
(* between any two.                                                        *)
(*                                                                         *)
(* The cluster is external: it takes a file into the cache only whole,     *)
(* with its attributes or without, keeps or replaces one it has, and drops *)
(* it when it pleases.                                                     *)
(***************************************************************************)
CONSTANTS
  Launchers,
  Absent     \* no node, no answer

ASSUME AbsentAssumption ==
  /\ Absent \notin [whole : BOOLEAN, executable : BOOLEAN]
  /\ Absent \notin {"denied", "dropped", "unanswered", "reported"}
  /\ Absent \notin {"found", "cached", "uncached", "error"}

VARIABLES
  at,      \* where each launcher is
  staged,  \* the staging nodes, by name
  loose,   \* the nodes outside the cache, by name
  cache,   \* the file cached under the hash
  handed,  \* history: who handed it over, and whether its mark survived that
  refused, \* the error kept while the staging node is removed
  failed,  \* history: the requests of each launcher that failed, and how
  worker   \* what each launcher returned: a worker "found" in the cache, "cached" by
           \* it or "uncached", or an "error"

cacheVars == <<cache, handed>>
fileVars  == <<at, staged, loose, cacheVars, refused, failed, worker>>

Node(whole, executable) == [whole |-> whole, executable |-> executable]

\* Mutant: the staging node is named after the hash alone.
StagingShared(l) == CHOOSE m \in Launchers : TRUE
\* Both names carry a nonce.
Staging(l) == l
Loose(l)   == l

FilesInit ==
  /\ at = [l \in Launchers |-> "lookup"]
  /\ staged = [l \in Launchers |-> Absent]
  /\ loose = [l \in Launchers |-> Absent]
  /\ cache = Absent /\ handed = Absent
  /\ refused = [l \in Launchers |-> Absent]
  /\ failed = [l \in Launchers |-> {}]
  /\ worker = [l \in Launchers |-> Absent]

Goto(l, step) == at' = [at EXCEPT ![l] = step]
Keep(l, error) == refused' = [refused EXCEPT ![l] = error]
Blame(l, request, why) == failed' = [failed EXCEPT ![l] = @ \cup {<<request, why>>}]

Return(l, result) ==
  /\ Goto(l, "done")
  /\ worker' = [worker EXCEPT ![l] = result]

\* How a request may fail: denied, not carried out, or carried out unanswered.
Reasons == {"denied", "dropped", "unanswered"}

\* file_from_cache.
Lookup(l) ==
  /\ at[l] = "lookup"
  /\ \/ cache # Absent /\ Return(l, "found") /\ UNCHANGED failed
     \/ cache = Absent /\ Goto(l, "mkdir") /\ UNCHANGED <<worker, failed>>
     \/ \E why \in Reasons : Blame(l, "lookup", why) /\ Return(l, "error")
  /\ UNCHANGED <<staged, loose, cacheVars, refused>>

\* refused_or_reported and the last match of upload_into_cache: a denial of one
\* of the three writes to the cache, and nothing else.
Denied(request, why) == why = "denied" /\ request \in {"mkdir", "stage", "put"}

\* A create in the cache directory fails.
CreateFails(l, request, why) ==
  /\ Blame(l, request, why)
  /\ IF Denied(request, why)
     THEN Goto(l, "create") /\ UNCHANGED worker
     ELSE Return(l, "error")

\* create("map_node"): the directory itself is not told apart.
Mkdir(l) ==
  /\ at[l] = "mkdir"
  /\ \/ Goto(l, "stage") /\ UNCHANGED <<failed, worker>>
     \/ \E why \in Reasons : CreateFails(l, "mkdir", why)
  /\ UNCHANGED <<staged, loose, cacheVars, refused>>

\* A create leaves a node that is there alone.
Made(node) == IF node = Absent THEN Node(FALSE, FALSE) ELSE node

Stage(l) ==
  /\ at[l] = "stage"
  /\ \/ /\ staged' = [staged EXCEPT ![Staging(l)] = Made(@)]
        /\ \/ Goto(l, "write") /\ UNCHANGED <<failed, worker>>
           \/ CreateFails(l, "stage", "unanswered")
     \/ \E why \in Reasons \ {"unanswered"} : CreateFails(l, "stage", why) /\ UNCHANGED staged
  /\ UNCHANGED <<loose, cacheVars, refused>>

\* One request on the staging node, `change` being what it does to it.  After a
\* failure the node is removed, and the failure reported.
OnStaged(l, request, change, next) ==
  /\ \/ /\ staged[Staging(l)] # Absent
        /\ staged' = [staged EXCEPT ![Staging(l)] = change]
        /\ \/ Goto(l, next) /\ UNCHANGED <<failed, refused>>
           \/ Goto(l, "remove") /\ Blame(l, request, "unanswered") /\ Keep(l, "unanswered")
     \/ \E why \in Reasons \ {"unanswered"} :
          Goto(l, "remove") /\ Blame(l, request, why) /\ Keep(l, "reported") /\ UNCHANGED staged
  /\ UNCHANGED <<loose, cacheVars, worker>>

Write(l) ==
  at[l] = "write" /\ OnStaged(l, "write", [staged[Staging(l)] EXCEPT !.whole = TRUE], "mark")

\* set_attribute("executable").
Mark(l) ==
  at[l] = "mark" /\ OnStaged(l, "mark", [staged[Staging(l)] EXCEPT !.executable = TRUE], "put")

\* The file cached from now on: the staging node or a copy of it, which has lost
\* its mark if "the attribute did not survive the handover".
Handover(l, node) ==
  \E kept \in BOOLEAN :
    /\ cache' = [node EXCEPT !.executable = @ /\ kept]
    /\ handed' = [by |-> l, kept |-> kept]

\* put_file_to_cache takes the node; a file that is cached already stays or is
\* replaced.  It refuses one whose hash is not the one given.
Put(l) ==
  /\ at[l] = "put"
  /\ \/ /\ staged[Staging(l)] # Absent /\ staged[Staging(l)].whole
        /\ Handover(l, staged[Staging(l)]) \/ (cache # Absent /\ UNCHANGED cacheVars)
        /\ staged' \in {staged, [staged EXCEPT ![Staging(l)] = Absent]}
        /\ \/ Keep(l, Absent) /\ UNCHANGED failed
           \/ Keep(l, "unanswered") /\ Blame(l, "put", "unanswered")
     \/ \E why \in Reasons \ {"unanswered"} :
          /\ Blame(l, "put", why)
          /\ Keep(l, IF Denied("put", why) THEN "denied" ELSE "reported")
          /\ UNCHANGED <<cacheVars, staged>>
  /\ Goto(l, "remove")
  /\ UNCHANGED <<loose, worker>>

\* remove_tree, either way.  Its failure matters only when nothing else failed.
RemoveStaged(l) ==
  /\ at[l] = "remove"
  /\ \E why \in Reasons \cup {Absent} :
       /\ staged' = IF why \in {Absent, "unanswered"}
                    THEN [staged EXCEPT ![Staging(l)] = Absent] ELSE staged
       /\ IF why = Absent THEN UNCHANGED failed ELSE Blame(l, "remove", why)
       /\ CASE refused[l] = "denied" -> Goto(l, "create") /\ UNCHANGED worker
            [] refused[l] = Absent /\ why = Absent -> Goto(l, "markCached") /\ UNCHANGED worker
            [] OTHER -> Return(l, "error")
  /\ UNCHANGED <<loose, cacheVars, refused>>

\* Mutant: the file in the cache is taken to be marked as the staged one was.
MarkCachedSkipped(l) ==
  /\ at[l] = "markCached"
  /\ Return(l, "cached")
  /\ UNCHANGED <<staged, loose, cacheVars, refused, failed>>

\* set_attribute on the cached path: the file may have left the cache by now.
MarkCached(l) ==
  /\ at[l] = "markCached"
  /\ \/ /\ cache # Absent
        /\ cache' = [cache EXCEPT !.executable = TRUE]
        /\ \/ Return(l, "cached") /\ UNCHANGED failed
           \/ Return(l, "error") /\ Blame(l, "markCached", "unanswered")
     \/ \E why \in Reasons \ {"unanswered"} :
          Return(l, "error") /\ Blame(l, "markCached", why) /\ UNCHANGED cache
  /\ UNCHANGED <<staged, loose, handed, refused>>

\* upload_executable under //tmp: create, write_file, set_attribute.
Elsewhere(l, step, change, next) ==
  /\ at[l] = step
  /\ \/ /\ loose' = [loose EXCEPT ![Loose(l)] = change]
        /\ \/ IF next = "done" THEN Return(l, "uncached") /\ UNCHANGED failed
              ELSE Goto(l, next) /\ UNCHANGED <<worker, failed>>
           \/ Return(l, "error") /\ Blame(l, step, "unanswered")
     \/ \E why \in Reasons \ {"unanswered"} :
          Return(l, "error") /\ Blame(l, step, why) /\ UNCHANGED loose
  /\ UNCHANGED <<staged, cacheVars, refused>>

UploadUncached(l) ==
  \/ Elsewhere(l, "create", Made(loose[Loose(l)]), "fill")
  \/ loose[Loose(l)] # Absent /\
       \/ Elsewhere(l, "fill", [loose[Loose(l)] EXCEPT !.whole = TRUE], "allow")
       \/ Elsewhere(l, "allow", [loose[Loose(l)] EXCEPT !.executable = TRUE], "done")

\* A launcher dies.
Die(l) ==
  /\ at[l] \notin {"done", "dead"}
  /\ Goto(l, "dead")
  /\ UNCHANGED <<staged, loose, cacheVars, refused, failed, worker>>

\* The cache lets go of the file.
Expire ==
  /\ cache # Absent
  /\ cache' = Absent /\ handed' = Absent
  /\ UNCHANGED <<at, staged, loose, refused, failed, worker>>

FilesNext ==
  \/ \E l \in Launchers :
       \/ Lookup(l) \/ Mkdir(l) \/ Stage(l) \/ Write(l) \/ Mark(l) \/ Put(l) \/ RemoveStaged(l)
       \/ MarkCached(l) \/ UploadUncached(l) \/ Die(l)
  \/ Expire

FilesSpec == FilesInit /\ [][FilesNext]_fileVars

-----------------------------------------------------------------------------
\* A worker that a launcher uploaded and was told of runs.  Outside the cache it
\* is whole and marked for good.  In the cache it is whole whoever put it there,
\* and marked unless it lost its mark when it was handed over, by a launcher that
\* has not come to set it again yet, died before it did, or was told of an error.
WorkerRuns ==
  /\ cache # Absent =>
       /\ cache.whole
       /\ ~cache.executable => ~handed.kept /\ worker[handed.by] \in {Absent, "error"}
  /\ \A l \in Launchers :
       worker[l] = "uncached" => loose[Loose(l)] = Node(TRUE, TRUE)

\* "The executable bit, set on the cached node rather than the written one, so
\* that the job can exec it": when every launcher has come to its end, who found
\* the worker in the cache found one that can be executed.
FoundRuns ==
  \A l \in Launchers :
    worker[l] = "found" /\ cache # Absent /\ (\A m \in Launchers : at[m] \in {"done", "dead"})
      => cache.executable

\* "Removed either way": a launcher that has returned has left a staging node
\* only where the cluster did not answer for its creation or its removal.
NothingLeftStaged ==
  \A l \in Launchers :
    at[l] = "done" /\ staged[Staging(l)] # Absent =>
      \E f \in failed[l] : f[1] \in {"stage", "remove"}

\* A denied cache is no reason for a launch to fail, and nothing else is a reason
\* to leave the cache: an error stems from a failure that was not such a denial,
\* and an upload outside from one that was.
OnlyDenialFallsBack ==
  \A l \in Launchers :
    /\ worker[l] = "error" => \E f \in failed[l] : f[2] # "denied" \/ f[1] \notin {"mkdir", "stage", "put"}
    /\ loose[Loose(l)] # Absent => \E f \in failed[l] : f[2] = "denied" /\ f[1] \in {"mkdir", "stage", "put"}

\* Launchers of one binary do not disturb each other, and each gets a worker that
\* runs or an error that is owed.
UploadsAreSound == WorkerRuns /\ NothingLeftStaged /\ OnlyDenialFallsBack
=============================================================================
