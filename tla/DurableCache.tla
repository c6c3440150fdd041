---------------------------- MODULE DurableCache ----------------------------
(***************************************************************************)
(* What both storage modes promise to the jobs that come later:            *)
(* a durable cache in which an action result appears only together with,   *)
(* or after, every CAS object it refers to, and in which nothing that was  *)
(* committed is ever changed.  Entries, packs, manifests, retries and      *)
(* crashes are not visible at this level.  Eviction by the storage service *)
(* is not either: objects and results are what was ever committed.         *)
(***************************************************************************)
CONSTANTS CAS, Actions, Results, Closure

VARIABLES
  objects,  \* CAS digests that were committed
  results   \* pairs <<action, result>> that were committed

TypeOK ==
  /\ objects \in SUBSET CAS
  /\ results \in SUBSET (Actions \X Results)

Init == objects = {} /\ results = {}

\* One batch becomes visible at once.
Commit(newObjects, newResults) ==
  /\ \A x \in newResults : Closure[x[2]] \subseteq objects \cup newObjects
  /\ objects' = objects \cup newObjects
  /\ results' = results \cup newResults

Next ==
  \E newObjects \in SUBSET CAS, newResults \in SUBSET (Actions \X Results) :
    Commit(newObjects, newResults)

Spec == Init /\ [][Next]_<<objects, results>>
=============================================================================
