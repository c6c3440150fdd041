--------------------------- MODULE RequestHandling ---------------------------
(***************************************************************************)
(* The request handlers (internal/server/server.go: serveHTTP, handleRead, *)
(* handlePut) with what they leave behind: the answer, the temporary files *)
(* in the spool directory, and the counters (internal/server/stats.go).    *)
(*                                                                         *)
(* Concurrent requests meet at one key of /cas and one of /ac.  A request  *)
(* makes at most one file, which is named by the request.  What the cache  *)
(* service, the disk, the index and the validation answer is chosen freely *)
(* here; ObjectStore, PackStore, Publication and ActionResultValidation    *)
(* say what those answers depend on.                                       *)
(***************************************************************************)
EXTENDS Naturals, FiniteSets

CONSTANTS
  Requests,
  Configs,  \* the configurations a server may have
  None

ASSUME RequestHandlingAssumption ==
  /\ Configs \subseteq [packs : BOOLEAN, writeEnabled : BOOLEAN, failOpen : BOOLEAN]
  /\ None \notin Requests
  /\ IsFiniteSet(Requests)

VARIABLES
  config,   \* Server.cfg: StorageMode, WriteEnabled, FailOpen
  pc,
  kind,     \* "cas" or "ac"
  trouble,  \* history: the first thing that went wrong for a request
  status,   \* of the answer; 0 before it
  stored,   \* Server.objects: the file that holds the object of a key
  files,    \* the files in the spool directory
  stats

vars == <<config, pc, kind, trouble, status, stored, files, stats>>

Packs == config.packs
WriteEnabled == config.writeEnabled
FailOpen == config.failOpen

Kinds == {"cas", "ac"}

\* An entry of the cache service can be wrong or too large, or gone, the service
\* can be unavailable, and the disk of the runner can be full.
Troubles == {"corrupt", "evicted", "service", "disk"}

Counters == {"requests", "hits", "misses", "uploads", "deduplicatedUploads",
             "discardedUploads", "backendLoadErrors", "backendSaveErrors",
             "rejectedRequests", "validatedActionResults",
             "incompleteActionResults", "invalidActionResults",
             "skippedActionResultUploads"}

Reading == {"lookup", "load", "loaded", "validate", "open"}
Writing == {"put", "spooled", "validatePut", "stage", "publish"}

Init ==
  /\ config \in Configs
  /\ pc = [q \in Requests |-> "new"]
  /\ kind = [q \in Requests |-> "cas"]
  /\ trouble = [q \in Requests |-> "none"]
  /\ status = [q \in Requests |-> 0]
  /\ stored = [k \in Kinds |-> None]
  /\ files = {}
  /\ stats = [c \in Counters |-> 0]

Count(S) == stats' = [c \in Counters |-> IF c \in S THEN stats[c] + 1 ELSE stats[c]]

Goto(q, state) == pc' = [pc EXCEPT ![q] = state]

\* The deferred function removes the file of a request that was not kept; in
\* the packed mode materialize has no such function.
LeftBehind(q) ==
  IF stored[kind[q]] = q \/ (Packs /\ pc[q] \in Reading) THEN files ELSE files \ {q}

Answer(q, code, counters) ==
  /\ Goto(q, "done")
  /\ status' = [status EXCEPT ![q] = code]
  /\ files' = LeftBehind(q)
  /\ Count(counters)
  /\ UNCHANGED <<config, kind, stored>>

Fails(q, why) == trouble' = [trouble EXCEPT ![q] = why]

-----------------------------------------------------------------------------
(* serveHTTP                                                                *)

Arrive(q, k, state) ==
  /\ pc[q] = "new"
  /\ kind' = [kind EXCEPT ![q] = k]
  /\ Goto(q, state)
  /\ Count({"requests"})
  /\ UNCHANGED <<config, trouble, status, stored, files>>

\* A path or a method that is not supported; and the headers of a PUT.
Reject(q) ==
  /\ pc[q] = "new"
  /\ \E code \in {400, 405, 411, 413, 415} :
       Answer(q, code, {"requests", "rejectedRequests"})
  /\ UNCHANGED trouble

\* handleImplicitEmptyCASRead
ReadEmpty(q) ==
  /\ pc[q] = "new"
  /\ Answer(q, 200, {"requests", "hits"})
  /\ UNCHANGED trouble

-----------------------------------------------------------------------------
(* handleRead, with the resolve of both modes.                              *)

ReadFails(q, why) ==
  /\ Fails(q, why)
  /\ IF FailOpen THEN Answer(q, 404, {"backendLoadErrors", "misses"})
                 ELSE Answer(q, 502, {"backendLoadErrors"})

Found(q) == Goto(q, IF kind[q] = "ac" THEN "validate" ELSE "open")

Lookup(q) ==
  /\ pc[q] = "lookup"
  /\ IF stored[kind[q]] # None THEN Found(q) ELSE Goto(q, "load")
  /\ UNCHANGED <<config, kind, trouble, status, stored, files, stats>>

\* Load into a file of its own, or a block of a pack that becomes one; both
\* modes look at the spool once more before.
Load(q) ==
  /\ pc[q] = "load"
  /\ IF stored[kind[q]] # None
       THEN Found(q) /\ UNCHANGED files
       ELSE Goto(q, "loaded") /\ files' = files \cup {q}
  /\ UNCHANGED <<config, kind, trouble, status, stored, stats>>

Miss(q) ==
  /\ pc[q] = "load"
  /\ Answer(q, 404, {"misses"})
  /\ UNCHANGED trouble

\* An entry that was evicted is a miss in the objects mode; in the packed mode
\* the index still has it.
LoadFails(q) ==
  /\ pc[q] = "load"
  /\ \E why \in IF Packs THEN Troubles ELSE Troubles \ {"evicted"} : ReadFails(q, why)

\* Mutant: the object that was loaded last is stored.
StoreMutant(q) == stored' = [stored EXCEPT ![kind[q]] = q]

\* Under objectsMu the first object of a key stays.
Store(q) == stored' = [stored EXCEPT ![kind[q]] = IF @ = None THEN q ELSE @]

\* The deferred removal of resolve, when the file is not kept.
StoreLoaded(q) ==
  /\ pc[q] = "loaded"
  /\ Store(q)
  /\ files' = IF Packs \/ stored'[kind[q]] = q THEN files ELSE files \ {q}
  /\ Found(q)
  /\ UNCHANGED <<config, kind, trouble, status, stats>>

Validated(q) ==
  /\ pc[q] = "validate"
  /\ Goto(q, "open")
  /\ Count({"validatedActionResults"})
  /\ UNCHANGED <<config, kind, trouble, status, stored, files>>

NotServed(q) ==
  /\ pc[q] = "validate"
  /\ \E c \in {"incompleteActionResults", "invalidActionResults"} :
       Answer(q, 404, {c, "misses"})
  /\ UNCHANGED trouble

ValidationFails(q) ==
  /\ pc[q] = "validate"
  /\ \E why \in IF Packs THEN Troubles ELSE Troubles \ {"evicted"} : ReadFails(q, why)

Serve(q) ==
  /\ pc[q] = "open"
  /\ Answer(q, 200, {"hits"})
  /\ UNCHANGED trouble

OpenFails(q) ==
  /\ pc[q] = "open"
  /\ Fails(q, "disk")
  /\ IF FailOpen THEN Answer(q, 404, {"backendLoadErrors", "misses"})
                 ELSE Answer(q, 500, {"backendLoadErrors"})

-----------------------------------------------------------------------------
(* handlePut                                                                *)

Spool(q) ==
  /\ pc[q] = "put"
  /\ files' = files \cup {q}
  /\ Goto(q, "spooled")
  /\ UNCHANGED <<config, kind, trouble, status, stored, stats>>

\* The file cannot be created or synced.
SpoolFails(q) ==
  /\ pc[q] \in {"put", "spooled"}
  /\ Fails(q, "disk")
  /\ Answer(q, 500, {})

\* The body ends early or is too long, or its digest is another one.
RejectBody(q) ==
  /\ pc[q] = "spooled"
  /\ \E code \in IF kind[q] = "cas" THEN {400, 422} ELSE {400} :
       Answer(q, code, {"rejectedRequests"})
  /\ UNCHANGED trouble

AfterStore(q) ==
  IF ~WriteEnabled THEN "discard"
  ELSE IF kind[q] = "ac" THEN "validatePut"
  ELSE IF Packs THEN "stage" ELSE "publish"

StoreUpload(q) ==
  /\ pc[q] = "spooled"
  /\ Store(q)
  /\ Goto(q, AfterStore(q))
  /\ UNCHANGED <<config, kind, trouble, status, files, stats>>

Discard(q) ==
  /\ pc[q] = "discard"
  /\ Answer(q, 204, {"discardedUploads"})
  /\ UNCHANGED trouble

\* In the objects mode the validation is counted before the publication, in
\* the packed mode after the result was staged.
ValidatedPut(q) ==
  /\ pc[q] = "validatePut"
  /\ Goto(q, IF Packs THEN "stage" ELSE "publish")
  /\ Count(IF Packs THEN {} ELSE {"validatedActionResults"})
  /\ UNCHANGED <<config, kind, trouble, status, stored, files>>

NotPublished(q) ==
  /\ pc[q] = "validatePut"
  /\ \E c \in {"incompleteActionResults", "invalidActionResults"} :
       Answer(q, 204, {c, "skippedActionResultUploads"})
  /\ UNCHANGED trouble

\* Mutant: the soft success is not counted as skipped.
PutValidationFailsMutant(q) ==
  /\ pc[q] = "validatePut"
  /\ \E why \in IF Packs THEN Troubles ELSE Troubles \ {"evicted"} : Fails(q, why)
  /\ IF FailOpen THEN Answer(q, 204, {"backendLoadErrors"})
                 ELSE Answer(q, 502, {"backendLoadErrors"})

PutValidationFails(q) ==
  /\ pc[q] = "validatePut"
  /\ \E why \in IF Packs THEN Troubles ELSE Troubles \ {"evicted"} : Fails(q, why)
  /\ IF FailOpen THEN Answer(q, 204, {"backendLoadErrors", "skippedActionResultUploads"})
                 ELSE Answer(q, 502, {"backendLoadErrors"})

Stage(q) ==
  /\ pc[q] = "stage"
  /\ Answer(q, 204, IF kind[q] = "ac" THEN {"validatedActionResults"} ELSE {})
  /\ UNCHANGED trouble

\* Mutant: the error of a save always reaches the client.
SoftSaveMutant == FALSE

SoftSave == FailOpen

\* handleSaveError
SaveFails(q, why) ==
  /\ Fails(q, why)
  /\ Answer(q, IF SoftSave THEN 204 ELSE 502, {"backendSaveErrors"})

StageFails(q) == pc[q] = "stage" /\ kind[q] = "ac" /\ SaveFails(q, "disk")

Publish(q) ==
  /\ pc[q] = "publish"
  /\ \E c \in {"uploads", "deduplicatedUploads"} : Answer(q, 204, {c})
  /\ UNCHANGED trouble

PublishFails(q) ==
  /\ pc[q] = "publish"
  /\ \E why \in {"service", "disk"} : SaveFails(q, why)

Read(q) ==
  \/ Lookup(q) \/ Load(q) \/ Miss(q) \/ LoadFails(q) \/ StoreLoaded(q)
  \/ Validated(q) \/ NotServed(q) \/ ValidationFails(q) \/ Serve(q) \/ OpenFails(q)

Put(q) ==
  \/ Spool(q) \/ SpoolFails(q) \/ RejectBody(q) \/ StoreUpload(q) \/ Discard(q)
  \/ ValidatedPut(q) \/ NotPublished(q) \/ PutValidationFails(q)
  \/ Stage(q) \/ StageFails(q) \/ Publish(q) \/ PublishFails(q)

Next ==
  \E q \in Requests :
    \/ \E k \in Kinds, state \in {"lookup", "put"} : Arrive(q, k, state)
    \/ Reject(q) \/ ReadEmpty(q) \/ Read(q) \/ Put(q)

Spec == Init /\ [][Next]_vars

-----------------------------------------------------------------------------
(* Type invariant; a request is answered once.                              *)
TypeOK ==
  /\ config \in Configs
  /\ pc \in [Requests -> {"new", "discard", "done"} \cup Reading \cup Writing]
  /\ kind \in [Requests -> Kinds]
  /\ trouble \in [Requests -> {"none"} \cup Troubles]
  /\ status \in [Requests -> {0, 200, 204, 400, 404, 405, 411, 413, 415, 422, 500, 502}]
  /\ \A q \in Requests : pc[q] = "done" <=> status[q] # 0
  /\ stored \in [Kinds -> Requests \cup {None}]
  /\ files \subseteq Requests
  /\ stats \in [Counters -> 0..Cardinality(Requests)]

(* server.go:352-363, 447-459: the object of a key stays readable for good, *)
(* an upload is readable until it was published, and in the objects mode    *)
(* every other file is gone when its request ends, on every path.           *)
SpoolIsExact ==
  /\ TypeOK
  /\ \A k \in Kinds : stored[k] # None => stored[k] \in files
  /\ \A q \in Requests : pc[q] \in Writing \ {"put"} => q \in files
  /\ ~Packs =>
       \A q \in files : \/ \E k \in Kinds : stored[k] = q
                        \/ pc[q] \in {"loaded", "discard"} \cup Writing

(* README.md:207-214: when the server fails open, no failure of the cache   *)
(* service and no bad entry reaches Bazel as an error, neither from reads   *)
(* nor from uploads nor from the validation of results; with                *)
(* fail-on-cache-error every request for which the service failed is        *)
(* answered with 502.                                                       *)
FailurePolicy ==
  \A q \in Requests :
    IF FailOpen
      THEN status[q] \in {500, 502} => trouble[q] = "disk"
      ELSE pc[q] = "done" /\ trouble[q] = "service" => status[q] = 502

Answered(codes) == Cardinality({q \in Requests : status[q] \in codes})

(* README.md:205-212 and stats.go: whatever runs concurrently, each answer  *)
(* is counted once: hits and misses are the reads that were answered, and   *)
(* an upload that was acknowledged was published, deduplicated, discarded,  *)
(* skipped, or is a save error.                                             *)
AnswersAddUp ==
  /\ stats["requests"] = Cardinality({q \in Requests : pc[q] # "new"})
  /\ stats["hits"] = Answered({200})
  /\ stats["misses"] = Answered({404})
  /\ stats["rejectedRequests"] = Answered({400, 405, 411, 413, 415, 422})
  /\ ~Packs =>
       Answered({204}) = stats["uploads"] + stats["deduplicatedUploads"]
         + stats["discardedUploads"] + stats["skippedActionResultUploads"]
         + (IF FailOpen THEN stats["backendSaveErrors"] ELSE 0)
=============================================================================
