----------------------------- MODULE ObjectStore -----------------------------
(***************************************************************************)
(* The objects storage mode (internal/server/server.go): every CAS object  *)
(* and every action result is one entry of the GitHub Actions cache.  Jobs *)
(* share the cache and nothing else; in each job several handlers run at   *)
(* the same time and share the spool and the set of published keys.        *)
(*                                                                         *)
(* A handler is cut where it waits for the cache service, so an entry can  *)
(* be evicted, or written by another job, between any two of its calls.    *)
(* publishOnce and Save are one step here; Publication has their detail.   *)
(***************************************************************************)
EXTENDS Naturals, FiniteSets

CONSTANTS
  Jobs,        \* runs of the server
  Writers,     \* jobs with Config.WriteEnabled
  Handlers,    \* request handlers of all jobs
  JobOf,       \* the job of a handler
  CAS,         \* digests of CAS objects
  Containers,  \* those that are Tree or Directory messages
  Actions,     \* keys of action results
  Results,     \* bodies of action results
  Closure,     \* the CAS objects that a result refers to
  None         \* an absent map entry

ASSUME ObjectStoreAssumption ==
  /\ Writers \subseteq Jobs
  /\ JobOf \in [Handlers -> Jobs]
  /\ Containers \subseteq CAS
  /\ Closure \in [Results -> SUBSET CAS]
  /\ None \notin Results /\ None \notin CAS /\ None \notin Actions

VARIABLES
  backendCAS, backendAC,  \* the entries of the cache service
  savedCAS, savedAC,      \* history: what was ever saved
  casObjects, acObjects,  \* Server.objects of each job, by kind
  publishedCAS,           \* Server.published of each job, by kind
  publishedAC,
  request,                \* what each handler is doing
  served                  \* history: results that a job has served

spoolVars == <<casObjects, acObjects>>
publishedVars == <<publishedCAS, publishedAC>>
casVars == <<backendCAS, savedCAS>>
acVars == <<backendAC, savedAC>>

vars == <<casVars, acVars, spoolVars, publishedVars, request, served>>

Ops == {"idle", "publish cas", "load", "loaded", "get", "put"}

\* todo: references still to be validated.  lost: history, the objects that
\* were evicted since the validation began.
Request(op, cas, action, value, todo) ==
  [op |-> op, cas |-> cas, action |-> action, value |-> value, todo |-> todo,
   lost |-> {}]

Idle == Request("idle", None, None, None, {})

Requests == [op : Ops, cas : CAS \cup {None}, action : Actions \cup {None},
             value : Results \cup {None}, todo : SUBSET CAS, lost : SUBSET CAS]

Init ==
  /\ backendCAS = {} /\ savedCAS = {}
  /\ backendAC = [a \in Actions |-> None] /\ savedAC = {}
  /\ casObjects = [j \in Jobs |-> {}]
  /\ acObjects = [j \in Jobs |-> [a \in Actions |-> None]]
  /\ publishedCAS = [j \in Jobs |-> {}]
  /\ publishedAC = [j \in Jobs |-> {}]
  /\ request = [h \in Handlers |-> Idle]
  /\ served = [j \in Jobs |-> {}]

Become(h, req) == request' = [request EXCEPT ![h] = req]

\* A handler takes a request.
Begin(h, req) ==
  /\ request[h] = Idle
  /\ Become(h, req)

-----------------------------------------------------------------------------
(* CAS objects.                                                             *)

\* resolve: the object is in the spool, or is loaded into it.
GetCAS(j, c) ==
  /\ c \in casObjects[j] \cup backendCAS
  /\ casObjects' = [casObjects EXCEPT ![j] = @ \cup {c}]
  /\ UNCHANGED <<casVars, acVars, acObjects, publishedVars, request, served>>

PutCAS(h, c) ==
  LET j == JobOf[h] IN
  /\ Begin(h, IF j \in Writers THEN Request("publish cas", c, None, None, {}) ELSE Idle)
  /\ casObjects' = [casObjects EXCEPT ![j] = @ \cup {c}]
  /\ UNCHANGED <<casVars, acVars, acObjects, publishedVars, served>>

\* The entry of c is in the cache service after a Save.
SaveCAS(c) ==
  /\ backendCAS' = backendCAS \cup {c}
  /\ savedCAS' = savedCAS \cup {c}

\* publishOnce returns nil: the key was published by this job before, is saved
\* now, or the poll after a refused Save finds it.
PublishCAS(h) ==
  LET j == JobOf[h]  c == request[h].cas IN
  /\ request[h].op = "publish cas"
  /\ IF c \in publishedCAS[j] THEN UNCHANGED casVars ELSE SaveCAS(c)
  /\ publishedCAS' = [publishedCAS EXCEPT ![j] = @ \cup {c}]
  /\ Become(h, Idle)
  /\ UNCHANGED <<acVars, spoolVars, publishedAC, served>>

\* "A failed publication is not cached".
AfterFailure(j, k, published) == published

\* Save fails, or fails after it took effect; handleSaveError.
PublishCASFails(h) ==
  LET j == JobOf[h]  c == request[h].cas IN
  /\ request[h].op = "publish cas"
  /\ c \notin publishedCAS[j]
  /\ UNCHANGED casVars \/ SaveCAS(c)
  /\ publishedCAS' = AfterFailure(j, c, publishedCAS)
  /\ Become(h, Idle)
  /\ UNCHANGED <<acVars, spoolVars, publishedAC, served>>

-----------------------------------------------------------------------------
(* Action results.                                                          *)

\* Mutant: the last object stored under a key wins.
StoreMutant(j, a, v) == acObjects' = [acObjects EXCEPT ![j][a] = v]

\* The object that was stored first under a key stays there.
Store(j, a, v) ==
  acObjects' = [acObjects EXCEPT ![j][a] = IF @ = None THEN v ELSE @]

Validating(op, a, v) == Request(op, None, a, v, Closure[v])

\* What is validated and published is the body of this request, whatever is
\* stored under the key.
PutAC(h, a, v) ==
  LET j == JobOf[h] IN
  /\ Begin(h, IF j \in Writers THEN Validating("put", a, v) ELSE Idle)
  /\ Store(j, a, v)
  /\ UNCHANGED <<casVars, acVars, casObjects, publishedVars, served>>

GetAC(h, a) ==
  LET v == acObjects[JobOf[h]][a] IN
  /\ Begin(h, IF v # None THEN Validating("get", a, v)
                          ELSE Request("load", None, a, None, {}))
  /\ UNCHANGED <<casVars, acVars, spoolVars, publishedVars, served>>

Hit(a) == backendAC[a] # None

\* resolve after it got a slot: the second look at the spool, then Load.
LoadAC(h) ==
  LET a == request[h].action  v == acObjects[JobOf[h]][a] IN
  /\ request[h].op = "load"
  /\ \/ v # None /\ Become(h, Validating("get", a, v))
     \/ /\ v = None /\ Hit(a)
        /\ Become(h, Request("loaded", None, a, backendAC[a], {}))
  /\ UNCHANGED <<casVars, acVars, spoolVars, publishedVars, served>>

StoreLoaded(h) ==
  LET j == JobOf[h]  a == request[h].action IN
  /\ request[h].op = "loaded"
  /\ Store(j, a, request[h].value)
  /\ Become(h, Validating("get", a, acObjects'[j][a]))
  /\ UNCHANGED <<casVars, acVars, casObjects, publishedVars, served>>

\* Mutants: requirePersisted is ignored; the keys that this job has published
\* are taken for persistent.
AvailableMutant(h, c) == c \in casObjects[JobOf[h]] \cup backendCAS

AvailableMutant2(h, c) ==
  \/ c \in publishedCAS[JobOf[h]] \cup backendCAS
  \/ request[h].op = "get" /\ c \in casObjects[JobOf[h]]

\* casExists and loadCAS: a publication asks the cache service in any case.
Available(h, c) ==
  \/ c \in backendCAS
  \/ request[h].op = "get" /\ c \in casObjects[JobOf[h]]

\* One referenced object is validated; trees and directories are loaded.
CheckRef(h, c) ==
  LET j == JobOf[h] IN
  /\ request[h].op \in {"get", "put"}
  /\ c \in request[h].todo
  /\ Available(h, c)
  /\ casObjects' = [casObjects EXCEPT ![j] = IF c \in Containers THEN @ \cup {c} ELSE @]
  /\ Become(h, [request[h] EXCEPT !.todo = @ \ {c}])
  /\ UNCHANGED <<casVars, acVars, acObjects, publishedVars, served>>

\* A miss, an object that is missing, an error of the service, or a client
\* that has gone: nothing is served or published.
Abandon(h) ==
  /\ request[h].op \in {"load", "loaded", "get", "put"}
  /\ Become(h, Idle)
  /\ UNCHANGED <<casVars, acVars, spoolVars, publishedVars, served>>

Serve(h) ==
  LET j == JobOf[h] IN
  /\ request[h].op = "get" /\ request[h].todo = {}
  /\ served' = [served EXCEPT ![j] = @ \cup {<<request[h].action, request[h].value>>}]
  /\ Become(h, Idle)
  /\ UNCHANGED <<casVars, acVars, spoolVars, publishedVars>>

\* Keys are immutable: the entry of another job stays.
SaveAC(a, v) ==
  IF backendAC[a] = None
    THEN /\ backendAC' = [backendAC EXCEPT ![a] = v]
         /\ savedAC' = savedAC \cup {<<a, v>>}
    ELSE UNCHANGED acVars

PublishAC(h) ==
  LET j == JobOf[h]  a == request[h].action IN
  /\ request[h].op = "put" /\ request[h].todo = {}
  /\ IF a \in publishedAC[j] THEN UNCHANGED acVars ELSE SaveAC(a, request[h].value)
  /\ publishedAC' = [publishedAC EXCEPT ![j] = @ \cup {a}]
  /\ Become(h, Idle)
  /\ UNCHANGED <<casVars, spoolVars, publishedCAS, served>>

PublishACFails(h) ==
  LET j == JobOf[h]  a == request[h].action IN
  /\ request[h].op = "put" /\ request[h].todo = {}
  /\ a \notin publishedAC[j]
  /\ UNCHANGED acVars \/ SaveAC(a, request[h].value)
  /\ publishedAC' = AfterFailure(j, a, publishedAC)
  /\ Become(h, Idle)
  /\ UNCHANGED <<casVars, spoolVars, publishedCAS, served>>

-----------------------------------------------------------------------------
(* The cache service and the runner.                                        *)

EvictCAS(c) ==
  /\ c \in backendCAS
  /\ backendCAS' = backendCAS \ {c}
  /\ request' = [h \in Handlers |->
                   IF request[h].op \in {"get", "put"}
                     THEN [request[h] EXCEPT !.lost = @ \cup {c}]
                     ELSE request[h]]
  /\ UNCHANGED <<savedCAS, acVars, spoolVars, publishedVars, served>>

EvictAC(a) ==
  /\ backendAC[a] # None
  /\ backendAC' = [backendAC EXCEPT ![a] = None]
  /\ UNCHANGED <<casVars, savedAC, spoolVars, publishedVars, request, served>>

\* A job ends or is killed in the middle of its requests; Server.Close saves
\* nothing in this mode.  The next job begins with an empty spool.
Restart(j) ==
  /\ casObjects' = [casObjects EXCEPT ![j] = {}]
  /\ acObjects' = [acObjects EXCEPT ![j] = [a \in Actions |-> None]]
  /\ publishedCAS' = [publishedCAS EXCEPT ![j] = {}]
  /\ publishedAC' = [publishedAC EXCEPT ![j] = {}]
  /\ request' = [h \in Handlers |-> IF JobOf[h] = j THEN Idle ELSE request[h]]
  /\ served' = [served EXCEPT ![j] = {}]
  /\ UNCHANGED <<casVars, acVars>>

\* The steps of a handler after it has taken its request.
Step(h) ==
  \/ PublishCAS(h) \/ PublishCASFails(h)
  \/ LoadAC(h) \/ StoreLoaded(h) \/ Abandon(h) \/ Serve(h)
  \/ PublishAC(h) \/ PublishACFails(h)
  \/ \E c \in CAS : CheckRef(h, c)

Next ==
  \/ \E h \in Handlers : Step(h)
  \/ \E h \in Handlers, c \in CAS : PutCAS(h, c)
  \/ \E h \in Handlers, a \in Actions : GetAC(h, a)
  \/ \E h \in Handlers, a \in Actions, v \in Results : PutAC(h, a, v)
  \/ \E j \in Jobs, c \in CAS : GetCAS(j, c)
  \/ \E c \in CAS : EvictCAS(c)
  \/ \E a \in Actions : EvictAC(a)
  \/ \E j \in Jobs : Restart(j)

Spec == Init /\ [][Next]_vars

-----------------------------------------------------------------------------
(* Properties.                                                              *)

\* Type invariant.
StoreTypes ==
  /\ backendCAS \in SUBSET CAS /\ savedCAS \in SUBSET CAS
  /\ backendAC \in [Actions -> Results \cup {None}]
  /\ savedAC \in SUBSET (Actions \X Results)
  /\ casObjects \in [Jobs -> SUBSET CAS]
  /\ acObjects \in [Jobs -> [Actions -> Results \cup {None}]]
  /\ publishedCAS \in [Jobs -> SUBSET CAS]
  /\ publishedAC \in [Jobs -> SUBSET Actions]
  /\ served \in [Jobs -> SUBSET (Actions \X Results)]

HandlerTypes ==
  /\ request \in [Handlers -> Requests]
  /\ \A h \in Handlers :
       /\ request[h].op = "publish cas" => request[h].cas \in CAS
       /\ request[h].op \in {"load", "loaded", "get", "put"} => request[h].action \in Actions
       /\ request[h].op \in {"loaded", "get", "put"} => request[h].value \in Results

TypeOK == StoreTypes /\ HandlerTypes

\* "AC publication only after every referenced CAS object is persistent"
\* (README): when a result appears in the cache, every object it refers to is
\* in the cache too, unless it was evicted while the request validated it.
\* Neither the spool nor the keys this job published count as persistent.
SavedWhilePersistent ==
  [][\A a \in Actions :
       backendAC'[a] \notin {backendAC[a], None} =>
         \E h \in Handlers :
           /\ request[h].op = "put" /\ request[h].action = a
           /\ request[h].value = backendAC'[a]
           /\ Closure[backendAC'[a]] \subseteq backendCAS \cup request[h].lost]_vars

\* "AC hits only when every referenced CAS object still exists" (README): when
\* a result is served, each object it refers to is in this job's spool, is in
\* the cache, or was evicted during the validation.
ServedClosureExists ==
  [][\A j \in Jobs : \A x \in served'[j] \ served[j] :
       \E h \in Handlers :
         /\ JobOf[h] = j /\ request[h].op = "get"
         /\ Closure[x[2]] \subseteq casObjects[j] \cup backendCAS \cup request[h].lost]_vars

\* A job never serves two different results for one action, although loads,
\* uploads and the uploads of other jobs overlap.
ServedStable ==
  \A j \in Jobs : \A x, y \in served[j] : x[1] = y[1] => x[2] = y[2]

\* A key that publishOnce deduplicates was saved by some job: an upload that is
\* skipped was not needed.
DeduplicatedWasSaved ==
  \A j \in Jobs :
    /\ publishedCAS[j] \subseteq savedCAS
    /\ \A a \in publishedAC[j] : \E v \in Results : <<a, v>> \in savedAC

\* What the objects mode promises to later jobs: a result is committed after
\* its closure, whichever jobs saved the parts, and is never changed.
Durable == INSTANCE DurableCache WITH objects <- savedCAS, results <- savedAC

ImplementsDurableCache == Durable!Spec
=============================================================================
