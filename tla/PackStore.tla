------------------------------ MODULE PackStore ------------------------------
(***************************************************************************)
(* The packed storage mode (internal/server/pack_store.go) of the cache    *)
(* server, for any number of runners that share one GitHub Actions cache.  *)
(*                                                                         *)
(* A runner is one job with its own server process.  It discovers the      *)
(* manifests that earlier runners committed, serves Bazel's reads from     *)
(* them, keeps uploads local, and its flush worker batches pending objects *)
(* into an immutable CARv2 pack, saves the pack, and only then saves the   *)
(* manifest that makes the batch visible.                                  *)
(*                                                                         *)
(* A pack is named by the hash of its bytes, so a pack IS its content here *)
(* and the order of hashes is the constant PackRank.  A manifest is named  *)
(* by the hash of a content that contains other hashes; its name is a      *)
(* number that is bound to the content when it is first saved.             *)
(***************************************************************************)
EXTENDS Naturals, Sequences, FiniteSets, FiniteSetsExt

CONSTANTS
  Runners,        \* jobs; each runs one server process
  Writers,        \* the runners with write-enabled=true
  CAS,            \* digests of content-addressed objects
  Actions,        \* action digests, the keys of the action cache
  Results,        \* serialized action results, identified by their CID
  Closure,        \* Closure[v]: every CAS digest result v refers to
  Size,           \* bytes of an object or of a serialized result
  PackRank,       \* order of the packs' SHA-256 names
  TargetSize,     \* Config.PackSize
  MaxBlobSize,    \* Config.MaxBlobSize
  PackOverhead,   \* bytes of CARv2 headers and index around the payload
  MaxManifests,   \* Config.MaxManifests
  FailOpen,       \* Config.FailOpen
  ManifestIDs,    \* names available to manifests; bounds their number
  MaxPuts,        \* bound: PUT requests for action results per runner
  MaxRequests,    \* bound: action-cache requests in flight per runner
  MaxRunning,     \* bound: server processes alive at the same time
  MaxFaults,      \* bound: faults (see FaultKinds) in a behaviour
  FaultKinds,     \* subset of {"crash", "evict", "evictIdle", "lostAck"}
  None            \* an absent map entry

Packs == [cas : SUBSET CAS, res : SUBSET Results]

ActionEntries == [res : Results, pack : Packs]

Manifests == [parents      : SUBSET ManifestIDs,
              pack         : Packs,
              cas          : SUBSET CAS,
              actions      : [Actions -> Results \cup {None}],
              closurePacks : [Actions -> SUBSET Packs]]

Requests == [op   : {"load", "get", "put"},
             act  : Actions,
             res  : Results,
             pack : Packs \cup {None},
             todo : SUBSET CAS]

\* A batch takes the first n pending CAS objects.
Batches == [n : Nat, cas : SUBSET CAS, acts : SUBSET Actions]

NoBatch == [n |-> 0, cas |-> {}, acts |-> {}]

ASSUME ConstantsAssumption ==
  /\ Writers \subseteq Runners
  /\ Closure \in [Results -> SUBSET CAS]
  /\ Size \in [CAS \cup Results -> Nat]
  /\ PackRank \in [Packs -> Nat]
  /\ ManifestIDs \subseteq Nat
  /\ TargetSize \in Nat /\ MaxBlobSize \in Nat /\ PackOverhead \in Nat
  /\ MaxManifests \in Nat /\ MaxPuts \in Nat /\ MaxFaults \in Nat
  /\ MaxRequests \in Nat /\ MaxRunning \in Nat /\ FailOpen \in BOOLEAN

ASSUME NoneAssumption ==
  /\ None \notin Results
  /\ None \notin Packs
  /\ None \notin ActionEntries
  /\ None \notin Manifests

VARIABLES
  \* the GitHub Actions cache
  backendPacks,     \* packs that can be downloaded now
  savedPacks,       \* history: packs that were ever saved
  manifestTable,    \* content of every manifest name ever saved
  backendManifests, \* manifest names that the catalog lists now
  faults,
  \* one server process per runner: where it is in its life
  phase,
  \* spool directory: server.objects and packStore.loadedPacks
  casObjects, acObjects, loadedPacks,
  \* the merged index of the discovered manifests
  todo, view, packs, cas, actions, actionConflicts, heads,
  \* staged writes and the batch whose pack has been saved
  uploading, pendingCAS, pendingActions, published, flush,
  \* requests for /ac, and what clients have observed (history)
  requests, puts, putValues, served

backendVars == <<backendPacks, savedPacks, manifestTable, backendManifests>>
spoolVars   == <<casObjects, acObjects, loadedPacks>>
indexVars   == <<view, packs, cas, actions, actionConflicts, heads>>
stagingVars == <<uploading, pendingCAS, pendingActions, published, flush>>
clientVars  == <<requests, puts, putValues, served>>
vars == <<backendVars, faults, phase, spoolVars, todo, indexVars, stagingVars,
          clientVars>>

SeqRange(s) == {s[i] : i \in 1..Len(s)}

-----------------------------------------------------------------------------
(* Sizes, selection and batches: pure functions of the staged state.        *)

Bytes(S) == MapThenSumSet(LAMBDA x : Size[x], S)

PackBytes(pack) == PackOverhead + Bytes(pack.cas) + Bytes(pack.res)

\* Sum of the sizes of the first k entries of the pending order.
PrefixBytes(order, k) == MapThenSumSet(LAMBDA i : Size[order[i]], 1..k)

\* Mutant: the size check also applies to the first object.
AdmitsMutant(order, k) ==
  /\ PrefixBytes(order, k - 1) < TargetSize
  /\ PrefixBytes(order, k) <= TargetSize

\* The loop of selectCASLocked goes on to the k-th pending object.
Admits(order, k) ==
  \/ k = 1
  \/ /\ PrefixBytes(order, k - 1) < TargetSize
     /\ PrefixBytes(order, k) <= TargetSize

\* The loop of selectCASLocked stops after exactly n objects.
SelectCAS(order, n) ==
  /\ \A k \in 1..n : Admits(order, k)
  /\ n < Len(order) => ~Admits(order, n + 1)

\* Mutant: a result is selected whether its closure is published or not.
SelectActionsMutant(r, selected) ==
  {a \in Actions : pendingActions[r][a] # None}

SelectActions(r, selected) ==
  {a \in Actions :
     /\ pendingActions[r][a] # None
     /\ \A d \in Closure[pendingActions[r][a]] :
           d \in selected \/ cas[r][d] # None}

\* What one iteration of flushOneLocked is going to publish.
BatchOf(r, n) ==
  LET selected == {pendingCAS[r][i] : i \in 1..n}
  IN  [n |-> n, cas |-> selected, acts |-> SelectActions(r, selected)]

PackOf(r, batch) ==
  [cas |-> batch.cas, res |-> {pendingActions[r][a] : a \in batch.acts}]

\* Mutant: packs committed before are left out.
ClosurePacksMutant(r, batch, pack, v) == {pack : d \in Closure[v] \cap batch.cas}

\* Every closure member is in the new pack or in the pack the index names.
ClosurePacks(r, batch, pack, v) ==
  {pack : d \in Closure[v] \cap batch.cas} \cup
  {cas[r][d] : d \in {e \in Closure[v] \ batch.cas : cas[r][e] # None}}

ManifestFor(r, batch, pack) ==
  [parents      |-> heads[r],
   pack         |-> pack,
   cas          |-> batch.cas,
   actions      |-> [a \in Actions |->
                       IF a \in batch.acts THEN pendingActions[r][a] ELSE None],
   closurePacks |-> [a \in Actions |->
                       IF a \in batch.acts
                         THEN ClosurePacks(r, batch, pack, pendingActions[r][a])
                         ELSE {}]]

\* mid is the content hash of m: equal contents share it, others do not.
ManifestName(mid, m) ==
  \/ manifestTable[mid] = m
  \/ manifestTable[mid] = None /\ \A k \in ManifestIDs : manifestTable[k] # m

-----------------------------------------------------------------------------
Init ==
  /\ backendPacks = {} /\ savedPacks = {} /\ backendManifests = {}
  /\ manifestTable = [m \in ManifestIDs |-> None]
  /\ faults = 0
  /\ phase = [r \in Runners |-> "off"]
  /\ casObjects = [r \in Runners |-> {}]
  /\ acObjects = [r \in Runners |-> [a \in Actions |-> None]]
  /\ loadedPacks = [r \in Runners |-> {}]
  /\ todo = [r \in Runners |-> {}]
  /\ view = [r \in Runners |-> {}]
  /\ packs = [r \in Runners |-> {}]
  /\ cas = [r \in Runners |-> [d \in CAS |-> None]]
  /\ actions = [r \in Runners |-> [a \in Actions |-> None]]
  /\ actionConflicts = [r \in Runners |-> {}]
  /\ heads = [r \in Runners |-> {}]
  /\ uploading = [r \in Runners |-> {}]
  /\ pendingCAS = [r \in Runners |-> <<>>]
  /\ pendingActions = [r \in Runners |-> [a \in Actions |-> None]]
  /\ published = [r \in Runners |-> {}]
  /\ flush = [r \in Runners |-> NoBatch]
  /\ requests = [r \in Runners |-> {}]
  /\ puts = [r \in Runners |-> 0]
  /\ putValues = [r \in Runners |-> {}]
  /\ served = [r \in Runners |-> {}]

-----------------------------------------------------------------------------
(* Discovery.  The catalog is listed once; a listed manifest that can no    *)
(* longer be loaded is ignored; a listing over the limit or a failing one   *)
(* leaves the index empty when the server fails open and ends it otherwise. *)

ListOutcomes ==
  (IF Cardinality(backendManifests) <= MaxManifests
     THEN SUBSET backendManifests ELSE {})
  \cup (IF FailOpen THEN {{}} ELSE {})

Start(r) ==
  /\ phase[r] = "off"
  /\ Cardinality({s \in Runners : phase[s] \notin {"off", "gone"}}) < MaxRunning
  /\ \E listed \in ListOutcomes : todo' = [todo EXCEPT ![r] = listed]
  /\ phase' = [phase EXCEPT ![r] = "discovering"]
  /\ UNCHANGED <<backendVars, faults, spoolVars, indexVars, stagingVars,
                 clientVars>>

\* The merges of applyManifestLocked.  Of two packs with the same object
\* the smaller name wins; of two results for one action the first one merged.
MergeCAS(index, m) ==
  [d \in CAS |->
     IF d \in m.cas /\ (index[d] = None \/ PackRank[m.pack] < PackRank[index[d]])
       THEN m.pack ELSE index[d]]

\* Mutant: an absent entry of the manifest is merged too.
MergeActionsMutant(index, m) ==
  [a \in Actions |->
     IF index[a] = None THEN [res |-> m.actions[a], pack |-> m.pack] ELSE index[a]]

MergeActions(index, m) ==
  [a \in Actions |->
     IF index[a] = None /\ m.actions[a] # None
       THEN [res |-> m.actions[a], pack |-> m.pack] ELSE index[a]]

NewConflicts(index, m) ==
  {a \in Actions : /\ m.actions[a] # None
                   /\ index[a] # None
                   /\ index[a].res # m.actions[a]}

\* Mutant: the new manifest becomes the only head.
MergeHeadsMutant(current, id, m) == {id}

MergeHeads(current, id, m) == (current \ m.parents) \cup {id}

MergePacks(current, m) == current \cup {m.pack}

\* applyManifestLocked
ApplyManifest(r, id, m) ==
  /\ packs' = [packs EXCEPT ![r] = MergePacks(@, m)]
  /\ cas' = [cas EXCEPT ![r] = MergeCAS(@, m)]
  /\ actionConflicts' = [actionConflicts EXCEPT ![r] =
                           @ \cup NewConflicts(actions[r], m)]
  /\ actions' = [actions EXCEPT ![r] = MergeActions(@, m)]
  /\ heads' = [heads EXCEPT ![r] = MergeHeads(@, id, m)]
  /\ view' = [view EXCEPT ![r] = @ \cup {id}]

\* The loop of discover: names in sorted order.  Its own insertion of an
\* unreferenced name into heads repeats what applyManifestLocked just did.
MergeNext(r) ==
  /\ phase[r] = "discovering"
  /\ \E id \in todo[r] :
       /\ \A other \in todo[r] : id <= other
       /\ ApplyManifest(r, id, manifestTable[id])
       /\ todo' = [todo EXCEPT ![r] = @ \ {id}]
  /\ UNCHANGED <<backendVars, faults, phase, spoolVars, stagingVars, clientVars>>

Ready(r) ==
  /\ phase[r] = "discovering"
  /\ todo[r] = {}
  /\ phase' = [phase EXCEPT ![r] = "serving"]
  /\ UNCHANGED <<backendVars, faults, spoolVars, todo, indexVars, stagingVars,
                 clientVars>>

-----------------------------------------------------------------------------
(* Requests.  A request that arrived before the shutdown may still run      *)
(* while the process closes and drains: the HTTP server waits ten seconds   *)
(* for handlers and then goes on without them.                              *)

Handling(r) == phase[r] \in {"serving", "closing", "draining"}

\* packStore.mu is free: the flush holds it from selection to the end, and
\* the final flush(all) never lets go of it.
MuFree(r) == phase[r] \in {"serving", "closing"} /\ flush[r] = NoBatch

\* loadPack and downloadPack succeed: the pack is in the spool directory, or
\* the backend still has it and it passes the download limit.
Loadable(r, pack) ==
  \/ pack \in loadedPacks[r]
  \/ /\ pack \in packs[r]
     /\ pack \in backendPacks
     /\ PackBytes(pack) <= MaxBlobSize

\* Mutant: an index entry counts as existence, nothing is made local.
ResolveCASMutant(r, d) ==
  d \notin casObjects[r] /\ cas[r][d] # None /\ UNCHANGED spoolVars

\* resolve of a CAS object that is not in the spool yet, up to materialize.
\* The index entry is read under mu and used after mu is released; a flush
\* that holds mu meanwhile changes no entry that is already there.
ResolveCAS(r, d) ==
  /\ d \notin casObjects[r]
  /\ cas[r][d] # None
  /\ d \in cas[r][d].cas
  /\ Loadable(r, cas[r][d])
  /\ casObjects' = [casObjects EXCEPT ![r] = @ \cup {d}]
  /\ loadedPacks' = [loadedPacks EXCEPT ![r] = @ \cup {cas[r][d]}]
  /\ UNCHANGED acObjects

PutCAS(r, d) ==
  /\ Handling(r)
  /\ Size[d] <= MaxBlobSize
  /\ casObjects' = [casObjects EXCEPT ![r] = @ \cup {d}]
  /\ uploading' = [uploading EXCEPT ![r] =
                     IF r \in Writers THEN @ \cup {d} ELSE @]
  /\ UNCHANGED <<backendVars, faults, phase, acObjects, loadedPacks, todo,
                 indexVars, pendingCAS, pendingActions, published, flush,
                 clientVars>>

\* Mutant: stageCAS does not look for the object in the index.
AlreadyStagedMutant(r, d) == d \in SeqRange(pendingCAS[r])

AlreadyStaged(r, d) == d \in SeqRange(pendingCAS[r]) \/ cas[r][d] # None

\* The rest of the PUT: stageCAS, under mu.
StageCAS(r, d) ==
  /\ d \in uploading[r]
  /\ MuFree(r)
  /\ uploading' = [uploading EXCEPT ![r] = @ \ {d}]
  /\ pendingCAS' = [pendingCAS EXCEPT ![r] =
       IF AlreadyStaged(r, d) THEN @ ELSE Append(@, d)]
  /\ UNCHANGED <<backendVars, faults, phase, spoolVars, todo, indexVars,
                 pendingActions, published, flush, clientVars>>

GetCAS(r, d) ==
  /\ Handling(r)
  /\ ResolveCAS(r, d)
  /\ UNCHANGED <<backendVars, faults, phase, todo, indexVars, stagingVars,
                 clientVars>>

\* Mutant: the last object wins.
StoredMutant(r, a, v) == v

\* The object stored under an action key is the first one that got there.
Stored(r, a, v) == IF acObjects[r][a] = None THEN v ELSE acObjects[r][a]

Validating(op, a, v) ==
  [op |-> op, act |-> a, res |-> v, pack |-> None, todo |-> Closure[v]]

PutAC(r, a, v) ==
  /\ Handling(r)
  /\ Size[v] <= MaxBlobSize
  /\ puts[r] < MaxPuts
  /\ Cardinality(requests[r]) < MaxRequests
  /\ acObjects' = [acObjects EXCEPT ![r][a] = Stored(r, a, v)]
  /\ requests' = [requests EXCEPT ![r] =
       IF r \in Writers THEN @ \cup {Validating("put", a, Stored(r, a, v))} ELSE @]
  /\ puts' = [puts EXCEPT ![r] = @ + 1]
  /\ putValues' = [putValues EXCEPT ![r] = @ \cup {<<a, v>>}]
  /\ UNCHANGED <<backendVars, faults, phase, casObjects, loadedPacks, todo,
                 indexVars, stagingVars, served>>

GetAC(r, a) ==
  /\ Handling(r)
  /\ acObjects[r][a] # None
  /\ Cardinality(requests[r]) < MaxRequests
  /\ requests' = [requests EXCEPT ![r] =
                    @ \cup {Validating("get", a, acObjects[r][a])}]
  /\ UNCHANGED <<backendVars, faults, phase, spoolVars, todo, indexVars,
                 stagingVars, puts, putValues, served>>

Found(r, a) == a \notin actionConflicts[r] /\ actions[r][a] # None

\* resolve of an action result, under mu; a conflict is a miss.
LookupAC(r, a) ==
  /\ Handling(r)
  /\ MuFree(r)
  /\ acObjects[r][a] = None
  /\ Found(r, a)
  /\ Cardinality(requests[r]) < MaxRequests
  /\ requests' = [requests EXCEPT ![r] = @ \cup
       {[op |-> "load", act |-> a, res |-> actions[r][a].res,
         pack |-> actions[r][a].pack, todo |-> {}]}]
  /\ UNCHANGED <<backendVars, faults, phase, spoolVars, todo, indexVars,
                 stagingVars, puts, putValues, served>>

\* loadPack, readCARBlock and materialize, after mu was released; the object
\* that another request stored meanwhile wins.
MaterializeAC(r, q) ==
  LET v == Stored(r, q.act, q.res)
  IN  /\ Handling(r)
      /\ q.op = "load"
      /\ Loadable(r, q.pack)
      /\ q.res \in q.pack.res
      /\ acObjects' = [acObjects EXCEPT ![r][q.act] = v]
      /\ loadedPacks' = [loadedPacks EXCEPT ![r] = @ \cup {q.pack}]
      /\ requests' = [requests EXCEPT ![r] =
                        (@ \ {q}) \cup {Validating("get", q.act, v)}]
      /\ UNCHANGED <<backendVars, faults, phase, casObjects, todo, indexVars,
                     stagingVars, puts, putValues, served>>

\* One step of validateActionResultClosure: a referenced object is local, or
\* is made local.
CheckRef(r, q, d) ==
  /\ Handling(r)
  /\ q.op \in {"get", "put"}
  /\ d \in q.todo
  /\ \/ d \in casObjects[r] /\ UNCHANGED spoolVars
     \/ ResolveCAS(r, d)
  /\ requests' = [requests EXCEPT ![r] =
                    (@ \ {q}) \cup {[q EXCEPT !.todo = @ \ {d}]}]
  /\ UNCHANGED <<backendVars, faults, phase, todo, indexVars, stagingVars, puts,
                 putValues, served>>

\* The request ends as a miss, as a skipped upload or as an error: a pack or
\* a referenced object is missing, the backend failed or the client left.
Abandon(r, q) ==
  /\ Handling(r)
  /\ \/ q.op = "load" /\ q.pack \notin loadedPacks[r]
     \/ q.op # "load" /\ ~(q.todo \subseteq casObjects[r])
  /\ requests' = [requests EXCEPT ![r] = @ \ {q}]
  /\ UNCHANGED <<backendVars, faults, phase, spoolVars, todo, indexVars,
                 stagingVars, puts, putValues, served>>

Serve(r, q) ==
  /\ Handling(r)
  /\ q.op = "get"
  /\ q.todo = {}
  /\ requests' = [requests EXCEPT ![r] = @ \ {q}]
  /\ served' = [served EXCEPT ![r] = @ \cup {<<q.act, q.res>>}]
  /\ UNCHANGED <<backendVars, faults, phase, spoolVars, todo, indexVars,
                 stagingVars, puts, putValues>>

\* stageAction, with its conflict branch.
StageAction(r, q) ==
  /\ q.op = "put"
  /\ q.todo = {}
  /\ MuFree(r)
  /\ requests' = [requests EXCEPT ![r] = @ \ {q}]
  /\ IF pendingActions[r][q.act] \notin {None, q.res}
       THEN /\ pendingActions' = [pendingActions EXCEPT ![r][q.act] = None]
            /\ actionConflicts' = [actionConflicts EXCEPT ![r] = @ \cup {q.act}]
       ELSE /\ pendingActions' = [pendingActions EXCEPT ![r][q.act] = q.res]
            /\ UNCHANGED actionConflicts
  /\ UNCHANGED <<backendVars, faults, phase, spoolVars, todo, view, packs, cas,
                 actions, heads, uploading, pendingCAS, published, flush, puts,
                 putValues, served>>

-----------------------------------------------------------------------------
(* The flush worker, and the final flush of Close.  mu is held throughout,  *)
(* so the batch does not change between the two saves.                      *)

CanFlush(r) ==
  /\ phase[r] \in {"serving", "closing", "draining"}
  /\ flush[r] = NoBatch

\* The final flush gives up at its first error; the worker tries again at its
\* next tick.
AfterFlushError(r) ==
  phase' = [phase EXCEPT ![r] = IF @ = "draining" THEN "failed" ELSE @]

Fault(kind) ==
  /\ kind \in FaultKinds
  /\ faults < MaxFaults
  /\ faults' = faults + 1

\* Mutant: a failed publication is remembered as published.
RememberMutant(r, pack, ok) ==
  published' = [published EXCEPT ![r] = @ \cup {pack}]

\* publishOnce remembers a key for the life of the server once it is saved.
Remember(r, pack, ok) ==
  published' = [published EXCEPT ![r] = IF ok THEN @ \cup {pack} ELSE @]

FlushPack(r) ==
  /\ CanFlush(r)
  /\ \E n \in 0..Len(pendingCAS[r]) :
       LET batch == BatchOf(r, n)
           pack  == PackOf(r, batch)
       IN  /\ SelectCAS(pendingCAS[r], n)
           /\ batch # NoBatch
           /\ IF pack \in published[r]
                THEN UNCHANGED <<backendPacks, savedPacks>>
                ELSE /\ backendPacks' = backendPacks \cup {pack}
                     /\ savedPacks' = savedPacks \cup {pack}
           /\ Remember(r, pack, TRUE)
           /\ flush' = [flush EXCEPT ![r] = batch]
  /\ UNCHANGED <<manifestTable, backendManifests, faults, phase, spoolVars, todo,
                 indexVars, uploading, pendingCAS, pendingActions, clientVars>>

\* The save of the pack reports an error; with a lost acknowledgement the
\* entry exists all the same.
FlushPackFails(r) ==
  /\ CanFlush(r)
  /\ \E n \in 0..Len(pendingCAS[r]) :
       LET batch == BatchOf(r, n)
           pack  == PackOf(r, batch)
       IN  /\ SelectCAS(pendingCAS[r], n)
           /\ batch # NoBatch
           /\ pack \notin published[r]
           /\ Remember(r, pack, FALSE)
           /\ \/ UNCHANGED <<backendPacks, savedPacks, faults>>
              \/ /\ Fault("lostAck")
                 /\ backendPacks' = backendPacks \cup {pack}
                 /\ savedPacks' = savedPacks \cup {pack}
  /\ AfterFlushError(r)
  /\ UNCHANGED <<manifestTable, backendManifests, spoolVars, todo, indexVars,
                 uploading, pendingCAS, pendingActions, flush, clientVars>>

SaveManifest(mid, m) ==
  /\ ManifestName(mid, m)
  /\ manifestTable' = [manifestTable EXCEPT ![mid] = m]
  /\ backendManifests' = backendManifests \cup {mid}

\* removePendingLocked: the batch is a prefix of the pending order.
RemovePending(r, batch) ==
  /\ pendingCAS' = [pendingCAS EXCEPT ![r] = SubSeq(@, batch.n + 1, Len(@))]
  /\ pendingActions' = [pendingActions EXCEPT ![r] =
       [a \in Actions |-> IF a \in batch.acts THEN None ELSE @[a]]]

FlushManifest(r) ==
  LET batch == flush[r]
      m     == ManifestFor(r, batch, PackOf(r, batch))
  IN  /\ flush[r] # NoBatch
      /\ Handling(r)
      /\ \E mid \in ManifestIDs :
           /\ SaveManifest(mid, m)
           /\ ApplyManifest(r, mid, m)
      /\ RemovePending(r, batch)
      /\ flush' = [flush EXCEPT ![r] = NoBatch]
      /\ UNCHANGED <<backendPacks, savedPacks, faults, phase, spoolVars, todo,
                     uploading, published, clientVars>>

FlushManifestFails(r) ==
  /\ flush[r] # NoBatch
  /\ Handling(r)
  /\ \/ UNCHANGED <<manifestTable, backendManifests, faults>>
     \/ /\ Fault("lostAck")
        /\ \E mid \in ManifestIDs :
             SaveManifest(mid, ManifestFor(r, flush[r], PackOf(r, flush[r])))
  /\ flush' = [flush EXCEPT ![r] = NoBatch]
  /\ AfterFlushError(r)
  /\ UNCHANGED <<backendPacks, savedPacks, spoolVars, todo, indexVars, uploading,
                 pendingCAS, pendingActions, published, clientVars>>

-----------------------------------------------------------------------------
(* Life of the process and faults of its environment.                       *)

LeaveState ==
  UNCHANGED <<spoolVars, todo, indexVars, stagingVars, clientVars>>

Shutdown(r) ==
  /\ phase[r] = "serving"
  /\ phase' = [phase EXCEPT ![r] = "closing"]
  /\ LeaveState /\ UNCHANGED <<backendVars, faults>>

\* close: the worker has ended, flush(all) takes mu.
Drain(r) ==
  /\ phase[r] = "closing"
  /\ flush[r] = NoBatch
  /\ phase' = [phase EXCEPT ![r] = "draining"]
  /\ LeaveState /\ UNCHANGED <<backendVars, faults>>

\* Mutants: the final flush looks at CAS objects only, or goes on until every
\* action result is gone.
NothingToFlushMutant(r) == pendingCAS[r] = <<>>

NothingToFlushMutant2(r) ==
  pendingCAS[r] = <<>> /\ \A a \in Actions : pendingActions[r][a] = None

\* flushOneLocked selects nothing and ends the loop of flush(all).
NothingToFlush(r) == pendingCAS[r] = <<>> /\ SelectActions(r, {}) = {}

Stop(r) ==
  /\ phase[r] = "draining"
  /\ flush[r] = NoBatch
  /\ NothingToFlush(r)
  /\ phase' = [phase EXCEPT ![r] = "stopped"]
  /\ LeaveState /\ UNCHANGED <<backendVars, faults>>

\* The process ends; its memory and its spool directory go with it.
Forget(r) ==
  /\ casObjects' = [casObjects EXCEPT ![r] = {}]
  /\ acObjects' = [acObjects EXCEPT ![r] = [a \in Actions |-> None]]
  /\ loadedPacks' = [loadedPacks EXCEPT ![r] = {}]
  /\ todo' = [todo EXCEPT ![r] = {}]
  /\ view' = [view EXCEPT ![r] = {}]
  /\ packs' = [packs EXCEPT ![r] = {}]
  /\ cas' = [cas EXCEPT ![r] = [d \in CAS |-> None]]
  /\ actions' = [actions EXCEPT ![r] = [a \in Actions |-> None]]
  /\ actionConflicts' = [actionConflicts EXCEPT ![r] = {}]
  /\ heads' = [heads EXCEPT ![r] = {}]
  /\ uploading' = [uploading EXCEPT ![r] = {}]
  /\ pendingCAS' = [pendingCAS EXCEPT ![r] = <<>>]
  /\ pendingActions' = [pendingActions EXCEPT ![r] = [a \in Actions |-> None]]
  /\ published' = [published EXCEPT ![r] = {}]
  /\ flush' = [flush EXCEPT ![r] = NoBatch]
  /\ requests' = [requests EXCEPT ![r] = {}]
  /\ puts' = [puts EXCEPT ![r] = 0]
  /\ putValues' = [putValues EXCEPT ![r] = {}]
  /\ served' = [served EXCEPT ![r] = {}]
  /\ phase' = [phase EXCEPT ![r] = "gone"]
  /\ UNCHANGED backendVars

Exit(r) ==
  /\ phase[r] \in {"stopped", "failed"}
  /\ Forget(r)
  /\ UNCHANGED faults

Crash(r) ==
  /\ phase[r] \notin {"off", "gone"}
  /\ Fault("crash")
  /\ Forget(r)

\* GitHub evicts entries by age and by total size, in no order the server
\* could rely on.  "evictIdle" restricts it to times when no server runs.
Evicting ==
  \/ Fault("evict")
  \/ /\ Fault("evictIdle")
     /\ \A r \in Runners : phase[r] \in {"off", "gone"}

EvictPack ==
  /\ Evicting
  /\ \E pack \in backendPacks : backendPacks' = backendPacks \ {pack}
  /\ LeaveState /\ UNCHANGED <<savedPacks, manifestTable, backendManifests, phase>>

EvictManifest ==
  /\ Evicting
  /\ \E mid \in backendManifests : backendManifests' = backendManifests \ {mid}
  /\ LeaveState /\ UNCHANGED <<savedPacks, manifestTable, backendPacks, phase>>

-----------------------------------------------------------------------------
RequestStep(r) ==
  \/ \E d \in CAS : PutCAS(r, d) \/ StageCAS(r, d) \/ GetCAS(r, d)
  \/ \E a \in Actions : GetAC(r, a) \/ LookupAC(r, a)
  \/ \E a \in Actions, v \in Results : PutAC(r, a, v)
  \/ \E q \in requests[r] :
       \/ MaterializeAC(r, q)
       \/ Abandon(r, q)
       \/ Serve(r, q)
       \/ StageAction(r, q)
       \/ \E d \in CAS : CheckRef(r, q, d)

FlushStep(r) ==
  FlushPack(r) \/ FlushPackFails(r) \/ FlushManifest(r) \/ FlushManifestFails(r)

LifeStep(r) ==
  Start(r) \/ MergeNext(r) \/ Ready(r) \/ Shutdown(r) \/ Drain(r) \/ Stop(r)
  \/ Exit(r)

Next ==
  \/ \E r \in Runners : RequestStep(r) \/ FlushStep(r) \/ LifeStep(r) \/ Crash(r)
  \/ EvictPack
  \/ EvictManifest

Spec == Init /\ [][Next]_vars
-----------------------------------------------------------------------------
(* Properties.                                                              *)

\* A manifest name is bound once the manifest was saved for the first time.
Committed == {m \in ManifestIDs : manifestTable[m] # None}

CommittedCAS == UNION {manifestTable[m].cas : m \in Committed}

\* The pairs <<action, result>> that manifest m advertises.
ResultsOf(m) ==
  {<<a, m.actions[a]>> : a \in {b \in Actions : m.actions[b] # None}}

CommittedResults == UNION {ResultsOf(manifestTable[m]) : m \in Committed}

Known(r) == {d \in CAS : cas[r][d] # None}

Pending(r) == SeqRange(pendingCAS[r])

\* Type invariant: every variable of the server and of the backend.
TypeOK ==
  /\ backendPacks \in SUBSET Packs
  /\ savedPacks \in SUBSET Packs
  /\ manifestTable \in [ManifestIDs -> Manifests \cup {None}]
  /\ backendManifests \in SUBSET ManifestIDs
  /\ faults \in Nat
  /\ phase \in [Runners -> {"off", "discovering", "serving", "closing",
                            "draining", "stopped", "failed", "gone"}]
  /\ casObjects \in [Runners -> SUBSET CAS]
  /\ acObjects \in [Runners -> [Actions -> Results \cup {None}]]
  /\ loadedPacks \in [Runners -> SUBSET Packs]
  /\ todo \in [Runners -> SUBSET ManifestIDs]
  /\ view \in [Runners -> SUBSET ManifestIDs]
  /\ packs \in [Runners -> SUBSET Packs]
  /\ cas \in [Runners -> [CAS -> Packs \cup {None}]]
  /\ actions \in [Runners -> [Actions -> ActionEntries \cup {None}]]
  /\ actionConflicts \in [Runners -> SUBSET Actions]
  /\ heads \in [Runners -> SUBSET ManifestIDs]
  /\ uploading \in [Runners -> SUBSET CAS]
  /\ pendingCAS \in [Runners -> Seq(CAS)]
  /\ pendingActions \in [Runners -> [Actions -> Results \cup {None}]]
  /\ published \in [Runners -> SUBSET Packs]
  /\ flush \in [Runners -> Batches]
  /\ requests \in [Runners -> SUBSET Requests]
  /\ puts \in [Runners -> Nat]
  /\ putValues \in [Runners -> SUBSET (Actions \X Results)]
  /\ served \in [Runners -> SUBSET (Actions \X Results)]

\* The commit order: whatever crashes, fails or is retried, a manifest is only
\* saved after its pack was, it lists nothing that the pack does not contain,
\* and its parents were saved before it.
PackBeforeManifest ==
  \A id \in Committed :
    LET m == manifestTable[id]
    IN  /\ m.pack \in savedPacks
        /\ m.cas \subseteq m.pack.cas
        /\ \A a \in Actions : m.actions[a] # None => m.actions[a] \in m.pack.res
        /\ m.parents \subseteq Committed \ {id}

\* A manifest that advertises an action result names, in closurePacks, saved
\* packs that together contain the whole CAS closure of the result: a runner
\* that restores these packs can complete the action.
ClosureAdvertised ==
  \A id \in Committed, a \in Actions :
    LET m == manifestTable[id]
    IN  m.actions[a] # None =>
          /\ m.closurePacks[a] \subseteq savedPacks
          /\ Closure[m.actions[a]] \subseteq
               UNION {pack.cas : pack \in m.closurePacks[a]}

\* resolve never follows a dangling entry: the index points to packs whose
\* descriptor is known and that contain the object, so the error branch
\* "manifest references unavailable pack" is dead.
IndexGrounded ==
  \A r \in Runners :
    /\ \A d \in Known(r) :
         cas[r][d] \in packs[r] \cap savedPacks /\ d \in cas[r][d].cas
    /\ \A a \in Actions : actions[r][a] # None =>
         /\ actions[r][a].pack \in packs[r] \cap savedPacks
         /\ actions[r][a].res \in actions[r][a].pack.res

\* A GET of /ac answers 200 only when every referenced CAS object is in the
\* spool directory of this runner, where Bazel's following reads find it
\* whatever happens to the backend.
ServedClosureIsLocal ==
  \A r \in Runners : \A x \in served[r] : Closure[x[2]] \subseteq casObjects[r]

\* Two manifests that a runner has merged disagree about action a.
Disagree(r, a) ==
  \E v, w \in Results : /\ v # w
                        /\ \E m \in view[r] : manifestTable[m].actions[a] = v
                        /\ \E m \in view[r] : manifestTable[m].actions[a] = w

\* When the merged manifests disagree about an action, the runner serves no
\* result for it, unless a client of this very runner uploaded that result.
NoSilentChoice ==
  \A r \in Runners : \A x \in served[r] :
    Disagree(r, x[1]) => x \in putValues[r]

\* The final flush ends without an error only when everything staged is
\* committed; an action result that stays behind refers to an object whose
\* upload the HTTP shutdown cut off before it was staged.
DrainComplete ==
  \A r \in Runners : phase[r] = "stopped" =>
    /\ pendingCAS[r] = <<>>
    /\ \A a \in Actions : pendingActions[r][a] # None =>
         Closure[pendingActions[r][a]] \cap uploading[r] # {}

\* Merged manifests that no other merged manifest names as a parent.
Unreferenced(r) ==
  {m \in view[r] : \A k \in view[r] : m \notin manifestTable[k].parents}

\* Concurrent commits are never dropped from the DAG: the next manifest of a
\* runner descends from everything the runner has merged.
NoHeadLost ==
  \A r \in Runners : Unreferenced(r) \subseteq heads[r] /\ heads[r] \subseteq view[r]

\* Nothing is published twice by one runner: an object is pending at most
\* once and only while no merged manifest has it.
StagedOnce ==
  \A r \in Runners :
    /\ Pending(r) \cap Known(r) = {}
    /\ \A i, j \in 1..Len(pendingCAS[r]) :
         pendingCAS[r][i] = pendingCAS[r][j] => i = j

\* The clients of a job see one result for a key, and a manifest that the job
\* saves advertises no other, although lookups read the index under mu and fill
\* the spool later, and an upload of another result may come in between.
\* An upload that the spool does not take (server.go:488-495) is no conflict
\* here, although stageAction's comment (pack_store.go:158-161) makes it one.
OneResult ==
  \A r \in Runners :
    /\ \A x, y \in served'[r] : x[1] = y[1] => x = y
    /\ flush[r] # NoBatch /\ flush'[r] = NoBatch =>
         \A id \in Committed' \ Committed, x \in served[r] :
           manifestTable'[id].actions[x[1]] \in {None, x[2]}

OneResultPerJob == [][OneResult]_vars

-----------------------------------------------------------------------------
(* The packed mode implements the durable cache.                            *)

Durable == INSTANCE DurableCache
             WITH objects <- CommittedCAS, results <- CommittedResults

\* The save of a manifest is the only commit point: it makes a whole batch
\* visible, with every result's closure, and nothing else ever changes what
\* later runners can find.
ImplementsDurableCache == Durable!Spec

-----------------------------------------------------------------------------
(* Liveness.  Clients and faults owe nothing.  The process owes its own     *)
(* steps.  The worker's ticker repeats a failed flush, so the saves are     *)
(* assumed to succeed if they are tried again and again (strong fairness),  *)
(* and a handler that waits for mu gets it in the end, which sync.Mutex     *)
(* guarantees.                                                              *)

Fairness ==
  \A r \in Runners :
    /\ WF_vars(MergeNext(r)) /\ WF_vars(Ready(r))
    /\ WF_vars(Drain(r)) /\ WF_vars(Stop(r)) /\ WF_vars(Exit(r))
    /\ SF_vars(FlushPack(r)) /\ SF_vars(FlushManifest(r))
    /\ \A d \in CAS : SF_vars(StageCAS(r, d))

FairSpec == Spec /\ Fairness

Ended(r) == phase[r] \in {"failed", "gone"}

\* Whatever is staged is committed unless the process ends: an object, however
\* large it is and whatever is staged before it, and an action result, whose
\* closure may have been committed long before or may only be on its way.
StagedIsCommitted ==
  \A r \in Runners :
    /\ \A d \in CAS : d \in Pending(r) ~> (d \in Known(r) \/ Ended(r))
    /\ \A a \in Actions :
         pendingActions[r][a] # None ~>
           (pendingActions[r][a] = None \/ phase[r] = "stopped" \/ Ended(r))

\* A requested shutdown ends the process, whatever is still pending.
ShutdownCompletes ==
  \A r \in Runners : phase[r] = "closing" ~> phase[r] = "gone"

-----------------------------------------------------------------------------
(* A statement of the repository that the code does not keep.               *)

\* README: "AC publication only after every referenced CAS object is
\* persistent".
PublishedClosureIsPersistent ==
  [][\A id \in backendManifests' \ backendManifests, a \in Actions :
       LET v == manifestTable'[id].actions[a]
       IN  v # None => Closure[v] \subseteq UNION {p.cas : p \in backendPacks}]_vars
=============================================================================
