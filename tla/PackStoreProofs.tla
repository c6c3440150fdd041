--------------------------- MODULE PackStoreProofs ---------------------------
(***************************************************************************)
(* Theorems about PackStore, for every set of runners, objects and         *)
(* results, every closure, every order of hashes and every bound.          *)
(*                                                                         *)
(* The inductive invariant CommitInv ties the three places where a batch   *)
(* lives: the index of the runner that stages it, the batch between the    *)
(* two saves of a flush, and the manifests in the backend.  With it,       *)
(* PackStore implements DurableCache.  The last part is about what one     *)
(* runner serves, stages and merges.                                       *)
(***************************************************************************)
EXTENDS PackStore, TLAPS

-----------------------------------------------------------------------------
(* The inductive invariant.                                                 *)

\* Every name that a runner or the catalog holds was saved.
NamesBound ==
  /\ backendManifests \subseteq Committed
  /\ \A r \in Runners : /\ todo[r] \subseteq Committed
                        /\ view[r] \subseteq Committed
                        /\ heads[r] \subseteq view[r]

\* publishOnce remembers only what the backend accepted.
PublishedIsSaved == \A r \in Runners : published[r] \subseteq savedPacks

\* The objects of the index come from manifests that were saved.
KnownIsCommitted == \A r \in Runners : Known(r) \subseteq CommittedCAS

\* Every object that result v needs is in the batch or in the index.
Eligible(r, v, selected) ==
  \A d \in Closure[v] : d \in selected \/ cas[r][d] # None

\* Between the two saves of a flush the batch is still what was selected, and
\* its pack is saved.
StableBatch(r) ==
  /\ flush[r].n <= Len(pendingCAS[r])
  /\ flush[r].cas = {pendingCAS[r][i] : i \in 1..flush[r].n}
  /\ \A a \in flush[r].acts : /\ pendingActions[r][a] # None
                              /\ Eligible(r, pendingActions[r][a], flush[r].cas)
  /\ flush[r] # NoBatch => PackOf(r, flush[r]) \in savedPacks

BatchStable == \A r \in Runners : StableBatch(r)

CommitInv ==
  /\ TypeOK
  /\ NamesBound
  /\ PublishedIsSaved
  /\ KnownIsCommitted
  /\ BatchStable
  /\ IndexGrounded
  /\ PackBeforeManifest
  /\ ClosureAdvertised

-----------------------------------------------------------------------------
(* What the operators return.                                               *)

\* The pack of a batch of staged objects and results is a pack.
LEMMA PackOfType ==
  ASSUME TypeOK, NEW r \in Runners, NEW b \in Batches,
         \A a \in b.acts : pendingActions[r][a] # None
  PROVE  PackOf(r, b) \in Packs
  BY DEF TypeOK, PackOf, Packs, Batches

\* The batch that flushOneLocked selects is a batch of staged, eligible
\* results.
LEMMA BatchOfType ==
  ASSUME TypeOK, NEW r \in Runners, NEW n \in 0..Len(pendingCAS[r])
  PROVE  /\ BatchOf(r, n) \in Batches
         /\ BatchOf(r, n).n = n
         /\ BatchOf(r, n).cas = {pendingCAS[r][i] : i \in 1..n}
         /\ \A a \in BatchOf(r, n).acts :
              /\ pendingActions[r][a] # None
              /\ Eligible(r, pendingActions[r][a], BatchOf(r, n).cas)
         /\ PackOf(r, BatchOf(r, n)) \in Packs
<1> DEFINE b == BatchOf(r, n)
<1>1. {pendingCAS[r][i] : i \in 1..n} \subseteq CAS
  BY DEF TypeOK
<1>2. b \in Batches /\ b.n = n /\ b.cas = {pendingCAS[r][i] : i \in 1..n}
  BY <1>1 DEF BatchOf, Batches, SelectActions
<1>3. \A a \in b.acts : /\ pendingActions[r][a] # None
                        /\ Eligible(r, pendingActions[r][a], b.cas)
  BY DEF BatchOf, SelectActions, Eligible
<1> QED BY <1>2, <1>3, PackOfType

\* The manifest of a stable batch is a manifest whose entries are all in its
\* saved pack and whose results come with a saved closure.
LEMMA ManifestForBatch ==
  ASSUME CommitInv, NEW r \in Runners, flush[r] # NoBatch,
         NEW m, m = ManifestFor(r, flush[r], PackOf(r, flush[r]))
  PROVE  /\ m \in Manifests
         /\ m # None
         /\ m.parents = heads[r]
         /\ m.pack \in savedPacks
         /\ m.cas = flush[r].cas
         /\ m.cas \subseteq m.pack.cas
         /\ \A a \in Actions : m.actions[a] # None =>
              /\ m.actions[a] \in m.pack.res
              /\ Closure[m.actions[a]] \subseteq m.cas \cup Known(r)
              /\ m.closurePacks[a] \subseteq savedPacks
              /\ Closure[m.actions[a]] \subseteq
                   UNION {pack.cas : pack \in m.closurePacks[a]}
<1> DEFINE b == flush[r]
           p == PackOf(r, b)
<1>1. /\ b \in Batches /\ p \in Packs /\ p \in savedPacks
      /\ b.cas \subseteq CAS /\ b.acts \subseteq Actions
      /\ p.cas = b.cas /\ p.res = {pendingActions[r][a] : a \in b.acts}
  <2>1. b \in Batches /\ \A a \in b.acts : pendingActions[r][a] # None
    BY DEF CommitInv, TypeOK, BatchStable, StableBatch
  <2>2. p \in Packs BY <2>1, PackOfType DEF CommitInv
  <2>3. p \in savedPacks BY DEF CommitInv, BatchStable, StableBatch
  <2> QED BY <2>1, <2>2, <2>3 DEF Batches, PackOf
<1>2. ASSUME NEW a \in b.acts, NEW v, v = pendingActions[r][a]
      PROVE  /\ v \in Results
             /\ Closure[v] \subseteq CAS
             /\ Closure[v] \subseteq b.cas \cup Known(r)
             /\ ClosurePacks(r, b, p, v) \subseteq savedPacks
             /\ Closure[v] \subseteq UNION {pack.cas : pack \in ClosurePacks(r, b, p, v)}
  <2>1. v \in Results
    BY <1>1, <1>2 DEF CommitInv, TypeOK, BatchStable, StableBatch
  <2>2. Closure[v] \subseteq CAS
    BY <2>1, ConstantsAssumption DEF ConstantsAssumption
  <2>3. Closure[v] \subseteq b.cas \cup Known(r)
    BY <2>2, <1>2 DEF CommitInv, BatchStable, StableBatch, Eligible, Known
  <2>4. \A d \in Known(r) : cas[r][d] \in savedPacks /\ d \in cas[r][d].cas
    BY DEF CommitInv, IndexGrounded
  <2>5. ClosurePacks(r, b, p, v) \subseteq savedPacks
    BY <1>1, <2>2, <2>4 DEF ClosurePacks, Known
  <2>6. ASSUME NEW d \in Closure[v]
        PROVE  \E pack \in ClosurePacks(r, b, p, v) : d \in pack.cas
    <3>1. CASE d \in b.cas
      BY <3>1, <1>1 DEF ClosurePacks
    <3>2. CASE d \notin b.cas
      BY <3>2, <2>2, <2>3, <2>4 DEF ClosurePacks, Known
    <3> QED BY <3>1, <3>2
  <2> QED BY <2>1, <2>2, <2>3, <2>5, <2>6
<1>3. /\ m.parents = heads[r] /\ m.pack = p /\ m.cas = b.cas
      /\ m.actions = [a \in Actions |->
                        IF a \in b.acts THEN pendingActions[r][a] ELSE None]
      /\ m.closurePacks = [a \in Actions |->
                        IF a \in b.acts
                          THEN ClosurePacks(r, b, p, pendingActions[r][a])
                          ELSE {}]
  BY DEF ManifestFor
<1>4. m \in Manifests
  <2>1. savedPacks \subseteq Packs /\ heads[r] \subseteq ManifestIDs
    BY DEF CommitInv, TypeOK
  <2>2. m.actions \in [Actions -> Results \cup {None}]
    BY <1>2, <1>3
  <2>3. m.closurePacks \in [Actions -> SUBSET Packs]
    BY <1>2, <1>3, <2>1
  <2> QED BY <1>1, <1>3, <2>1, <2>2, <2>3 DEF ManifestFor, Manifests
<1>5. m # None BY <1>4, NoneAssumption DEF NoneAssumption
<1>6. ASSUME NEW a \in Actions, m.actions[a] # None
      PROVE  a \in b.acts /\ m.actions[a] = pendingActions[r][a]
             /\ m.closurePacks[a] = ClosurePacks(r, b, p, pendingActions[r][a])
  BY <1>3, <1>6
<1> QED BY <1>1, <1>2, <1>3, <1>4, <1>5, <1>6

\* Merging a manifest into an index keeps the index well-typed.
LEMMA ApplyManifestType ==
  ASSUME TypeOK, NEW r \in Runners, NEW id \in ManifestIDs, NEW m \in Manifests,
         ApplyManifest(r, id, m)
  PROVE  /\ packs' \in [Runners -> SUBSET Packs]
         /\ cas' \in [Runners -> [CAS -> Packs \cup {None}]]
         /\ actions' \in [Runners -> [Actions -> ActionEntries \cup {None}]]
         /\ actionConflicts' \in [Runners -> SUBSET Actions]
         /\ heads' \in [Runners -> SUBSET ManifestIDs]
         /\ view' \in [Runners -> SUBSET ManifestIDs]
<1>1. /\ m.pack \in Packs /\ m.parents \subseteq ManifestIDs
      /\ m.actions \in [Actions -> Results \cup {None}]
  BY DEF Manifests
<1>2. MergeCAS(cas[r], m) \in [CAS -> Packs \cup {None}]
  BY <1>1 DEF MergeCAS, TypeOK
<1>3. MergeActions(actions[r], m) \in [Actions -> ActionEntries \cup {None}]
  BY <1>1 DEF MergeActions, TypeOK, ActionEntries
<1>4. NewConflicts(actions[r], m) \subseteq Actions
  BY DEF NewConflicts
<1> QED BY <1>1, <1>2, <1>3, <1>4 DEF ApplyManifest, TypeOK, MergePacks, MergeHeads

\* Merging a manifest whose entries are in its saved pack keeps the index
\* grounded, and adds to it only what the manifest lists.
LEMMA ApplyManifestGrounded ==
  ASSUME TypeOK, IndexGrounded, NEW r \in Runners, NEW id \in ManifestIDs,
         NEW m \in Manifests, ApplyManifest(r, id, m), savedPacks' = savedPacks,
         m.pack \in savedPacks, m.cas \subseteq m.pack.cas,
         \A a \in Actions : m.actions[a] # None => m.actions[a] \in m.pack.res
  PROVE  /\ IndexGrounded'
         /\ \A s \in Runners : Known(s)' \subseteq Known(s) \cup m.cas
         /\ \A s \in Runners : Known(s) \subseteq Known(s)'
         /\ \A s \in Runners \ {r} : cas'[s] = cas[s]
<1>1. /\ packs' = [packs EXCEPT ![r] = packs[r] \cup {m.pack}]
      /\ cas' = [cas EXCEPT ![r] = MergeCAS(cas[r], m)]
      /\ actions' = [actions EXCEPT ![r] = MergeActions(actions[r], m)]
  BY DEF ApplyManifest, MergePacks
<1>2. m.pack \in Packs /\ m.pack # None /\ m.cas \subseteq CAS
  BY NoneAssumption DEF NoneAssumption, Manifests
<1>3. ASSUME NEW s \in Runners, s # r
      PROVE  packs'[s] = packs[s] /\ cas'[s] = cas[s] /\ actions'[s] = actions[s]
  BY <1>1, <1>3 DEF TypeOK
<1>4. /\ packs'[r] = packs[r] \cup {m.pack}
      /\ cas'[r] = MergeCAS(cas[r], m)
      /\ actions'[r] = MergeActions(actions[r], m)
  BY <1>1 DEF TypeOK
<1>5. ASSUME NEW d \in CAS
      PROVE  \/ cas'[r][d] = cas[r][d]
             \/ d \in m.cas /\ cas'[r][d] = m.pack
  BY <1>4 DEF MergeCAS
<1>6. ASSUME NEW a \in Actions
      PROVE  \/ actions'[r][a] = actions[r][a]
             \/ /\ m.actions[a] # None
                /\ actions'[r][a] = [res |-> m.actions[a], pack |-> m.pack]
  BY <1>4 DEF MergeActions
<1>7. ASSUME NEW s \in Runners, NEW d \in CAS, cas'[s][d] # None
      PROVE  cas'[s][d] \in packs'[s] \cap savedPacks /\ d \in cas'[s][d].cas
  <2>1. CASE s # r BY <2>1, <1>3, <1>7 DEF IndexGrounded, Known
  <2>2. CASE s = r BY <2>2, <1>4, <1>5, <1>7 DEF IndexGrounded, Known
  <2> QED BY <2>1, <2>2
<1>8. ASSUME NEW s \in Runners, NEW a \in Actions, actions'[s][a] # None
      PROVE  /\ actions'[s][a].pack \in packs'[s] \cap savedPacks
             /\ actions'[s][a].res \in actions'[s][a].pack.res
  <2>1. CASE s # r BY <2>1, <1>3, <1>8 DEF IndexGrounded
  <2>2. CASE s = r /\ actions'[r][a] = actions[r][a]
    <3>1. actions[r][a] # None BY <2>2, <1>8
    <3>2. /\ actions[r][a].pack \in packs[r] \cap savedPacks
          /\ actions[r][a].res \in actions[r][a].pack.res
      BY <3>1 DEF IndexGrounded
    <3> QED BY <2>2, <3>2, <1>4
  <2>3. CASE /\ s = r /\ m.actions[a] # None
             /\ actions'[r][a] = [res |-> m.actions[a], pack |-> m.pack]
    BY <2>3, <1>4
  <2> QED BY <2>1, <2>2, <2>3, <1>6
<1>9. IndexGrounded' BY <1>7, <1>8 DEF IndexGrounded, Known
<1>10. ASSUME NEW s \in Runners
       PROVE  Known(s)' \subseteq Known(s) \cup m.cas /\ Known(s) \subseteq Known(s)'
  <2>1. CASE s # r BY <2>1, <1>3 DEF Known
  <2>2. CASE s = r BY <2>2, <1>2, <1>5 DEF Known
  <2> QED BY <2>1, <2>2
<1> QED BY <1>3, <1>9, <1>10

\* Saving a manifest binds one name, to this content, and changes no other.
LEMMA SaveManifestEffect ==
  ASSUME TypeOK, NEW mid \in ManifestIDs, NEW m \in Manifests, SaveManifest(mid, m)
  PROVE  /\ manifestTable' \in [ManifestIDs -> Manifests \cup {None}]
         /\ backendManifests' = backendManifests \cup {mid}
         /\ manifestTable'[mid] = m
         /\ \A k \in Committed : manifestTable'[k] = manifestTable[k]
         /\ \A k \in ManifestIDs \ {mid} : manifestTable'[k] = manifestTable[k]
         /\ Committed' = Committed \cup {mid}
<1>1. m # None BY NoneAssumption DEF NoneAssumption
<1> QED BY <1>1 DEF SaveManifest, ManifestName, TypeOK, Committed

-----------------------------------------------------------------------------
(* Steps that leave the backend, the index and the staged writes alone.     *)

Quiet ==
  UNCHANGED <<backendVars, indexVars, pendingCAS, pendingActions, published, flush>>

\* Request handling up to staging, and most of the life of a process, is quiet.
LEMMA QuietSteps ==
  ASSUME NEW r \in Runners,
         \/ Start(r) \/ Ready(r) \/ Shutdown(r) \/ Drain(r) \/ Stop(r)
         \/ \E d \in CAS : PutCAS(r, d) \/ GetCAS(r, d)
         \/ \E a \in Actions : GetAC(r, a) \/ LookupAC(r, a)
         \/ \E a \in Actions, v \in Results : PutAC(r, a, v)
         \/ \E q \in requests[r] : MaterializeAC(r, q) \/ Abandon(r, q) \/ Serve(r, q)
         \/ \E q \in requests[r], d \in CAS : CheckRef(r, q, d)
  PROVE  Quiet
<1>1. CASE Start(r) \/ Ready(r) \/ Shutdown(r) \/ Drain(r) \/ Stop(r)
  BY <1>1 DEF Start, Ready, Shutdown, Drain, Stop, LeaveState, Quiet, backendVars,
              indexVars, stagingVars
<1>2. CASE \E d \in CAS : PutCAS(r, d) \/ GetCAS(r, d)
  BY <1>2 DEF PutCAS, GetCAS, Quiet, backendVars, indexVars, stagingVars
<1>3. CASE \E a \in Actions : GetAC(r, a) \/ LookupAC(r, a)
  BY <1>3 DEF GetAC, LookupAC, Quiet, backendVars, indexVars, stagingVars
<1>4. CASE \E a \in Actions, v \in Results : PutAC(r, a, v)
  BY <1>4 DEF PutAC, Quiet, backendVars, indexVars, stagingVars
<1>5. CASE \E q \in requests[r] : MaterializeAC(r, q) \/ Abandon(r, q) \/ Serve(r, q)
  BY <1>5 DEF MaterializeAC, Abandon, Serve, Quiet, backendVars, indexVars, stagingVars
<1>6. CASE \E q \in requests[r], d \in CAS : CheckRef(r, q, d)
  BY <1>6 DEF CheckRef, Quiet, backendVars, indexVars, stagingVars
<1> QED BY <1>1, <1>2, <1>3, <1>4, <1>5, <1>6

-----------------------------------------------------------------------------
(* Type correctness.                                                        *)

\* What is stored under an action key is a result.
LEMMA StoredType ==
  ASSUME TypeOK, NEW r \in Runners, NEW a \in Actions, NEW v \in Results
  PROVE  Stored(r, a, v) \in Results
  BY DEF TypeOK, Stored

\* A request under validation is a request.
LEMMA ValidatingType ==
  ASSUME NEW op \in {"get", "put"}, NEW a \in Actions, NEW v \in Results
  PROVE  Validating(op, a, v) \in Requests
  BY ConstantsAssumption DEF ConstantsAssumption, Validating, Requests

\* Requests keep the state well-typed.
LEMMA RequestStepType ==
  ASSUME TypeOK, NEW r \in Runners, RequestStep(r)
  PROVE  TypeOK'
<1>1. CASE \E d \in CAS : PutCAS(r, d)
  BY <1>1 DEF TypeOK, PutCAS, backendVars, indexVars, clientVars
<1>2. CASE \E d \in CAS : StageCAS(r, d)
  BY <1>2 DEF TypeOK, StageCAS, backendVars, spoolVars, indexVars, clientVars
<1>3. CASE \E d \in CAS : GetCAS(r, d)
  BY <1>3 DEF TypeOK, GetCAS, ResolveCAS, backendVars, indexVars, stagingVars,
              clientVars
<1>4. CASE \E a \in Actions : GetAC(r, a)
  <2>1. PICK a \in Actions : GetAC(r, a) BY <1>4
  <2>2. Validating("get", a, acObjects[r][a]) \in Requests
    BY <2>1, ValidatingType DEF TypeOK, GetAC
  <2> QED BY <2>1, <2>2 DEF TypeOK, GetAC, backendVars, spoolVars, indexVars,
                            stagingVars
<1>5. CASE \E a \in Actions : LookupAC(r, a)
  BY <1>5 DEF TypeOK, LookupAC, Found, Requests, ActionEntries, backendVars,
              spoolVars, indexVars, stagingVars
<1>6. CASE \E a \in Actions, v \in Results : PutAC(r, a, v)
  <2>1. PICK a \in Actions, v \in Results : PutAC(r, a, v) BY <1>6
  <2>2. Stored(r, a, v) \in Results BY StoredType
  <2>3. Validating("put", a, Stored(r, a, v)) \in Requests
    BY <2>2, ValidatingType
  <2>4. acObjects' \in [Runners -> [Actions -> Results \cup {None}]]
    BY <2>1, <2>2 DEF TypeOK, PutAC
  <2>5. requests' \in [Runners -> SUBSET Requests]
    BY <2>1, <2>3 DEF TypeOK, PutAC
  <2>6. putValues' \in [Runners -> SUBSET (Actions \X Results)]
    BY <2>1 DEF TypeOK, PutAC
  <2> QED BY <2>1, <2>4, <2>5, <2>6 DEF TypeOK, PutAC, backendVars, indexVars,
                                        stagingVars
<1>7. CASE \E q \in requests[r] : MaterializeAC(r, q)
  <2>1. PICK q \in requests[r] : MaterializeAC(r, q) BY <1>7
  <2>2. q.act \in Actions /\ q.res \in Results BY DEF TypeOK, Requests
  <2>3. DEFINE v == Stored(r, q.act, q.res)
  <2>4. v \in Results BY <2>2, StoredType
  <2>5. Validating("get", q.act, v) \in Requests BY <2>2, <2>4, ValidatingType
  <2>6. q.pack \in Packs BY <2>1 DEF TypeOK, MaterializeAC, Loadable
  <2>7. acObjects' \in [Runners -> [Actions -> Results \cup {None}]]
    BY <2>1, <2>2, <2>4 DEF TypeOK, MaterializeAC
  <2>8. loadedPacks' \in [Runners -> SUBSET Packs]
    BY <2>1, <2>6 DEF TypeOK, MaterializeAC
  <2>9. requests' \in [Runners -> SUBSET Requests]
    BY <2>1, <2>5 DEF TypeOK, MaterializeAC
  <2> QED BY <2>1, <2>7, <2>8, <2>9 DEF TypeOK, MaterializeAC, backendVars,
                                        indexVars, stagingVars
<1>8. CASE \E q \in requests[r] : Abandon(r, q)
  BY <1>8 DEF TypeOK, Abandon, backendVars, spoolVars, indexVars, stagingVars
<1>9. CASE \E q \in requests[r] : Serve(r, q)
  BY <1>9 DEF TypeOK, Serve, Requests, backendVars, spoolVars, indexVars, stagingVars
<1>10. CASE \E q \in requests[r] : StageAction(r, q)
  <2>1. PICK q \in requests[r] : StageAction(r, q) BY <1>10
  <2>2. q.act \in Actions /\ q.res \in Results BY DEF TypeOK, Requests
  <2>3. /\ pendingActions' \in [Runners -> [Actions -> Results \cup {None}]]
        /\ actionConflicts' \in [Runners -> SUBSET Actions]
    <3>1. CASE pendingActions[r][q.act] \notin {None, q.res}
      <4>1. /\ pendingActions' = [pendingActions EXCEPT ![r][q.act] = None]
            /\ actionConflicts' = [actionConflicts EXCEPT ![r] = @ \cup {q.act}]
        BY <2>1, <3>1 DEF StageAction
      <4> QED BY <4>1, <2>2 DEF TypeOK
    <3>2. CASE pendingActions[r][q.act] \in {None, q.res}
      <4>1. /\ pendingActions' = [pendingActions EXCEPT ![r][q.act] = q.res]
            /\ actionConflicts' = actionConflicts
        BY <2>1, <3>2 DEF StageAction
      <4> QED BY <4>1, <2>2 DEF TypeOK
    <3> QED BY <3>1, <3>2
  <2>5. requests' \in [Runners -> SUBSET Requests]
    BY <2>1 DEF TypeOK, StageAction
  <2> QED BY <2>1, <2>3, <2>5 DEF TypeOK, StageAction, backendVars, spoolVars
<1>11. CASE \E q \in requests[r], d \in CAS : CheckRef(r, q, d)
  <2>1. PICK q \in requests[r], d \in CAS : CheckRef(r, q, d) BY <1>11
  <2>2. q \in Requests BY DEF TypeOK
  <2>3. [q EXCEPT !.todo = q.todo \ {d}] \in Requests BY <2>2 DEF Requests
  <2>4. requests' \in [Runners -> SUBSET Requests]
    BY <2>1, <2>3 DEF TypeOK, CheckRef
  <2>5. /\ casObjects' \in [Runners -> SUBSET CAS]
        /\ loadedPacks' \in [Runners -> SUBSET Packs]
        /\ acObjects' = acObjects
    <3>1. CASE UNCHANGED spoolVars BY <3>1 DEF TypeOK, spoolVars
    <3>2. CASE ResolveCAS(r, d) BY <3>2 DEF TypeOK, ResolveCAS
    <3> QED BY <2>1, <3>1, <3>2 DEF CheckRef
  <2> QED BY <2>1, <2>4, <2>5 DEF TypeOK, CheckRef, backendVars, indexVars, stagingVars
<1> QED BY <1>1, <1>2, <1>3, <1>4, <1>5, <1>6, <1>7, <1>8, <1>9, <1>10, <1>11
        DEF RequestStep

\* Flushes keep the state well-typed.
LEMMA FlushStepType ==
  ASSUME CommitInv, NEW r \in Runners, FlushStep(r)
  PROVE  TypeOK'
<1> USE DEF CommitInv
<1>1. CASE FlushPack(r)
  <2>1. PICK n \in 0..Len(pendingCAS[r]) :
          LET pack == PackOf(r, BatchOf(r, n))
          IN  /\ \/ UNCHANGED <<backendPacks, savedPacks>>
                 \/ /\ backendPacks' = backendPacks \cup {pack}
                    /\ savedPacks' = savedPacks \cup {pack}
              /\ published' = [published EXCEPT ![r] = @ \cup {pack}]
              /\ flush' = [flush EXCEPT ![r] = BatchOf(r, n)]
    BY <1>1 DEF FlushPack, Remember
  <2>2. BatchOf(r, n) \in Batches /\ PackOf(r, BatchOf(r, n)) \in Packs
    BY BatchOfType
  <2>3. /\ backendPacks' \in SUBSET Packs /\ savedPacks' \in SUBSET Packs
        /\ published' \in [Runners -> SUBSET Packs]
        /\ flush' \in [Runners -> Batches]
    BY <2>1, <2>2 DEF TypeOK
  <2> QED BY <1>1, <2>3 DEF TypeOK, FlushPack, spoolVars, indexVars, clientVars
<1>2. CASE FlushPackFails(r)
  <2>1. PICK n \in 0..Len(pendingCAS[r]) :
          LET pack == PackOf(r, BatchOf(r, n))
          IN  /\ \/ UNCHANGED <<backendPacks, savedPacks, faults>>
                 \/ /\ backendPacks' = backendPacks \cup {pack}
                    /\ savedPacks' = savedPacks \cup {pack}
                    /\ faults' = faults + 1
              /\ published' = [published EXCEPT ![r] = @]
    BY <1>2 DEF FlushPackFails, Remember, Fault
  <2>2. PackOf(r, BatchOf(r, n)) \in Packs BY BatchOfType
  <2>3. /\ backendPacks' \in SUBSET Packs /\ savedPacks' \in SUBSET Packs
        /\ published' \in [Runners -> SUBSET Packs]
        /\ faults' \in Nat
    BY <2>1, <2>2 DEF TypeOK
  <2> QED BY <1>2, <2>3 DEF TypeOK, FlushPackFails, AfterFlushError, spoolVars,
                            indexVars, clientVars
<1>3. CASE FlushManifest(r)
  <2> DEFINE m == ManifestFor(r, flush[r], PackOf(r, flush[r]))
  <2>1. m \in Manifests BY <1>3, ManifestForBatch DEF FlushManifest
  <2>2. PICK mid \in ManifestIDs : SaveManifest(mid, m) /\ ApplyManifest(r, mid, m)
    BY <1>3 DEF FlushManifest
  <2>3. /\ manifestTable' \in [ManifestIDs -> Manifests \cup {None}]
        /\ backendManifests' \in SUBSET ManifestIDs
    BY <2>1, <2>2, SaveManifestEffect DEF TypeOK
  <2>4. /\ packs' \in [Runners -> SUBSET Packs]
        /\ cas' \in [Runners -> [CAS -> Packs \cup {None}]]
        /\ actions' \in [Runners -> [Actions -> ActionEntries \cup {None}]]
        /\ actionConflicts' \in [Runners -> SUBSET Actions]
        /\ heads' \in [Runners -> SUBSET ManifestIDs]
        /\ view' \in [Runners -> SUBSET ManifestIDs]
    BY <2>1, <2>2, ApplyManifestType
  <2>5. pendingCAS' \in [Runners -> Seq(CAS)]
    <3>1. /\ flush[r].n \in Nat /\ pendingCAS[r] \in Seq(CAS)
          /\ flush[r].n <= Len(pendingCAS[r])
      BY DEF TypeOK, Batches, BatchStable, StableBatch
    <3>2. SubSeq(pendingCAS[r], flush[r].n + 1, Len(pendingCAS[r])) \in Seq(CAS)
      BY <3>1
    <3> QED BY <1>3, <3>2 DEF TypeOK, FlushManifest, RemovePending
  <2>6. pendingActions' \in [Runners -> [Actions -> Results \cup {None}]]
    BY <1>3 DEF TypeOK, FlushManifest, RemovePending
  <2>7. flush' \in [Runners -> Batches]
    BY <1>3 DEF TypeOK, FlushManifest, NoBatch, Batches
  <2> QED BY <1>3, <2>3, <2>4, <2>5, <2>6, <2>7 DEF TypeOK, FlushManifest, RemovePending, spoolVars,
                                                   clientVars
<1>4. CASE FlushManifestFails(r)
  <2> DEFINE m == ManifestFor(r, flush[r], PackOf(r, flush[r]))
  <2>1. m \in Manifests BY <1>4, ManifestForBatch DEF FlushManifestFails
  <2>2. /\ manifestTable' \in [ManifestIDs -> Manifests \cup {None}]
        /\ backendManifests' \in SUBSET ManifestIDs
        /\ faults' \in Nat
    <3>1. CASE UNCHANGED <<manifestTable, backendManifests, faults>>
      BY <3>1 DEF TypeOK
    <3>2. CASE Fault("lostAck") /\ \E mid \in ManifestIDs : SaveManifest(mid, m)
      BY <3>2, <2>1, SaveManifestEffect DEF TypeOK, Fault
    <3> QED BY <1>4, <3>1, <3>2 DEF FlushManifestFails
  <2>3. flush' \in [Runners -> Batches]
    BY <1>4 DEF TypeOK, FlushManifestFails, NoBatch, Batches
  <2> QED BY <1>4, <2>2, <2>3 DEF TypeOK, FlushManifestFails, AfterFlushError,
                                  spoolVars, indexVars, clientVars
<1> QED BY <1>1, <1>2, <1>3, <1>4 DEF FlushStep

\* Discovery, shutdown, crashes and evictions keep the state well-typed.
LEMMA LifeStepType ==
  ASSUME CommitInv, NEW r \in Runners, LifeStep(r) \/ Crash(r)
  PROVE  TypeOK'
<1> USE DEF CommitInv, backendVars, spoolVars, indexVars, stagingVars, clientVars
<1>1. CASE Start(r) BY <1>1 DEF TypeOK, Start, ListOutcomes
<1>2. CASE MergeNext(r)
  <2>1. PICK id \in todo[r] : /\ ApplyManifest(r, id, manifestTable[id])
                              /\ todo' = [todo EXCEPT ![r] = @ \ {id}]
    BY <1>2 DEF MergeNext
  <2>2. id \in ManifestIDs /\ manifestTable[id] \in Manifests
    BY DEF TypeOK, NamesBound, Committed
  <2>3. /\ packs' \in [Runners -> SUBSET Packs]
        /\ cas' \in [Runners -> [CAS -> Packs \cup {None}]]
        /\ actions' \in [Runners -> [Actions -> ActionEntries \cup {None}]]
        /\ actionConflicts' \in [Runners -> SUBSET Actions]
        /\ heads' \in [Runners -> SUBSET ManifestIDs]
        /\ view' \in [Runners -> SUBSET ManifestIDs]
    BY <2>1, <2>2, ApplyManifestType
  <2> QED BY <1>2, <2>1, <2>3 DEF TypeOK, MergeNext
<1>3. CASE Ready(r) BY <1>3 DEF TypeOK, Ready
<1>4. CASE Shutdown(r) BY <1>4 DEF TypeOK, Shutdown, LeaveState
<1>5. CASE Drain(r) BY <1>5 DEF TypeOK, Drain, LeaveState
<1>6. CASE Stop(r) BY <1>6 DEF TypeOK, Stop, LeaveState
<1>7. CASE Exit(r) BY <1>7 DEF TypeOK, Exit, Forget, NoBatch, Batches
<1>8. CASE Crash(r) BY <1>8 DEF TypeOK, Crash, Fault, Forget, NoBatch, Batches
<1> QED BY <1>1, <1>2, <1>3, <1>4, <1>5, <1>6, <1>7, <1>8 DEF LifeStep

\* Evictions keep the types.
LEMMA EvictType ==
  ASSUME TypeOK, EvictPack \/ EvictManifest
  PROVE  TypeOK'
  BY DEF TypeOK, EvictPack, EvictManifest, Evicting, Fault, LeaveState, spoolVars,
         indexVars, stagingVars, clientVars

-----------------------------------------------------------------------------
(* The other conjuncts of CommitInv, one lemma per kind of step.            *)

CommitParts ==
  /\ NamesBound
  /\ PublishedIsSaved
  /\ KnownIsCommitted
  /\ BatchStable
  /\ IndexGrounded
  /\ PackBeforeManifest
  /\ ClosureAdvertised

\* What is committed stays well-formed while the set of saved packs grows and
\* the manifests and the index stay.
LEMMA BackendFrame ==
  ASSUME CommitInv, UNCHANGED <<manifestTable, packs, cas, actions>>,
         savedPacks \subseteq savedPacks'
  PROVE  /\ Committed' = Committed
         /\ KnownIsCommitted' /\ IndexGrounded'
         /\ PackBeforeManifest' /\ ClosureAdvertised'
<1>1. Committed' = Committed /\ CommittedCAS' = CommittedCAS
  BY DEF Committed, CommittedCAS
<1>2. \A r \in Runners : Known(r)' = Known(r) BY DEF Known
<1>3. KnownIsCommitted' BY <1>1, <1>2 DEF CommitInv, KnownIsCommitted
<1>4. IndexGrounded' BY <1>2 DEF CommitInv, IndexGrounded
<1>5. PackBeforeManifest' BY <1>1 DEF CommitInv, PackBeforeManifest
<1>6. ClosureAdvertised' BY <1>1 DEF CommitInv, ClosureAdvertised
<1> QED BY <1>1, <1>3, <1>4, <1>5, <1>6

\* The batches of the runners whose staged writes and index stay are stable.
LEMMA BatchFrame ==
  ASSUME CommitInv, savedPacks \subseteq savedPacks', NEW s \in Runners,
         flush'[s] = flush[s], pendingCAS'[s] = pendingCAS[s],
         pendingActions'[s] = pendingActions[s], cas'[s] = cas[s]
  PROVE  StableBatch(s)'
<1>1. StableBatch(s) BY DEF CommitInv, BatchStable
<1>2. PackOf(s, flush[s])' = PackOf(s, flush[s]) BY DEF PackOf
<1> QED BY <1>1, <1>2 DEF StableBatch, Eligible

\* An idle runner has a stable batch whatever it has staged.
LEMMA IdleBatch ==
  ASSUME NEW s \in Runners, flush'[s] = NoBatch, pendingCAS'[s] \in Seq(CAS)
  PROVE  StableBatch(s)'
  BY DEF NoBatch, StableBatch

\* Quiet steps, and Start, which takes its names from the catalog.
LEMMA QuietCommit ==
  ASSUME CommitInv, Quiet, \A r \in Runners : todo'[r] \subseteq Committed
  PROVE  CommitParts'
<1> USE DEF Quiet, backendVars, indexVars
<1>1. /\ Committed' = Committed /\ KnownIsCommitted' /\ IndexGrounded'
      /\ PackBeforeManifest' /\ ClosureAdvertised'
  BY BackendFrame
<1>2. NamesBound' BY <1>1 DEF CommitInv, NamesBound
<1>3. PublishedIsSaved' BY DEF CommitInv, PublishedIsSaved
<1>4. BatchStable' BY BatchFrame DEF BatchStable
<1> QED BY <1>1, <1>2, <1>3, <1>4 DEF CommitParts

\* Staging happens under mu, so never between the two saves of a flush.
LEMMA StageCommit ==
  ASSUME CommitInv, TypeOK', NEW r \in Runners,
         \/ \E d \in CAS : StageCAS(r, d)
         \/ \E q \in requests[r] : StageAction(r, q)
  PROVE  CommitParts'
<1> USE DEF backendVars, indexVars
<1>1. /\ UNCHANGED <<backendVars, todo, view, packs, cas, actions, heads, published,
                     flush>>
      /\ flush[r] = NoBatch
      /\ \A s \in Runners \ {r} : /\ pendingCAS'[s] = pendingCAS[s]
                                  /\ pendingActions'[s] = pendingActions[s]
  <2>1. CASE \E d \in CAS : StageCAS(r, d)
    BY <2>1 DEF StageCAS, MuFree, CommitInv, TypeOK
  <2>2. CASE \E q \in requests[r] : StageAction(r, q)
    <3>1. PICK q \in requests[r] : StageAction(r, q) BY <2>2
    <3>2. \/ pendingActions' = [pendingActions EXCEPT ![r][q.act] = None]
          \/ pendingActions' = [pendingActions EXCEPT ![r][q.act] = q.res]
      BY <3>1 DEF StageAction
    <3>3. \A s \in Runners \ {r} : pendingActions'[s] = pendingActions[s]
      BY <3>2 DEF CommitInv, TypeOK
    <3> QED BY <3>1, <3>3 DEF StageAction, MuFree
  <2> QED BY <2>1, <2>2
<1>2. /\ Committed' = Committed /\ KnownIsCommitted' /\ IndexGrounded'
      /\ PackBeforeManifest' /\ ClosureAdvertised'
  BY <1>1, BackendFrame
<1>3. NamesBound' BY <1>1, <1>2 DEF CommitInv, NamesBound
<1>4. PublishedIsSaved' BY <1>1 DEF CommitInv, PublishedIsSaved
<1>5. BatchStable'
  <2>1. \A s \in Runners : pendingCAS'[s] \in Seq(CAS) BY DEF TypeOK
  <2> QED BY <1>1, <2>1, BatchFrame, IdleBatch DEF BatchStable
<1> QED BY <1>2, <1>3, <1>4, <1>5 DEF CommitParts

\* The first save of a flush, successful or not.
LEMMA FlushPackCommit ==
  ASSUME CommitInv, NEW r \in Runners, FlushPack(r) \/ FlushPackFails(r)
  PROVE  CommitParts'
<1> USE DEF backendVars, indexVars
<1>1. UNCHANGED <<manifestTable, backendManifests, todo, view, packs, cas, actions,
                  heads, pendingCAS, pendingActions>>
  BY DEF FlushPack, FlushPackFails
<1>2. PICK n \in 0..Len(pendingCAS[r]) :
        LET b == BatchOf(r, n)
            pack == PackOf(r, b)
        IN  /\ savedPacks' \in {savedPacks, savedPacks \cup {pack}}
            /\ \/ /\ published' = published
                  /\ flush' = flush
               \/ /\ published' = [published EXCEPT ![r] = @ \cup {pack}]
                  /\ flush' = [flush EXCEPT ![r] = b]
                  /\ pack \in savedPacks'
  <2>1. CASE FlushPack(r)
    <3>1. PICK n \in 0..Len(pendingCAS[r]) :
            LET pack == PackOf(r, BatchOf(r, n))
            IN  /\ IF pack \in published[r]
                     THEN UNCHANGED <<backendPacks, savedPacks>>
                     ELSE /\ backendPacks' = backendPacks \cup {pack}
                          /\ savedPacks' = savedPacks \cup {pack}
                /\ published' = [published EXCEPT ![r] = @ \cup {pack}]
                /\ flush' = [flush EXCEPT ![r] = BatchOf(r, n)]
      BY <2>1 DEF FlushPack, Remember
    <3>2. PackOf(r, BatchOf(r, n)) \in savedPacks'
      BY <3>1 DEF CommitInv, PublishedIsSaved
    <3> QED BY <3>1, <3>2
  <2>2. CASE FlushPackFails(r)
    <3>1. PICK n \in 0..Len(pendingCAS[r]) :
            LET pack == PackOf(r, BatchOf(r, n))
            IN  /\ savedPacks' \in {savedPacks, savedPacks \cup {pack}}
                /\ published' = [published EXCEPT ![r] = @]
      BY <2>2 DEF FlushPackFails, Remember
    <3>2. published' = published BY <3>1 DEF CommitInv, TypeOK
    <3> QED BY <2>2, <3>1, <3>2 DEF FlushPackFails
  <2> QED BY <2>1, <2>2
<1>3. savedPacks \subseteq savedPacks' BY <1>2
<1>4. /\ Committed' = Committed /\ KnownIsCommitted' /\ IndexGrounded'
      /\ PackBeforeManifest' /\ ClosureAdvertised'
  BY <1>1, <1>3, BackendFrame
<1>5. NamesBound' BY <1>1, <1>4 DEF CommitInv, NamesBound
<1>6. PublishedIsSaved'
  <2>1. CASE published' = published BY <2>1, <1>3 DEF CommitInv, PublishedIsSaved
  <2>2. CASE /\ published' = [published EXCEPT ![r] = @ \cup {PackOf(r, BatchOf(r, n))}]
             /\ PackOf(r, BatchOf(r, n)) \in savedPacks'
    BY <2>2, <1>3 DEF CommitInv, TypeOK, PublishedIsSaved
  <2> QED BY <1>2, <2>1, <2>2
<1>7. BatchStable'
  <2> DEFINE b == BatchOf(r, n)
  <2>1. CASE flush' = flush
    BY <2>1, <1>1, <1>3, BatchFrame DEF BatchStable
  <2>2. CASE flush' = [flush EXCEPT ![r] = b] /\ PackOf(r, b) \in savedPacks'
    <3>1. /\ flush'[r] = b
          /\ \A s \in Runners \ {r} : flush'[s] = flush[s]
      BY <2>2 DEF CommitInv, TypeOK
    <3>2. /\ b.n = n /\ b.cas = {pendingCAS[r][i] : i \in 1..n}
          /\ \A a \in b.acts : /\ pendingActions[r][a] # None
                               /\ Eligible(r, pendingActions[r][a], b.cas)
      BY BatchOfType DEF CommitInv
    <3>3. PackOf(r, flush[r])' = PackOf(r, b)
      BY <3>1, <1>1 DEF PackOf
    <3>4. StableBatch(r)'
      BY <3>1, <3>2, <3>3, <2>2, <1>1 DEF StableBatch, Eligible
    <3> QED BY <3>1, <3>4, <1>1, <1>3, BatchFrame DEF BatchStable
  <2> QED BY <1>2, <2>1, <2>2
<1> QED BY <1>4, <1>5, <1>6, <1>7 DEF CommitParts

\* The commit point: the manifests of the backend stay well-formed, and only
\* grow.
LEMMA SaveCommit ==
  ASSUME CommitInv, NEW r \in Runners, flush[r] # NoBatch, NEW mid \in ManifestIDs,
         NEW m, m = ManifestFor(r, flush[r], PackOf(r, flush[r])),
         SaveManifest(mid, m), savedPacks' = savedPacks
  PROVE  /\ Committed \subseteq Committed'
         /\ mid \in Committed'
         /\ backendManifests' \subseteq Committed'
         /\ CommittedCAS' = CommittedCAS \cup m.cas
         /\ PackBeforeManifest'
         /\ ClosureAdvertised'
<1>1. /\ m \in Manifests /\ m.pack \in savedPacks /\ m.cas \subseteq m.pack.cas
      /\ m.parents = heads[r]
      /\ \A a \in Actions : m.actions[a] # None =>
              /\ m.actions[a] \in m.pack.res
              /\ m.closurePacks[a] \subseteq savedPacks
              /\ Closure[m.actions[a]] \subseteq
                   UNION {pack.cas : pack \in m.closurePacks[a]}
  BY ManifestForBatch
<1>2. /\ backendManifests' = backendManifests \cup {mid}
      /\ manifestTable'[mid] = m
      /\ \A k \in Committed : manifestTable'[k] = manifestTable[k]
      /\ Committed' = Committed \cup {mid}
  BY <1>1, SaveManifestEffect DEF CommitInv
<1>3. m.parents \subseteq Committed \ {mid}
  <2>1. heads[r] \subseteq Committed BY DEF CommitInv, NamesBound
  <2>2. CASE mid \in Committed
    BY <2>2, <1>2 DEF CommitInv, PackBeforeManifest
  <2>3. CASE mid \notin Committed BY <2>1, <2>3, <1>1
  <2> QED BY <2>2, <2>3
<1>4. CommittedCAS' = CommittedCAS \cup m.cas
  <2>1. ASSUME NEW d \in CommittedCAS' PROVE d \in CommittedCAS \cup m.cas
    BY <1>2 DEF CommittedCAS
  <2>2. ASSUME NEW d \in CommittedCAS \cup m.cas PROVE d \in CommittedCAS'
    BY <1>2 DEF CommittedCAS
  <2> QED BY <2>1, <2>2
<1>5. PackBeforeManifest'
  BY <1>1, <1>2, <1>3 DEF CommitInv, PackBeforeManifest
<1>6. ClosureAdvertised'
  BY <1>1, <1>2 DEF CommitInv, ClosureAdvertised
<1>7. backendManifests' \subseteq Committed'
  BY <1>2 DEF CommitInv, NamesBound
<1> QED BY <1>2, <1>4, <1>5, <1>6, <1>7

\* The second save of a flush: the manifest is saved and merged.
LEMMA FlushManifestCommit ==
  ASSUME CommitInv, TypeOK', NEW r \in Runners, FlushManifest(r)
  PROVE  CommitParts'
<1> DEFINE m == ManifestFor(r, flush[r], PackOf(r, flush[r]))
<1>1. /\ flush[r] # NoBatch
      /\ UNCHANGED <<savedPacks, todo, published>>
      /\ flush' = [flush EXCEPT ![r] = NoBatch]
      /\ \A s \in Runners \ {r} : /\ pendingCAS'[s] = pendingCAS[s]
                                  /\ pendingActions'[s] = pendingActions[s]
  BY DEF FlushManifest, RemovePending, CommitInv, TypeOK
<1>2. PICK mid \in ManifestIDs : SaveManifest(mid, m) /\ ApplyManifest(r, mid, m)
  BY DEF FlushManifest, RemovePending
<1>3. /\ m \in Manifests /\ m.pack \in savedPacks /\ m.cas \subseteq m.pack.cas
      /\ \A a \in Actions : m.actions[a] # None => m.actions[a] \in m.pack.res
  BY <1>1, ManifestForBatch
<1>4. /\ Committed \subseteq Committed' /\ mid \in Committed'
      /\ backendManifests' \subseteq Committed'
      /\ CommittedCAS' = CommittedCAS \cup m.cas
      /\ PackBeforeManifest' /\ ClosureAdvertised'
  BY <1>1, <1>2, SaveCommit
<1>5. /\ IndexGrounded'
      /\ \A s \in Runners : Known(s)' \subseteq Known(s) \cup m.cas
      /\ \A s \in Runners \ {r} : cas'[s] = cas[s]
  BY <1>1, <1>2, <1>3, ApplyManifestGrounded DEF CommitInv
<1>6. KnownIsCommitted' BY <1>4, <1>5 DEF CommitInv, KnownIsCommitted
<1>7. NamesBound'
  <2>1. /\ view' = [view EXCEPT ![r] = @ \cup {mid}]
        /\ heads' = [heads EXCEPT ![r] = (@ \ m.parents) \cup {mid}]
    BY <1>2 DEF ApplyManifest, MergeHeads
  <2> QED BY <1>1, <1>4, <2>1 DEF CommitInv, TypeOK, NamesBound
<1>8. PublishedIsSaved' BY <1>1 DEF CommitInv, PublishedIsSaved
<1>9. BatchStable'
  <2>1. /\ flush'[r] = NoBatch
        /\ \A s \in Runners \ {r} : flush'[s] = flush[s]
    BY <1>1 DEF CommitInv, TypeOK
  <2>2. pendingCAS'[r] \in Seq(CAS) BY DEF TypeOK
  <2> QED BY <1>1, <1>5, <2>1, <2>2, BatchFrame, IdleBatch DEF BatchStable
<1> QED BY <1>4, <1>5, <1>6, <1>7, <1>8, <1>9 DEF CommitParts

\* The second save reports an error; the manifest may be saved nevertheless.
LEMMA FlushManifestFailsCommit ==
  ASSUME CommitInv, NEW r \in Runners, FlushManifestFails(r)
  PROVE  CommitParts'
<1> DEFINE m == ManifestFor(r, flush[r], PackOf(r, flush[r]))
<1>1. /\ flush[r] # NoBatch
      /\ UNCHANGED <<savedPacks, todo, view, packs, cas, actions, heads, published,
                     pendingCAS, pendingActions>>
      /\ flush' = [flush EXCEPT ![r] = NoBatch]
  BY DEF FlushManifestFails, indexVars
<1>2. /\ Committed \subseteq Committed'
      /\ backendManifests' \subseteq Committed'
      /\ CommittedCAS \subseteq CommittedCAS'
      /\ PackBeforeManifest' /\ ClosureAdvertised'
  <2>1. CASE UNCHANGED <<manifestTable, backendManifests, faults>>
    <3>1. /\ Committed' = Committed /\ PackBeforeManifest' /\ ClosureAdvertised'
      BY <2>1, <1>1, BackendFrame
    <3>2. CommittedCAS' = CommittedCAS BY <2>1, <3>1 DEF CommittedCAS
    <3> QED BY <2>1, <3>1, <3>2 DEF CommitInv, NamesBound
  <2>2. CASE \E mid \in ManifestIDs : SaveManifest(mid, m)
    BY <2>2, <1>1, SaveCommit
  <2> QED BY <2>1, <2>2 DEF FlushManifestFails
<1>3. \A s \in Runners : Known(s)' = Known(s) BY <1>1 DEF Known
<1>4. KnownIsCommitted' BY <1>2, <1>3 DEF CommitInv, KnownIsCommitted
<1>5. IndexGrounded' BY <1>1, <1>3 DEF CommitInv, IndexGrounded
<1>6. NamesBound' BY <1>1, <1>2 DEF CommitInv, NamesBound
<1>7. PublishedIsSaved' BY <1>1 DEF CommitInv, PublishedIsSaved
<1>8. BatchStable'
  <2>1. /\ flush'[r] = NoBatch
        /\ \A s \in Runners \ {r} : flush'[s] = flush[s]
    BY <1>1 DEF CommitInv, TypeOK
  <2>2. pendingCAS'[r] \in Seq(CAS) BY <1>1 DEF CommitInv, TypeOK
  <2> QED BY <1>1, <2>1, <2>2, BatchFrame, IdleBatch DEF BatchStable
<1> QED BY <1>2, <1>4, <1>5, <1>6, <1>7, <1>8 DEF CommitParts

\* Discovery merges one more committed manifest.
LEMMA MergeNextCommit ==
  ASSUME CommitInv, NEW r \in Runners, MergeNext(r)
  PROVE  CommitParts'
<1>1. PICK id \in todo[r] : /\ ApplyManifest(r, id, manifestTable[id])
                            /\ todo' = [todo EXCEPT ![r] = @ \ {id}]
  BY DEF MergeNext
<1> DEFINE m == manifestTable[id]
<1>2. /\ UNCHANGED <<savedPacks, manifestTable, backendManifests, published, flush,
                     pendingCAS, pendingActions>>
      /\ phase[r] = "discovering"
  BY DEF MergeNext, backendVars, stagingVars
<1>3. /\ id \in Committed /\ id \in ManifestIDs /\ m \in Manifests
      /\ m.pack \in savedPacks /\ m.cas \subseteq m.pack.cas
      /\ \A a \in Actions : m.actions[a] # None => m.actions[a] \in m.pack.res
  BY DEF CommitInv, TypeOK, NamesBound, Committed, PackBeforeManifest
<1>4. /\ Committed' = Committed /\ CommittedCAS' = CommittedCAS
      /\ m.cas \subseteq CommittedCAS
  BY <1>2, <1>3 DEF Committed, CommittedCAS
<1>5. /\ IndexGrounded'
      /\ \A s \in Runners : /\ Known(s)' \subseteq Known(s) \cup m.cas
                            /\ Known(s) \subseteq Known(s)'
      /\ \A s \in Runners \ {r} : cas'[s] = cas[s]
  BY <1>1, <1>2, <1>3, ApplyManifestGrounded DEF CommitInv
<1>6. KnownIsCommitted' BY <1>4, <1>5 DEF CommitInv, KnownIsCommitted
<1>7. NamesBound'
  <2>1. /\ view' = [view EXCEPT ![r] = @ \cup {id}]
        /\ heads' = [heads EXCEPT ![r] = (@ \ m.parents) \cup {id}]
    BY <1>1 DEF ApplyManifest, MergeHeads
  <2> QED BY <1>1, <1>2, <1>3, <1>4, <2>1 DEF CommitInv, TypeOK, NamesBound
<1>8. PublishedIsSaved' BY <1>2 DEF CommitInv, PublishedIsSaved
<1>9. PackBeforeManifest' /\ ClosureAdvertised'
  BY <1>2, <1>4 DEF CommitInv, PackBeforeManifest, ClosureAdvertised
<1>10. ASSUME NEW s \in Runners PROVE StableBatch(s)'
  <2>1. StableBatch(s) BY DEF CommitInv, BatchStable
  <2>2. PackOf(s, flush[s])' = PackOf(s, flush[s]) BY <1>2 DEF PackOf
  <2>3. \A a \in flush[s].acts :
          Closure[pendingActions[s][a]] \subseteq CAS
    <3>1. ASSUME NEW a \in flush[s].acts PROVE pendingActions[s][a] \in Results
      <4>1. flush[s].acts \subseteq Actions BY DEF CommitInv, TypeOK, Batches
      <4>2. pendingActions[s][a] # None BY <2>1 DEF StableBatch
      <4>3. pendingActions \in [Runners -> [Actions -> Results \cup {None}]]
        BY DEF CommitInv, TypeOK
      <4> QED BY <4>1, <4>2, <4>3
    <3> QED BY <3>1, ConstantsAssumption DEF ConstantsAssumption
  <2>4. \A d \in CAS : cas[s][d] # None => cas'[s][d] # None
    BY <1>5 DEF Known
  <2> QED BY <1>2, <2>1, <2>2, <2>3, <2>4 DEF StableBatch, Eligible
<1> QED BY <1>5, <1>6, <1>7, <1>8, <1>9, <1>10 DEF CommitParts, BatchStable

\* The end of a process leaves the backend alone and its own state empty.
LEMMA ForgetCommit ==
  ASSUME CommitInv, NEW r \in Runners, Forget(r)
  PROVE  CommitParts'
<1>1. UNCHANGED <<savedPacks, manifestTable, backendManifests>>
  BY DEF Forget, backendVars
<1>2. /\ todo'[r] = {} /\ view'[r] = {} /\ heads'[r] = {} /\ published'[r] = {}
      /\ cas'[r] = [d \in CAS |-> None] /\ actions'[r] = [a \in Actions |-> None]
      /\ flush'[r] = NoBatch /\ pendingCAS'[r] = <<>>
  BY DEF Forget, CommitInv, TypeOK
<1>3. \A s \in Runners \ {r} :
        /\ todo'[s] = todo[s] /\ view'[s] = view[s] /\ heads'[s] = heads[s]
        /\ published'[s] = published[s] /\ packs'[s] = packs[s]
        /\ cas'[s] = cas[s] /\ actions'[s] = actions[s] /\ flush'[s] = flush[s]
        /\ pendingCAS'[s] = pendingCAS[s] /\ pendingActions'[s] = pendingActions[s]
  BY DEF Forget, CommitInv, TypeOK
<1>4. Committed' = Committed /\ CommittedCAS' = CommittedCAS
  BY <1>1 DEF Committed, CommittedCAS
<1>5. /\ Known(r)' = {}
      /\ \A s \in Runners \ {r} : Known(s)' = Known(s)
  BY <1>2, <1>3 DEF Known
<1>6. PackBeforeManifest' /\ ClosureAdvertised'
  BY <1>1, <1>4 DEF CommitInv, PackBeforeManifest, ClosureAdvertised
<1>7. NamesBound' BY <1>1, <1>2, <1>3, <1>4 DEF CommitInv, NamesBound
<1>8. PublishedIsSaved' BY <1>1, <1>2, <1>3 DEF CommitInv, PublishedIsSaved
<1>9. KnownIsCommitted' BY <1>4, <1>5 DEF CommitInv, KnownIsCommitted
<1>10. IndexGrounded' BY <1>1, <1>2, <1>3, <1>5 DEF CommitInv, IndexGrounded
<1>11. BatchStable'
  <2>1. pendingCAS'[r] \in Seq(CAS) BY <1>2
  <2> QED BY <1>1, <1>2, <1>3, <2>1, BatchFrame, IdleBatch DEF BatchStable
<1> QED BY <1>6, <1>7, <1>8, <1>9, <1>10, <1>11 DEF CommitParts

\* Eviction takes entries from the backend, not from what was committed.
LEMMA EvictCommit ==
  ASSUME CommitInv, EvictPack \/ EvictManifest
  PROVE  CommitParts'
<1>1. /\ UNCHANGED <<savedPacks, manifestTable, todo, view, packs, cas, actions,
                     heads, published, flush, pendingCAS, pendingActions>>
      /\ backendManifests' \subseteq backendManifests
  BY DEF EvictPack, EvictManifest, LeaveState, indexVars, stagingVars
<1>2. /\ Committed' = Committed /\ KnownIsCommitted' /\ IndexGrounded'
      /\ PackBeforeManifest' /\ ClosureAdvertised'
  BY <1>1, BackendFrame
<1>3. NamesBound' BY <1>1, <1>2 DEF CommitInv, NamesBound
<1>4. PublishedIsSaved' BY <1>1 DEF CommitInv, PublishedIsSaved
<1>5. BatchStable' BY <1>1, BatchFrame DEF BatchStable
<1> QED BY <1>2, <1>3, <1>4, <1>5 DEF CommitParts

-----------------------------------------------------------------------------
(* The theorems.                                                            *)

\* The inductive invariant holds initially.
LEMMA CommitInvInit == Init => CommitInv
<1> SUFFICES ASSUME Init PROVE CommitInv OBVIOUS
<1>1. TypeOK BY DEF Init, TypeOK, NoBatch, Batches
<1>2. Committed = {} BY DEF Init, Committed
<1>3. \A r \in Runners : Known(r) = {} BY DEF Init, Known
<1>4. NamesBound /\ PublishedIsSaved BY DEF Init, NamesBound, PublishedIsSaved
<1>5. KnownIsCommitted BY <1>3 DEF KnownIsCommitted
<1>6. IndexGrounded BY <1>3 DEF IndexGrounded, Init
<1>7. PackBeforeManifest /\ ClosureAdvertised
  BY <1>2 DEF PackBeforeManifest, ClosureAdvertised
<1>8. BatchStable BY DEF Init, BatchStable, StableBatch, NoBatch
<1> QED BY <1>1, <1>4, <1>5, <1>6, <1>7, <1>8 DEF CommitInv

\* Every action of the runners and of the backend preserves it.
LEMMA CommitInvStep == CommitInv /\ [Next]_vars => CommitInv'
<1> SUFFICES ASSUME CommitInv, [Next]_vars PROVE CommitInv' OBVIOUS
<1>1. CASE UNCHANGED vars
  <2>1. TypeOK'
    BY <1>1 DEF vars, CommitInv, TypeOK, backendVars, spoolVars, indexVars,
                stagingVars, clientVars
  <2>2. Quiet /\ \A r \in Runners : todo'[r] \subseteq Committed
    BY <1>1 DEF vars, Quiet, CommitInv, NamesBound, stagingVars
  <2> QED BY <2>1, <2>2, QuietCommit DEF CommitInv, CommitParts
<1>2. ASSUME NEW r \in Runners, RequestStep(r) PROVE CommitInv'
  <2>1. TypeOK' BY <1>2, RequestStepType DEF CommitInv
  <2>2. CASE \/ \E d \in CAS : StageCAS(r, d)
             \/ \E q \in requests[r] : StageAction(r, q)
    BY <2>1, <2>2, StageCommit DEF CommitInv, CommitParts
  <2>3. CASE \/ \E d \in CAS : PutCAS(r, d) \/ GetCAS(r, d)
             \/ \E a \in Actions : GetAC(r, a) \/ LookupAC(r, a)
             \/ \E a \in Actions, v \in Results : PutAC(r, a, v)
             \/ \E q \in requests[r] : MaterializeAC(r, q) \/ Abandon(r, q) \/ Serve(r, q)
             \/ \E q \in requests[r], d \in CAS : CheckRef(r, q, d)
    <3>1. Quiet BY <2>3, QuietSteps
    <3>2. todo' = todo
      BY <2>3 DEF PutCAS, GetCAS, GetAC, LookupAC, PutAC, MaterializeAC, Abandon,
                  Serve, CheckRef
    <3>3. \A s \in Runners : todo'[s] \subseteq Committed
      BY <3>2 DEF CommitInv, NamesBound
    <3> QED BY <2>1, <3>1, <3>3, QuietCommit DEF CommitInv, CommitParts
  <2> QED BY <1>2, <2>2, <2>3 DEF RequestStep
<1>3. ASSUME NEW r \in Runners, FlushStep(r) PROVE CommitInv'
  <2>1. TypeOK' BY <1>3, FlushStepType
  <2>2. CommitParts'
    BY <1>3, <2>1, FlushPackCommit, FlushManifestCommit, FlushManifestFailsCommit
       DEF FlushStep
  <2> QED BY <2>1, <2>2 DEF CommitInv, CommitParts
<1>4. ASSUME NEW r \in Runners, LifeStep(r) \/ Crash(r) PROVE CommitInv'
  <2>1. TypeOK' BY <1>4, LifeStepType
  <2>2. CASE Start(r) \/ Ready(r) \/ Shutdown(r) \/ Drain(r) \/ Stop(r)
    <3>1. Quiet BY <2>2, QuietSteps
    <3>2. \A s \in Runners : todo'[s] \subseteq Committed
      <4>1. CASE Start(r)
        BY <4>1 DEF Start, ListOutcomes, CommitInv, NamesBound, TypeOK
      <4>2. CASE Ready(r) \/ Shutdown(r) \/ Drain(r) \/ Stop(r)
        BY <4>2 DEF Ready, Shutdown, Drain, Stop, LeaveState, CommitInv, NamesBound
      <4> QED BY <2>2, <4>1, <4>2
    <3> QED BY <2>1, <3>1, <3>2, QuietCommit DEF CommitInv, CommitParts
  <2>3. CASE MergeNext(r)
    BY <2>1, <2>3, MergeNextCommit DEF CommitInv, CommitParts
  <2>4. CASE Exit(r) \/ Crash(r)
    BY <2>1, <2>4, ForgetCommit DEF Exit, Crash, CommitInv, CommitParts
  <2> QED BY <1>4, <2>2, <2>3, <2>4 DEF LifeStep
<1>5. CASE EvictPack \/ EvictManifest
  BY <1>5, EvictType, EvictCommit DEF CommitInv, CommitParts
<1> QED BY <1>1, <1>2, <1>3, <1>4, <1>5 DEF Next

\* CommitInv holds throughout every behaviour.
THEOREM CommitInvariant == Spec => []CommitInv
  BY CommitInvInit, CommitInvStep, PTL DEF Spec

\* Every variable keeps its type: no step of a runner, no fault and no
\* eviction takes the server or the backend out of its state space.
THEOREM TypeCorrect == Spec => []TypeOK
<1>1. CommitInv => TypeOK BY DEF CommitInv
<1> QED BY <1>1, CommitInvariant, PTL

\* flushOneLocked saves the pack before the manifest, across errors, retries,
\* lost acknowledgements and crashes, for any number of concurrent runners.
THEOREM CommitOrder == Spec => []PackBeforeManifest
<1>1. CommitInv => PackBeforeManifest BY DEF CommitInv
<1> QED BY <1>1, CommitInvariant, PTL

\* selectActionsLocked and manifestForPackLocked together advertise a result
\* only with packs that hold its whole closure.
THEOREM ClosureIsAdvertised == Spec => []ClosureAdvertised
<1>1. CommitInv => ClosureAdvertised BY DEF CommitInv
<1> QED BY <1>1, CommitInvariant, PTL

\* The index that applyManifestLocked builds never dangles, so loadPack never
\* meets a pack without a descriptor.
THEOREM IndexIsGrounded == Spec => []IndexGrounded
<1>1. CommitInv => IndexGrounded BY DEF CommitInv
<1> QED BY <1>1, CommitInvariant, PTL

-----------------------------------------------------------------------------
(* Refinement: every step of PackStore leaves what is committed alone, or   *)
(* commits one closed batch of the durable cache.                           *)

\* Only the second save of a flush, acknowledged or not, changes what is committed.
LEMMA OnlySavesCommit ==
  ASSUME [Next]_vars, manifestTable' # manifestTable
  PROVE  \E r \in Runners : FlushManifest(r) \/ FlushManifestFails(r)
<1> USE DEF backendVars
<1>1. CASE UNCHANGED vars BY <1>1 DEF vars
<1>2. ASSUME NEW r \in Runners, RequestStep(r) PROVE manifestTable' = manifestTable
  <2>1. CASE \/ \E d \in CAS : StageCAS(r, d)
             \/ \E q \in requests[r] : StageAction(r, q)
    BY <2>1 DEF StageCAS, StageAction
  <2>2. CASE Quiet BY <2>2 DEF Quiet
  <2> QED BY <1>2, <2>1, <2>2, QuietSteps DEF RequestStep
<1>3. ASSUME NEW r \in Runners, LifeStep(r) \/ Crash(r)
      PROVE  manifestTable' = manifestTable
  BY <1>3 DEF LifeStep, Start, MergeNext, Ready, Shutdown, Drain, Stop, Exit, Crash,
              Forget
<1>4. ASSUME NEW r \in Runners, FlushPack(r) \/ FlushPackFails(r)
      PROVE  manifestTable' = manifestTable
  BY <1>4 DEF FlushPack, FlushPackFails
<1>5. CASE EvictPack \/ EvictManifest BY <1>5 DEF EvictPack, EvictManifest
<1> QED BY <1>1, <1>2, <1>3, <1>4, <1>5 DEF Next, FlushStep

\* What such a save changes.
LEMMA CommitPoint ==
  ASSUME CommitInv, [Next]_vars
  PROVE  \/ manifestTable' = manifestTable
         \/ \E r \in Runners, mid \in ManifestIDs :
              /\ flush[r] # NoBatch
              /\ SaveManifest(mid, ManifestFor(r, flush[r], PackOf(r, flush[r])))
              /\ savedPacks' = savedPacks
<1>1. ASSUME NEW r \in Runners, FlushManifest(r) \/ FlushManifestFails(r)
      PROVE  \/ manifestTable' = manifestTable
             \/ \E mid \in ManifestIDs :
                  /\ flush[r] # NoBatch
                  /\ SaveManifest(mid, ManifestFor(r, flush[r], PackOf(r, flush[r])))
                  /\ savedPacks' = savedPacks
  BY <1>1 DEF FlushManifest, FlushManifestFails
<1> QED BY <1>1, OnlySavesCommit

\* The save of a manifest is a commit of the durable cache.
LEMMA SaveIsCommit ==
  ASSUME CommitInv, NEW r \in Runners, NEW mid \in ManifestIDs, flush[r] # NoBatch,
         SaveManifest(mid, ManifestFor(r, flush[r], PackOf(r, flush[r]))),
         savedPacks' = savedPacks
  PROVE  Durable!Next
<1> DEFINE m == ManifestFor(r, flush[r], PackOf(r, flush[r]))
<1>1. /\ m \in Manifests
      /\ \A a \in Actions : m.actions[a] # None =>
           Closure[m.actions[a]] \subseteq m.cas \cup Known(r)
  BY ManifestForBatch
<1>2. m.cas \in SUBSET CAS /\ m.actions \in [Actions -> Results \cup {None}]
  BY <1>1 DEF Manifests
<1>3. ResultsOf(m) \in SUBSET (Actions \X Results) BY <1>2 DEF ResultsOf
<1>4. \A x \in ResultsOf(m) : Closure[x[2]] \subseteq CommittedCAS \cup m.cas
  <2>1. Known(r) \subseteq CommittedCAS BY DEF CommitInv, KnownIsCommitted
  <2>2. ASSUME NEW a \in Actions, m.actions[a] # None
        PROVE  Closure[m.actions[a]] \subseteq CommittedCAS \cup m.cas
    BY <1>1, <2>1, <2>2
  <2> QED BY <2>2 DEF ResultsOf
<1>5. CommittedCAS' = CommittedCAS \cup m.cas BY SaveCommit
<1>6. /\ manifestTable'[mid] = m
      /\ \A k \in Committed : manifestTable'[k] = manifestTable[k]
      /\ Committed' = Committed \cup {mid}
  BY <1>1, SaveManifestEffect DEF CommitInv
<1>7. CommittedResults' = CommittedResults \cup ResultsOf(m)
  <2>1. CommittedResults' = UNION {ResultsOf(manifestTable'[k]) : k \in Committed'}
    BY DEF CommittedResults, ResultsOf
  <2>2. ASSUME NEW x \in CommittedResults' PROVE x \in CommittedResults \cup ResultsOf(m)
    <3>1. PICK k \in Committed' : x \in ResultsOf(manifestTable'[k]) BY <2>1
    <3>2. CASE k \in Committed BY <3>1, <3>2, <1>6 DEF CommittedResults
    <3>3. CASE k = mid BY <3>1, <3>3, <1>6
    <3> QED BY <3>2, <3>3, <1>6
  <2>3. ASSUME NEW x \in CommittedResults \cup ResultsOf(m) PROVE x \in CommittedResults'
    <3>1. CASE x \in ResultsOf(m) BY <3>1, <2>1, <1>6
    <3>2. CASE x \in CommittedResults
      <4>1. PICK k \in Committed : x \in ResultsOf(manifestTable[k])
        BY <3>2 DEF CommittedResults
      <4> QED BY <4>1, <2>1, <1>6
    <3> QED BY <3>1, <3>2
  <2> QED BY <2>2, <2>3
<1>8. Durable!Commit(m.cas, ResultsOf(m))
  BY <1>4, <1>5, <1>7 DEF Durable!Commit
<1> QED BY <1>2, <1>3, <1>8 DEF Durable!Next

\* Any number of runners, with every fault of the model, implements the
\* durable cache of DurableCache.tla: results appear only with their closure
\* and nothing committed changes or disappears from the history.
THEOREM PackStoreImplementsDurableCache == Spec => ImplementsDurableCache
<1>1. Init => Durable!Init
  BY DEF Init, Durable!Init, CommittedCAS, CommittedResults, Committed
<1>2. CommitInv /\ [Next]_vars => [Durable!Next]_<<CommittedCAS, CommittedResults>>
  <2> SUFFICES ASSUME CommitInv, [Next]_vars
               PROVE  Durable!Next \/ UNCHANGED <<CommittedCAS, CommittedResults>>
    OBVIOUS
  <2>1. CASE manifestTable' = manifestTable
    BY <2>1 DEF CommittedCAS, CommittedResults, Committed, ResultsOf
  <2> QED BY <2>1, CommitPoint, SaveIsCommit
<1> QED BY <1>1, <1>2, CommitInvariant, PTL
        DEF Spec, ImplementsDurableCache, Durable!Spec

-----------------------------------------------------------------------------
(* One runner.  Requests: what a handler has learnt stays true until it acts on it.      *)

\* The spool only grows while the process lives, so a reference that was
\* checked stays local; and nobody replaces the object of an action key, so
\* what was served for it, and what a request is about to serve or to stage, is
\* what is stored.
HandlerInv(r) ==
  /\ \A q \in requests[r] :
       q.op # "load" => Closure[q.res] \ q.todo \subseteq casObjects[r]
  /\ \A q \in requests[r] : q.op # "load" => acObjects[r][q.act] = q.res
  /\ \A x \in served[r] : Closure[x[2]] \subseteq casObjects[r]
  /\ \A x \in served[r] : acObjects[r][x[1]] = x[2]
  /\ \A a \in Actions :
       pendingActions[r][a] # None => pendingActions[r][a] = acObjects[r][a]

RequestInv == \A r \in Runners : HandlerInv(r)

\* A runner whose spool, requests and staged results stay keeps its invariant.
LEMMA HandlerFrame ==
  ASSUME NEW r \in Runners, HandlerInv(r),
         requests'[r] = requests[r], casObjects'[r] = casObjects[r],
         acObjects'[r] = acObjects[r], served'[r] = served[r],
         pendingActions'[r] = pendingActions[r]
  PROVE  HandlerInv(r)'
  BY DEF HandlerInv

\* A request under validation that finds or leaves its result in the spool.
LEMMA HandlerValidates ==
  ASSUME TypeOK, NEW r \in Runners, HandlerInv(r), NEW op, NEW a, NEW v,
         UNCHANGED <<casObjects, served, pendingActions>>,
         \A b \in Actions : acObjects[r][b] # None => acObjects'[r][b] = acObjects[r][b],
         acObjects'[r][a] = v,
         \A q \in requests'[r] : q \in requests[r] \/ q = Validating(op, a, v)
  PROVE  HandlerInv(r)'
<1>1. ASSUME NEW q \in requests'[r], q.op # "load"
      PROVE  Closure[q.res] \ q.todo \subseteq casObjects[r] /\ acObjects'[r][q.act] = q.res
  <2>1. CASE q \in requests[r]
    <3>1. q.act \in Actions /\ q.res # None
      BY <2>1, NoneAssumption DEF TypeOK, Requests, NoneAssumption
    <3> QED BY <1>1, <2>1, <3>1 DEF HandlerInv
  <2>2. CASE q = Validating(op, a, v) BY <2>2 DEF Validating
  <2> QED BY <2>1, <2>2
<1>2. \A x \in served[r] : x[1] \in Actions /\ x[2] # None
  BY NoneAssumption DEF TypeOK, NoneAssumption
<1>3. \A x \in served[r] : acObjects'[r][x[1]] = x[2] BY <1>2 DEF HandlerInv
<1>4. \A b \in Actions :
        pendingActions[r][b] # None => pendingActions[r][b] = acObjects'[r][b]
  BY DEF HandlerInv
<1>5. \A x \in served[r] : Closure[x[2]] \subseteq casObjects[r] BY DEF HandlerInv
<1> QED BY <1>1, <1>3, <1>4, <1>5 DEF HandlerInv

\* Uploads and reads of CAS objects, and staging them.
LEMMA CASRequests ==
  ASSUME TypeOK, RequestInv, NEW r \in Runners, NEW d \in CAS,
         PutCAS(r, d) \/ StageCAS(r, d) \/ GetCAS(r, d)
  PROVE  RequestInv'
<1>1. /\ UNCHANGED <<requests, acObjects, served, pendingActions>>
      /\ \A s \in Runners : casObjects[s] \subseteq casObjects'[s]
  <2>1. CASE PutCAS(r, d) BY <2>1 DEF PutCAS, TypeOK, clientVars
  <2>2. CASE StageCAS(r, d) BY <2>2 DEF StageCAS, TypeOK, clientVars, spoolVars
  <2>3. CASE GetCAS(r, d)
    BY <2>3 DEF GetCAS, ResolveCAS, TypeOK, clientVars, stagingVars
  <2> QED BY <2>1, <2>2, <2>3
<1> QED BY <1>1 DEF RequestInv, HandlerInv

\* A new request has everything still to check.
LEMMA NewRequests ==
  ASSUME TypeOK, RequestInv, NEW r \in Runners, NEW a \in Actions,
         GetAC(r, a) \/ LookupAC(r, a) \/ \E v \in Results : PutAC(r, a, v)
  PROVE  RequestInv'
<1>1. CASE GetAC(r, a)
  BY <1>1 DEF GetAC, Validating, RequestInv, HandlerInv, TypeOK, spoolVars, stagingVars
<1>2. CASE LookupAC(r, a)
  BY <1>2 DEF LookupAC, RequestInv, HandlerInv, TypeOK, spoolVars, stagingVars
<1>3. ASSUME NEW v \in Results, PutAC(r, a, v) PROVE RequestInv'
  <2>1. \A b \in Actions : acObjects[r][b] # None => acObjects'[r][b] = acObjects[r][b]
    BY <1>3 DEF PutAC, Stored, TypeOK
  <2>2. acObjects'[r][a] = Stored(r, a, v) BY <1>3 DEF PutAC, TypeOK
  <2>3. UNCHANGED <<casObjects, served, pendingActions>>
    BY <1>3 DEF PutAC, stagingVars
  <2>4. \A q \in requests'[r] : q \in requests[r] \/ q = Validating("put", a, Stored(r, a, v))
    BY <1>3 DEF PutAC, TypeOK
  <2>5. HandlerInv(r)' BY <2>1, <2>2, <2>3, <2>4, HandlerValidates DEF RequestInv
  <2>6. ASSUME NEW s \in Runners, s # r PROVE HandlerInv(s)'
    <3>1. requests'[s] = requests[s] /\ acObjects'[s] = acObjects[s]
      BY <1>3, <2>6 DEF PutAC, TypeOK
    <3> QED BY <2>3, <3>1, HandlerFrame DEF RequestInv
  <2> QED BY <2>5, <2>6 DEF RequestInv
<1> QED BY <1>1, <1>2, <1>3

\* A request that goes on or ends.
LEMMA OldRequests ==
  ASSUME TypeOK, RequestInv, NEW r \in Runners, NEW q \in requests[r],
         \/ MaterializeAC(r, q) \/ Abandon(r, q) \/ Serve(r, q) \/ StageAction(r, q)
         \/ \E d \in CAS : CheckRef(r, q, d)
  PROVE  RequestInv'
<1>a. q.act \in Actions /\ q.res \in Results /\ q.res # None
  BY NoneAssumption DEF TypeOK, Requests, NoneAssumption
<1>1. CASE Abandon(r, q)
  BY <1>1 DEF Abandon, RequestInv, HandlerInv, TypeOK, spoolVars, stagingVars
<1>2. CASE Serve(r, q)
  <2>1. /\ UNCHANGED <<casObjects, acObjects, pendingActions>>
        /\ q.op = "get" /\ q.todo = {}
        /\ requests' = [requests EXCEPT ![r] = @ \ {q}]
        /\ served' = [served EXCEPT ![r] = @ \cup {<<q.act, q.res>>}]
    BY <1>2 DEF Serve, spoolVars, stagingVars
  <2>2. Closure[q.res] \subseteq casObjects[r] BY <2>1 DEF RequestInv, HandlerInv
  <2>3. /\ requests'[r] = requests[r] \ {q}
        /\ served'[r] = served[r] \cup {<<q.act, q.res>>}
    BY <2>1 DEF TypeOK
  <2>4. HandlerInv(r)' BY <2>1, <2>2, <2>3 DEF RequestInv, HandlerInv
  <2>5. ASSUME NEW s \in Runners, s # r PROVE HandlerInv(s)'
    <3>1. requests'[s] = requests[s] /\ served'[s] = served[s]
      BY <2>1, <2>5 DEF TypeOK
    <3> QED BY <2>1, <3>1, HandlerFrame DEF RequestInv
  <2> QED BY <2>4, <2>5 DEF RequestInv
<1>3. CASE StageAction(r, q)
  <2>1. /\ UNCHANGED <<casObjects, acObjects, served>>
        /\ requests' = [requests EXCEPT ![r] = @ \ {q}]
        /\ q.op = "put"
        /\ \/ pendingActions' = [pendingActions EXCEPT ![r][q.act] = None]
           \/ pendingActions' = [pendingActions EXCEPT ![r][q.act] = q.res]
    BY <1>3 DEF StageAction, spoolVars
  <2>2. acObjects[r][q.act] = q.res BY <2>1 DEF RequestInv, HandlerInv
  <2>3. HandlerInv(r)'
    <3>1. requests'[r] = requests[r] \ {q} BY <2>1 DEF TypeOK
    <3>2. \A a \in Actions : \/ pendingActions'[r][a] = pendingActions[r][a]
                             \/ a = q.act /\ pendingActions'[r][a] \in {None, q.res}
      BY <2>1 DEF TypeOK
    <3> QED BY <2>1, <2>2, <3>1, <3>2 DEF RequestInv, HandlerInv
  <2>4. ASSUME NEW s \in Runners, s # r PROVE HandlerInv(s)'
    <3>1. requests'[s] = requests[s] /\ pendingActions'[s] = pendingActions[s]
      BY <2>1, <2>4 DEF TypeOK
    <3> QED BY <2>1, <3>1, HandlerFrame DEF RequestInv
  <2> QED BY <2>3, <2>4 DEF RequestInv
<1>4. CASE MaterializeAC(r, q)
  <2> DEFINE v == Stored(r, q.act, q.res)
  <2>1. /\ UNCHANGED <<casObjects, served, pendingActions>>
        /\ acObjects' = [acObjects EXCEPT ![r][q.act] = v]
        /\ requests' = [requests EXCEPT ![r] =
                          (@ \ {q}) \cup {Validating("get", q.act, v)}]
    BY <1>4 DEF MaterializeAC, stagingVars
  <2>2. \A b \in Actions : acObjects[r][b] # None => acObjects'[r][b] = acObjects[r][b]
    BY <2>1 DEF Stored, TypeOK
  <2>3. \A p \in requests'[r] : p \in requests[r] \/ p = Validating("get", q.act, v)
    BY <2>1 DEF TypeOK
  <2>4. HandlerInv(r)'
    <3>1. acObjects'[r][q.act] = v BY <1>a, <2>1 DEF TypeOK
    <3> HIDE DEF v
    <3> QED BY <2>1, <2>2, <2>3, <3>1, HandlerValidates DEF RequestInv
  <2>5. ASSUME NEW s \in Runners, s # r PROVE HandlerInv(s)'
    <3>1. requests'[s] = requests[s] /\ acObjects'[s] = acObjects[s]
      BY <2>1, <2>5 DEF TypeOK
    <3> QED BY <2>1, <3>1, HandlerFrame DEF RequestInv
  <2> QED BY <2>4, <2>5 DEF RequestInv
<1>5. ASSUME NEW d \in CAS, CheckRef(r, q, d) PROVE RequestInv'
  <2>1. /\ UNCHANGED <<acObjects, served, pendingActions>>
        /\ q.op # "load"
        /\ requests' = [requests EXCEPT ![r] =
                          (@ \ {q}) \cup {[q EXCEPT !.todo = @ \ {d}]}]
        /\ d \in casObjects'[r]
        /\ \A s \in Runners : casObjects[s] \subseteq casObjects'[s]
    <3>1. /\ UNCHANGED <<acObjects, served, pendingActions>>
          /\ q.op # "load"
          /\ requests' = [requests EXCEPT ![r] =
                            (@ \ {q}) \cup {[q EXCEPT !.todo = @ \ {d}]}]
      BY <1>5 DEF CheckRef, ResolveCAS, stagingVars, spoolVars
    <3>2. \/ d \in casObjects[r] /\ casObjects' = casObjects
          \/ casObjects' = [casObjects EXCEPT ![r] = @ \cup {d}]
      BY <1>5 DEF CheckRef, ResolveCAS, spoolVars
    <3>3. casObjects \in [Runners -> SUBSET CAS] BY DEF TypeOK
    <3>4. d \in casObjects'[r] /\ \A s \in Runners : casObjects[s] \subseteq casObjects'[s]
      BY <3>2, <3>3
    <3> QED BY <3>1, <3>4
  <2>2. PICK p : p = [q EXCEPT !.todo = @ \ {d}] OBVIOUS
  <2>3. p.op = q.op /\ p.res = q.res /\ p.act = q.act /\ p.todo = q.todo \ {d}
    BY <2>2 DEF TypeOK, Requests
  <2>4. requests'[r] = (requests[r] \ {q}) \cup {p} BY <2>1, <2>2 DEF TypeOK
  <2>5. HandlerInv(r)'
    BY <2>1, <2>3, <2>4 DEF RequestInv, HandlerInv
  <2>6. ASSUME NEW s \in Runners, s # r PROVE HandlerInv(s)'
    <3>1. requests'[s] = requests[s] BY <2>1, <2>6 DEF TypeOK
    <3> QED BY <2>1, <3>1 DEF RequestInv, HandlerInv
  <2> QED BY <2>5, <2>6 DEF RequestInv
<1> QED BY <1>1, <1>2, <1>3, <1>4, <1>5

\* A flush only removes staged results; a process that ends forgets everything.
LEMMA OtherSteps ==
  ASSUME TypeOK, RequestInv, NEW r \in Runners,
         FlushStep(r) \/ LifeStep(r) \/ Crash(r)
  PROVE  RequestInv'
<1>1. CASE FlushPack(r) \/ FlushPackFails(r) \/ FlushManifestFails(r)
  <2>1. UNCHANGED <<requests, casObjects, acObjects, served, pendingActions>>
    BY <1>1 DEF FlushPack, FlushPackFails, FlushManifestFails, spoolVars, clientVars
  <2> QED BY <2>1 DEF RequestInv, HandlerInv
<1>2. CASE FlushManifest(r)
  <2>1. /\ UNCHANGED <<requests, casObjects, acObjects, served>>
        /\ \A s \in Runners, a \in Actions :
              pendingActions'[s][a] \in {None, pendingActions[s][a]}
    BY <1>2 DEF FlushManifest, RemovePending, TypeOK, spoolVars, clientVars
  <2> QED BY <2>1 DEF RequestInv, HandlerInv
<1>3. CASE Exit(r) \/ Crash(r)
  <2>1. Forget(r) BY <1>3 DEF Exit, Crash
  <2> QED BY <2>1 DEF Forget, RequestInv, HandlerInv, TypeOK
<1>4. CASE LifeStep(r) /\ ~Exit(r)
  BY <1>4 DEF LifeStep, Start, MergeNext, Ready, Shutdown, Drain, Stop, LeaveState,
    RequestInv, HandlerInv, spoolVars, stagingVars, clientVars
<1> QED BY <1>1, <1>2, <1>3, <1>4 DEF FlushStep

\* The handlers' invariant holds in every reachable state.
THEOREM RequestInvariant == Spec => []RequestInv
<1>1. Init => RequestInv BY DEF Init, RequestInv, HandlerInv
<1>2. TypeOK /\ RequestInv /\ [Next]_vars => RequestInv'
  <2> SUFFICES ASSUME TypeOK, RequestInv, [Next]_vars PROVE RequestInv' OBVIOUS
  <2>1. ASSUME NEW r \in Runners, RequestStep(r) PROVE RequestInv'
    BY <2>1, CASRequests, NewRequests, OldRequests DEF RequestStep
  <2>2. ASSUME NEW r \in Runners, FlushStep(r) \/ LifeStep(r) \/ Crash(r)
        PROVE  RequestInv'
    BY <2>2, OtherSteps
  <2>3. CASE EvictPack \/ EvictManifest \/ UNCHANGED vars
    BY <2>3 DEF EvictPack, EvictManifest, LeaveState, vars, RequestInv, HandlerInv,
      spoolVars, stagingVars, clientVars
  <2> QED BY <2>1, <2>2, <2>3 DEF Next
<1> QED BY <1>1, <1>2, TypeCorrect, PTL DEF Spec

\* handleRead answers an action result only when its whole closure is in the
\* spool directory, for any interleaving of requests, flushes and evictions.
THEOREM ServedIsLocal == Spec => []ServedClosureIsLocal
<1>1. RequestInv => ServedClosureIsLocal
  BY DEF RequestInv, HandlerInv, ServedClosureIsLocal
<1> QED BY <1>1, RequestInvariant, PTL

\* Whatever lookups, uploads and flushes of a key overlap, a job serves one result
\* for it and saves no manifest with another.
THEOREM JobServesWhatItSaves == Spec => OneResultPerJob
<1>1. ASSUME CommitInv', RequestInv', NEW r \in Runners, NEW x \in served'[r],
             NEW y \in served'[r], x[1] = y[1]
      PROVE  x = y
  <2>1. acObjects'[r][x[1]] = x[2] /\ acObjects'[r][y[1]] = y[2]
    BY <1>1 DEF RequestInv, HandlerInv
  <2>2. x \in Actions \X Results /\ y \in Actions \X Results
    BY <1>1 DEF CommitInv, TypeOK
  <2> QED BY <1>1, <2>1, <2>2
<1>2. ASSUME CommitInv, RequestInv, NEW r \in Runners,
             FlushManifest(r) \/ FlushManifestFails(r),
             NEW id \in Committed' \ Committed, NEW x \in served[r]
      PROVE  manifestTable'[id].actions[x[1]] \in {None, x[2]}
  <2> DEFINE m == ManifestFor(r, flush[r], PackOf(r, flush[r]))
  <2>1. manifestTable' = manifestTable \/ \E mid \in ManifestIDs : SaveManifest(mid, m)
    BY <1>2 DEF FlushManifest, FlushManifestFails
  <2>2. PICK mid \in ManifestIDs : SaveManifest(mid, m)
    BY <1>2, <2>1 DEF Committed
  <2>3. m \in Manifests BY <1>2, ManifestForBatch DEF FlushManifest, FlushManifestFails
  <2>4. x \in Actions \X Results /\ x[1] \in Actions BY <1>2 DEF CommitInv, TypeOK
  <2>5. m.actions[x[1]] \in {None, pendingActions[r][x[1]]} BY <2>4 DEF ManifestFor
  <2>6. pendingActions[r][x[1]] \in {None, x[2]}
    BY <1>2, <2>4 DEF RequestInv, HandlerInv
  <2> HIDE DEF m
  <2>7. manifestTable'[mid] = m /\ Committed' = Committed \cup {mid}
    BY <1>2, <2>2, <2>3, SaveManifestEffect DEF CommitInv
  <2> QED BY <1>2, <2>5, <2>6, <2>7
<1>3. ASSUME CommitInv, [Next]_vars, NEW r \in Runners, flush[r] # NoBatch,
             flush'[r] = NoBatch, NEW id \in Committed' \ Committed
      PROVE  FlushManifest(r) \/ FlushManifestFails(r)
  <2>1. manifestTable' # manifestTable BY <1>3 DEF Committed
  <2>2. PICK s \in Runners : FlushManifest(s) \/ FlushManifestFails(s)
    BY <1>3, <2>1, OnlySavesCommit
  <2>3. flush' = [flush EXCEPT ![s] = NoBatch]
    BY <2>2 DEF FlushManifest, FlushManifestFails
  <2>4. s = r BY <1>3, <2>3 DEF CommitInv, TypeOK
  <2> QED BY <2>2, <2>4
<1>4. /\ CommitInv /\ CommitInv' /\ RequestInv /\ RequestInv' /\ [Next]_vars
      => [OneResult]_vars
  BY <1>1, <1>2, <1>3 DEF OneResult
<1> QED BY <1>4, CommitInvariant, RequestInvariant, PTL DEF Spec, OneResultPerJob

-----------------------------------------------------------------------------
(* Heads: saved manifests never change, so what is a parent stays one.      *)

HeadsKept(r) == Unreferenced(r) \subseteq heads[r] /\ heads[r] \subseteq view[r]

\* A runner that merges nothing keeps its heads.
LEMMA HeadsFrame ==
  ASSUME NoHeadLost, NEW s \in Runners, view'[s] = view[s], heads'[s] = heads[s],
         \A k \in view[s] : manifestTable'[k] = manifestTable[k]
  PROVE  HeadsKept(s)'
BY DEF NoHeadLost, Unreferenced, HeadsKept

\* applyManifestLocked replaces a head by the manifest that names it as parent.
LEMMA HeadsApply ==
  ASSUME CommitInv, NoHeadLost, NEW r \in Runners, NEW id \in ManifestIDs, NEW m,
         ApplyManifest(r, id, m), manifestTable'[id] = m,
         \A k \in Committed : manifestTable'[k] = manifestTable[k]
  PROVE  NoHeadLost'
<1>1. /\ \A s \in Runners : view[s] \subseteq Committed
      /\ heads \in [Runners -> SUBSET ManifestIDs]
      /\ view \in [Runners -> SUBSET ManifestIDs]
  BY DEF CommitInv, NamesBound, TypeOK
<1>2. /\ heads'[r] = (heads[r] \ m.parents) \cup {id}
      /\ view'[r] = view[r] \cup {id}
      /\ \A s \in Runners \ {r} : heads'[s] = heads[s] /\ view'[s] = view[s]
  BY <1>1 DEF ApplyManifest, MergeHeads
<1>3. HeadsKept(r)'
  BY <1>1, <1>2 DEF NoHeadLost, Unreferenced, HeadsKept
<1>4. ASSUME NEW s \in Runners \ {r} PROVE HeadsKept(s)'
  BY <1>1, <1>2, HeadsFrame
<1> QED BY <1>3, <1>4 DEF NoHeadLost, HeadsKept

\* Steps that leave the index and the saved manifests alone.
LEMMA HeadsUnchanged ==
  ASSUME NoHeadLost, UNCHANGED <<manifestTable, view, heads>>
  PROVE  NoHeadLost'
BY DEF NoHeadLost, Unreferenced

\* Requests and flushes keep the heads; only the save of a manifest moves them.
LEMMA HeadsOfRunner ==
  ASSUME CommitInv, NoHeadLost, NEW r \in Runners, RequestStep(r) \/ FlushStep(r)
  PROVE  NoHeadLost'
<1> USE DEF backendVars, indexVars
<1>1. CASE RequestStep(r)
  <2>1. Quiet \/ (\E d \in CAS : StageCAS(r, d)) \/ (\E q \in requests[r] : StageAction(r, q))
    BY <1>1, QuietSteps DEF RequestStep
  <2>2. UNCHANGED <<manifestTable, view, heads>>
    BY <2>1 DEF Quiet, StageCAS, StageAction
  <2> QED BY <2>2, HeadsUnchanged
<1>2. CASE FlushPack(r) \/ FlushPackFails(r)
  BY <1>2, HeadsUnchanged DEF FlushPack, FlushPackFails
<1>3. CASE FlushManifest(r)
  <2> DEFINE m == ManifestFor(r, flush[r], PackOf(r, flush[r]))
  <2>1. PICK mid \in ManifestIDs : SaveManifest(mid, m) /\ ApplyManifest(r, mid, m)
    BY <1>3 DEF FlushManifest
  <2>2. m \in Manifests BY <1>3, ManifestForBatch DEF FlushManifest
  <2>3. manifestTable'[mid] = m /\ \A k \in Committed : manifestTable'[k] = manifestTable[k]
    BY <2>1, <2>2, SaveManifestEffect DEF CommitInv
  <2> HIDE DEF m
  <2> QED BY <2>1, <2>3, HeadsApply
<1>4. CASE FlushManifestFails(r)
  <2> DEFINE m == ManifestFor(r, flush[r], PackOf(r, flush[r]))
  <2>1. UNCHANGED <<view, heads>> BY <1>4 DEF FlushManifestFails
  <2>2. manifestTable' = manifestTable \/ \E mid \in ManifestIDs : SaveManifest(mid, m)
    BY <1>4 DEF FlushManifestFails
  <2>3. m \in Manifests BY <1>4, ManifestForBatch DEF FlushManifestFails
  <2> HIDE DEF m
  <2>4. \A k \in Committed : manifestTable'[k] = manifestTable[k]
    BY <2>2, <2>3, SaveManifestEffect DEF CommitInv
  <2>5. \A s \in Runners : view[s] \subseteq Committed BY DEF CommitInv, NamesBound
  <2>6. ASSUME NEW s \in Runners PROVE HeadsKept(s)'
    BY <2>1, <2>4, <2>5, HeadsFrame
  <2> QED BY <2>6 DEF NoHeadLost, HeadsKept
<1> QED BY <1>1, <1>2, <1>3, <1>4 DEF FlushStep

\* Discovery applies saved manifests; a process that ends forgets all of them.
LEMMA HeadsOfProcess ==
  ASSUME CommitInv, NoHeadLost, NEW r \in Runners, LifeStep(r) \/ Crash(r)
  PROVE  NoHeadLost'
<1> USE DEF backendVars, indexVars
<1>1. CASE Start(r) \/ Ready(r) \/ Shutdown(r) \/ Drain(r) \/ Stop(r)
  BY <1>1, QuietSteps, HeadsUnchanged DEF Quiet
<1>2. CASE MergeNext(r)
  <2>1. PICK id \in todo[r] : ApplyManifest(r, id, manifestTable[id])
    BY <1>2 DEF MergeNext
  <2>2. id \in ManifestIDs /\ manifestTable' = manifestTable
    BY <1>2 DEF MergeNext, CommitInv, TypeOK
  <2> QED BY <2>1, <2>2, HeadsApply
<1>3. CASE Exit(r) \/ Crash(r)
  <2>1. Forget(r) BY <1>3 DEF Exit, Crash
  <2>2. /\ manifestTable' = manifestTable
        /\ view'[r] = {} /\ heads'[r] = {}
        /\ \A s \in Runners \ {r} : heads'[s] = heads[s] /\ view'[s] = view[s]
    BY <2>1 DEF Forget, CommitInv, TypeOK
  <2>3. HeadsKept(r)' BY <2>2 DEF HeadsKept, Unreferenced
  <2>4. ASSUME NEW s \in Runners \ {r} PROVE HeadsKept(s)'
    BY <2>2, HeadsFrame
  <2> QED BY <2>3, <2>4 DEF NoHeadLost, HeadsKept
<1> QED BY <1>1, <1>2, <1>3 DEF LifeStep

\* Whatever concurrent writers commit, discover in any order and evict, the next
\* manifest of a runner descends from everything that applyManifestLocked merged.
THEOREM HeadsAreKept == Spec => []NoHeadLost
<1>1. Init => NoHeadLost BY DEF Init, NoHeadLost, Unreferenced
<1>2. CommitInv /\ NoHeadLost /\ [Next]_vars => NoHeadLost'
  <2> SUFFICES ASSUME CommitInv, NoHeadLost, [Next]_vars PROVE NoHeadLost' OBVIOUS
  <2>1. CASE EvictPack \/ EvictManifest \/ UNCHANGED vars
    BY <2>1, HeadsUnchanged DEF EvictPack, EvictManifest, LeaveState, vars, backendVars,
      indexVars
  <2> QED BY <2>1, HeadsOfRunner, HeadsOfProcess DEF Next
<1> QED BY <1>1, <1>2, CommitInvariant, PTL DEF Spec

-----------------------------------------------------------------------------
(* Staging: what is pending is not known, and nothing is pending while the  *)
(* index still grows by discovery.                                          *)

StagedFor(r) ==
  /\ Pending(r) \cap Known(r) = {}
  /\ \A i, j \in 1..Len(pendingCAS[r]) : pendingCAS[r][i] = pendingCAS[r][j] => i = j
  /\ phase[r] \in {"off", "discovering", "gone"} => pendingCAS[r] = <<>>

StagedInv == \A r \in Runners : StagedFor(r)

\* A runner whose index and pending order stay, and that does not restart.
LEMMA StagedFrame ==
  ASSUME NEW s \in Runners, StagedFor(s), cas'[s] = cas[s],
         pendingCAS'[s] = pendingCAS[s],
         phase'[s] \in {"off", "discovering", "gone"} =>
           phase[s] \in {"off", "discovering", "gone"}
  PROVE  StagedFor(s)'
BY DEF StagedFor, Pending, Known, SeqRange

\* stageCAS appends an object that is neither pending nor known.
LEMMA StagedAppend ==
  ASSUME TypeOK, StagedInv, NEW r \in Runners, NEW d \in CAS, StageCAS(r, d)
  PROVE  StagedInv'
<1>1. /\ UNCHANGED <<phase, cas>>
      /\ phase[r] \in {"serving", "closing"}
      /\ pendingCAS'[r] = IF AlreadyStaged(r, d) THEN pendingCAS[r]
                                                  ELSE Append(pendingCAS[r], d)
      /\ \A s \in Runners \ {r} : pendingCAS'[s] = pendingCAS[s]
  BY DEF StageCAS, MuFree, TypeOK, indexVars
<1>2. CASE AlreadyStaged(r, d)
  BY <1>1, <1>2, StagedFrame DEF StagedInv
<1>3. CASE ~AlreadyStaged(r, d)
  <2>1. pendingCAS[r] \in Seq(CAS) BY DEF TypeOK
  <2>2. /\ Len(pendingCAS'[r]) = Len(pendingCAS[r]) + 1
        /\ \A i \in 1..Len(pendingCAS[r]) : pendingCAS'[r][i] = pendingCAS[r][i]
        /\ pendingCAS'[r][Len(pendingCAS[r]) + 1] = d
    BY <1>1, <1>3, <2>1
  <2>3. d \notin Known(r) /\ \A i \in 1..Len(pendingCAS[r]) : pendingCAS[r][i] # d
    BY <1>3 DEF AlreadyStaged, Known, SeqRange
  <2>4. StagedFor(r) BY DEF StagedInv
  <2>5. Known(r)' = Known(r) BY <1>1 DEF Known
  <2>6. Pending(r)' = Pending(r) \cup {d}
    BY <2>1, <2>2 DEF Pending, SeqRange
  <2>7. \A i, j \in 1..Len(pendingCAS'[r]) : pendingCAS'[r][i] = pendingCAS'[r][j] => i = j
    BY <2>1, <2>2, <2>3, <2>4 DEF StagedFor
  <2>8. StagedFor(r)' BY <1>1, <2>3, <2>4, <2>5, <2>6, <2>7 DEF StagedFor
  <2>9. ASSUME NEW s \in Runners \ {r} PROVE StagedFor(s)'
    BY <1>1, StagedFrame DEF StagedInv
  <2> QED BY <2>8, <2>9 DEF StagedInv
<1> QED BY <1>2, <1>3

\* The batch leaves the pending order in the step that makes it known.
LEMMA StagedFlush ==
  ASSUME CommitInv, StagedInv, NEW r \in Runners, FlushManifest(r)
  PROVE  StagedInv'
<1> DEFINE m == ManifestFor(r, flush[r], PackOf(r, flush[r]))
<1>1. PICK mid \in ManifestIDs : ApplyManifest(r, mid, m)
  BY DEF FlushManifest
<1>2. /\ flush[r] # NoBatch
      /\ UNCHANGED <<phase, savedPacks>>
      /\ Handling(r)
      /\ pendingCAS' = [pendingCAS EXCEPT ![r] = SubSeq(@, flush[r].n + 1, Len(@))]
  BY DEF FlushManifest, RemovePending
<1>3. /\ m \in Manifests /\ m.pack \in savedPacks /\ m.cas = flush[r].cas
      /\ m.cas \subseteq m.pack.cas
      /\ \A a \in Actions : m.actions[a] # None => m.actions[a] \in m.pack.res
  BY <1>2, ManifestForBatch
<1> HIDE DEF m
<1>4. /\ Known(r)' \subseteq Known(r) \cup flush[r].cas
      /\ \A s \in Runners \ {r} : cas'[s] = cas[s]
  BY <1>1, <1>2, <1>3, ApplyManifestGrounded DEF CommitInv
<1> DEFINE p == pendingCAS[r]  n == flush[r].n
<1>5. /\ p \in Seq(CAS) /\ n \in Nat /\ n <= Len(p)
      /\ flush[r].cas = {p[i] : i \in 1..n}
  BY DEF CommitInv, TypeOK, Batches, BatchStable, StableBatch
<1>6. /\ pendingCAS'[r] = SubSeq(p, n + 1, Len(p))
      /\ \A s \in Runners \ {r} : pendingCAS'[s] = pendingCAS[s]
  BY <1>2 DEF CommitInv, TypeOK
<1>7. StagedFor(r) BY DEF StagedInv
<1>8. /\ Len(pendingCAS'[r]) = Len(p) - n
      /\ \A i \in 1..(Len(p) - n) : pendingCAS'[r][i] = p[i + n]
  <2> HIDE DEF p, n
  <2> QED BY <1>5, <1>6
<1>9. \A i, j \in 1..Len(p) : p[i] = p[j] => i = j
  BY <1>7 DEF StagedFor
<1>10. \A i, j \in 1..Len(pendingCAS'[r]) :
         pendingCAS'[r][i] = pendingCAS'[r][j] => i = j
  <2> SUFFICES ASSUME NEW i \in 1..Len(pendingCAS'[r]), NEW j \in 1..Len(pendingCAS'[r]),
                      pendingCAS'[r][i] = pendingCAS'[r][j]
               PROVE  i = j
    OBVIOUS
  <2> HIDE DEF p, n
  <2>1. Len(p) \in Nat /\ i \in 1..(Len(p) - n) /\ j \in 1..(Len(p) - n)
    BY <1>5, <1>8
  <2>2. i + n \in 1..Len(p) /\ j + n \in 1..Len(p) BY <2>1, <1>5
  <2>3. p[i + n] = p[j + n] BY <2>1, <1>8
  <2>4. i + n = j + n BY <2>2, <2>3, <1>9
  <2> QED BY <2>1, <2>4, <1>5
<1>11. ASSUME NEW i \in 1..Len(pendingCAS'[r])
       PROVE  pendingCAS'[r][i] \notin Known(r) \cup flush[r].cas
  <2>1. p[i + n] \notin Known(r)
    BY <1>5, <1>7, <1>8, <1>11 DEF StagedFor, Pending, SeqRange
  <2>2. p[i + n] \notin flush[r].cas
    <3> HIDE DEF p, n
    <3> QED BY <1>5, <1>8, <1>9, <1>11
  <2> QED BY <2>1, <2>2, <1>5, <1>8
<1>12. Pending(r)' \cap Known(r)' = {}
  BY <1>4, <1>11 DEF Pending, SeqRange
<1>13. StagedFor(r)' BY <1>2, <1>10, <1>12 DEF StagedFor, Handling
<1>14. ASSUME NEW s \in Runners \ {r} PROVE StagedFor(s)'
  BY <1>2, <1>4, <1>6, StagedFrame DEF StagedInv
<1> QED BY <1>13, <1>14 DEF StagedInv

\* The other steps of a runner.
LEMMA StagedOther ==
  ASSUME CommitInv, StagedInv, NEW r \in Runners,
         RequestStep(r) \/ FlushStep(r) \/ LifeStep(r) \/ Crash(r),
         ~FlushManifest(r), ~\E d \in CAS : StageCAS(r, d)
  PROVE  StagedInv'
<1> USE DEF backendVars, indexVars, stagingVars
<1>1. CASE RequestStep(r)
  <2>1. UNCHANGED <<phase, cas, pendingCAS>>
    BY <1>1 DEF RequestStep, PutCAS, GetCAS, GetAC, LookupAC, PutAC, MaterializeAC,
      Abandon, Serve, StageAction, CheckRef
  <2> QED BY <2>1, StagedFrame DEF StagedInv
<1>2. CASE FlushStep(r)
  <2>1. UNCHANGED <<cas, pendingCAS>>
    BY <1>2 DEF FlushStep, FlushPack, FlushPackFails, FlushManifestFails
  <2>2. \A s \in Runners : phase'[s] = phase[s] \/ phase'[s] = "failed"
    BY <1>2 DEF FlushStep, FlushPack, FlushPackFails, FlushManifestFails,
      AfterFlushError, CommitInv, TypeOK
  <2> QED BY <2>1, <2>2, StagedFrame DEF StagedInv
<1>3. CASE Start(r) \/ Ready(r) \/ Shutdown(r) \/ Drain(r) \/ Stop(r)
  <2>1. UNCHANGED <<cas, pendingCAS>> BY <1>3, QuietSteps DEF Quiet
  <2>2. \A s \in Runners : phase'[s] \in {"off", "discovering", "gone"} =>
                             phase[s] \in {"off", "discovering", "gone"}
    BY <1>3 DEF Start, Ready, Shutdown, Drain, Stop, CommitInv, TypeOK
  <2> QED BY <2>1, <2>2, StagedFrame DEF StagedInv
<1>4. CASE MergeNext(r)
  <2>1. /\ UNCHANGED <<phase, pendingCAS>> /\ phase[r] = "discovering"
        /\ \A s \in Runners \ {r} : cas'[s] = cas[s]
    BY <1>4 DEF MergeNext, ApplyManifest, CommitInv, TypeOK
  <2>2. pendingCAS'[r] = <<>> BY <2>1 DEF StagedInv, StagedFor
  <2>3. StagedFor(r)' BY <2>2 DEF StagedFor, Pending, SeqRange
  <2>4. ASSUME NEW s \in Runners \ {r} PROVE StagedFor(s)'
    BY <2>1, StagedFrame DEF StagedInv
  <2> QED BY <2>3, <2>4 DEF StagedInv
<1>5. CASE Exit(r) \/ Crash(r)
  <2>1. Forget(r) BY <1>5 DEF Exit, Crash
  <2>2. /\ pendingCAS'[r] = <<>>
        /\ \A s \in Runners \ {r} : /\ cas'[s] = cas[s] /\ phase'[s] = phase[s]
                                    /\ pendingCAS'[s] = pendingCAS[s]
    BY <2>1 DEF Forget, CommitInv, TypeOK
  <2>3. StagedFor(r)' BY <2>2 DEF StagedFor, Pending, SeqRange
  <2>4. ASSUME NEW s \in Runners \ {r} PROVE StagedFor(s)'
    BY <2>2, StagedFrame DEF StagedInv
  <2> QED BY <2>3, <2>4 DEF StagedInv
<1> QED BY <1>1, <1>2, <1>3, <1>4, <1>5 DEF LifeStep

\* The staging invariant holds in every reachable state.
THEOREM StagedInvariant == Spec => []StagedInv
<1>1. Init => StagedInv
  BY DEF Init, StagedInv, StagedFor, Pending, SeqRange
<1>2. CommitInv /\ StagedInv /\ [Next]_vars => StagedInv'
  <2> SUFFICES ASSUME CommitInv, StagedInv, [Next]_vars PROVE StagedInv' OBVIOUS
  <2>1. ASSUME NEW r \in Runners,
               RequestStep(r) \/ FlushStep(r) \/ LifeStep(r) \/ Crash(r)
        PROVE  StagedInv'
    BY <2>1, StagedAppend, StagedFlush, StagedOther DEF CommitInv
  <2>2. CASE EvictPack \/ EvictManifest \/ UNCHANGED vars
    <3>1. UNCHANGED <<phase, cas, pendingCAS>>
      BY <2>2 DEF EvictPack, EvictManifest, LeaveState, vars, indexVars, stagingVars
    <3> QED BY <3>1, StagedFrame DEF StagedInv
  <2> QED BY <2>1, <2>2 DEF Next
<1> QED BY <1>1, <1>2, CommitInvariant, PTL DEF Spec

\* An object is pending at most once and never after a merged manifest has it,
\* so the flushes of one runner never publish it twice.
THEOREM NothingTwice == Spec => []StagedOnce
<1>1. StagedInv => StagedOnce BY DEF StagedInv, StagedFor, StagedOnce
<1> QED BY <1>1, StagedInvariant, PTL

-----------------------------------------------------------------------------
(* The final flush: an object in the spool of a writer is still on its way  *)
(* to stageCAS, staged, or in a merged manifest.                            *)

DrainedFor(r) ==
  /\ r \in Writers => casObjects[r] \subseteq uploading[r] \cup Pending(r) \cup Known(r)
  /\ \A q \in requests[r] : q.op = "put" => r \in Writers
  /\ \A a \in Actions : pendingActions[r][a] # None =>
       r \in Writers /\ Closure[pendingActions[r][a]] \subseteq casObjects[r]
  /\ phase[r] = "stopped" => NothingToFlush(r)

DrainInv == \A r \in Runners : DrainedFor(r)

\* A runner whose spool, staged writes and index stay, and that does not stop.
LEMMA DrainFrame ==
  ASSUME NEW s \in Runners, DrainedFor(s),
         casObjects'[s] = casObjects[s], uploading'[s] = uploading[s],
         pendingCAS'[s] = pendingCAS[s], pendingActions'[s] = pendingActions[s],
         cas'[s] = cas[s], requests'[s] = requests[s],
         phase'[s] = "stopped" => phase[s] = "stopped"
  PROVE  DrainedFor(s)'
BY DEF DrainedFor, Pending, Known, SeqRange, NothingToFlush, SelectActions

\* Steps of requests that stage nothing: what they add to the spool is an upload
\* or comes from the index.
LEMMA DrainSpool ==
  ASSUME TypeOK, DrainInv, UNCHANGED <<phase, pendingCAS, pendingActions, cas>>,
         \A s \in Runners : /\ casObjects[s] \subseteq casObjects'[s]
                            /\ uploading[s] \subseteq uploading'[s]
                            /\ s \in Writers => casObjects'[s] \subseteq
                                 casObjects[s] \cup uploading'[s] \cup Known(s),
         \A s \in Runners : \A q \in requests'[s] :
           q.op = "put" => s \in Writers
  PROVE  DrainInv'
<1>1. ASSUME NEW s \in Runners PROVE DrainedFor(s)'
  <2>1. DrainedFor(s) BY DEF DrainInv
  <2>2. Pending(s)' = Pending(s) /\ Known(s)' = Known(s)
    BY DEF Pending, Known, SeqRange
  <2>3. NothingToFlush(s)' <=> NothingToFlush(s)
    BY DEF NothingToFlush, SelectActions
  <2> QED BY <2>1, <2>2, <2>3 DEF DrainedFor
<1> QED BY <1>1 DEF DrainInv

\* Requests keep account of the spool: a PUT of an object by a writer is on its way
\* to stageCAS, stageCAS makes it pending or finds it known, and an action result is
\* staged by a writer whose spool has the closure.
LEMMA DrainRequests ==
  ASSUME TypeOK, RequestInv, DrainInv, NEW r \in Runners, RequestStep(r)
  PROVE  DrainInv'
<1> USE DEF indexVars, stagingVars, spoolVars
<1>a. \A s \in Runners : \A q \in requests[s] : q.op = "put" => s \in Writers
  BY DEF DrainInv, DrainedFor
<1>1. ASSUME NEW d \in CAS, PutCAS(r, d) PROVE DrainInv'
  <2>1. /\ UNCHANGED <<phase, pendingCAS, pendingActions, cas, requests>>
        /\ \A s \in Runners : /\ casObjects[s] \subseteq casObjects'[s]
                              /\ uploading[s] \subseteq uploading'[s]
                              /\ s \in Writers => casObjects'[s] \subseteq
                                   casObjects[s] \cup uploading'[s]
    BY <1>1 DEF PutCAS, TypeOK, clientVars
  <2> QED BY <2>1, <1>a, DrainSpool
<1>2. ASSUME NEW d \in CAS, StageCAS(r, d) PROVE DrainInv'
  <2>1. /\ UNCHANGED <<phase, casObjects, pendingActions, cas, requests>>
        /\ phase[r] \in {"serving", "closing"}
        /\ uploading'[r] = uploading[r] \ {d}
        /\ pendingCAS'[r] = IF AlreadyStaged(r, d) THEN pendingCAS[r]
                                                    ELSE Append(pendingCAS[r], d)
        /\ \A s \in Runners \ {r} : /\ pendingCAS'[s] = pendingCAS[s]
                                    /\ uploading'[s] = uploading[s]
    BY <1>2 DEF StageCAS, MuFree, TypeOK, clientVars
  <2>2. /\ Pending(r) \subseteq Pending(r)' /\ Known(r)' = Known(r)
        /\ d \in Pending(r)' \cup Known(r)
    <3>1. pendingCAS[r] \in Seq(CAS) BY DEF TypeOK
    <3>2. Known(r)' = Known(r) BY <2>1 DEF Known
    <3>3. CASE AlreadyStaged(r, d)
      BY <2>1, <3>2, <3>3 DEF AlreadyStaged, Pending, Known, SeqRange
    <3>4. CASE ~AlreadyStaged(r, d)
      <4>1. /\ Len(pendingCAS'[r]) = Len(pendingCAS[r]) + 1
            /\ \A i \in 1..Len(pendingCAS[r]) : pendingCAS'[r][i] = pendingCAS[r][i]
            /\ pendingCAS'[r][Len(pendingCAS[r]) + 1] = d
            /\ Len(pendingCAS[r]) \in Nat
        BY <2>1, <3>1, <3>4
      <4> QED BY <3>2, <4>1 DEF Pending, SeqRange
    <3> QED BY <3>3, <3>4
  <2>3. DrainedFor(r)' BY <2>1, <2>2 DEF DrainInv, DrainedFor
  <2>4. ASSUME NEW s \in Runners \ {r} PROVE DrainedFor(s)'
    BY <2>1, DrainFrame DEF DrainInv
  <2> QED BY <2>3, <2>4 DEF DrainInv
<1>3. ASSUME NEW d \in CAS, NEW q \in requests[r], CheckRef(r, q, d) PROVE DrainInv'
  <2>1. /\ UNCHANGED <<phase, pendingCAS, pendingActions, cas, uploading>>
        /\ casObjects' = casObjects \/ ResolveCAS(r, d)
        /\ requests' = [requests EXCEPT ![r] = (@ \ {q}) \cup {[q EXCEPT !.todo = @ \ {d}]}]
    BY <1>3 DEF CheckRef
  <2>2. \A s \in Runners : /\ casObjects[s] \subseteq casObjects'[s]
                           /\ casObjects'[s] \subseteq casObjects[s] \cup Known(s)
    <3>1. CASE casObjects' = casObjects BY <3>1
    <3>2. CASE ResolveCAS(r, d) BY <3>2 DEF ResolveCAS, TypeOK, Known
    <3> QED BY <2>1, <3>1, <3>2
  <2>3. [q EXCEPT !.todo = @ \ {d}].op = q.op BY DEF TypeOK, Requests
  <2>4. /\ \A s \in Runners \ {r} : requests'[s] = requests[s]
        /\ \A p \in requests'[r] : p \in requests[r] \/ p.op = q.op
    BY <2>1, <2>3 DEF TypeOK
  <2> QED BY <2>1, <2>2, <2>4, <1>a, DrainSpool
<1>4. ASSUME NEW d \in CAS, GetCAS(r, d) PROVE DrainInv'
  <2>1. /\ UNCHANGED <<phase, pendingCAS, pendingActions, cas, uploading, requests>>
        /\ ResolveCAS(r, d)
    BY <1>4 DEF GetCAS, clientVars
  <2>2. \A s \in Runners : /\ casObjects[s] \subseteq casObjects'[s]
                           /\ casObjects'[s] \subseteq casObjects[s] \cup Known(s)
    BY <2>1 DEF ResolveCAS, TypeOK, Known
  <2> QED BY <2>1, <2>2, <1>a, DrainSpool
<1>5. ASSUME \/ \E a \in Actions : GetAC(r, a) \/ LookupAC(r, a)
             \/ \E a \in Actions, v \in Results : PutAC(r, a, v)
             \/ \E q \in requests[r] : MaterializeAC(r, q) \/ Abandon(r, q) \/ Serve(r, q)
      PROVE DrainInv'
  <2>1. UNCHANGED <<phase, casObjects, uploading, pendingCAS, pendingActions, cas>>
    BY <1>5 DEF GetAC, LookupAC, PutAC, MaterializeAC, Abandon, Serve
  <2>2. /\ \A s \in Runners \ {r} : requests'[s] = requests[s]
        /\ \A p \in requests'[r] : p \in requests[r] \/ (p.op = "put" => r \in Writers)
    <3>1. CASE \E a \in Actions : GetAC(r, a) \/ LookupAC(r, a)
      BY <3>1 DEF GetAC, LookupAC, Validating, TypeOK
    <3>2. CASE \E a \in Actions, v \in Results : PutAC(r, a, v)
      BY <3>2 DEF PutAC, TypeOK
    <3>3. CASE \E q \in requests[r] : MaterializeAC(r, q) \/ Abandon(r, q) \/ Serve(r, q)
      BY <3>3 DEF MaterializeAC, Abandon, Serve, Validating, TypeOK
    <3> QED BY <1>5, <3>1, <3>2, <3>3
  <2> QED BY <2>1, <2>2, <1>a, DrainSpool
<1>6. ASSUME NEW q \in requests[r], StageAction(r, q) PROVE DrainInv'
  <2>1. /\ UNCHANGED <<phase, casObjects, uploading, pendingCAS, cas>>
        /\ phase[r] \in {"serving", "closing"}
        /\ q.op = "put" /\ q.todo = {}
        /\ requests' = [requests EXCEPT ![r] = @ \ {q}]
        /\ \/ pendingActions' = [pendingActions EXCEPT ![r][q.act] = None]
           \/ pendingActions' = [pendingActions EXCEPT ![r][q.act] = q.res]
    BY <1>6 DEF StageAction, MuFree
  <2>2. r \in Writers /\ Closure[q.res] \subseteq casObjects[r]
    BY <2>1, <1>a DEF RequestInv, HandlerInv
  <2>3. /\ \A a \in Actions : \/ pendingActions'[r][a] = pendingActions[r][a]
                              \/ pendingActions'[r][a] \in {None, q.res}
        /\ \A s \in Runners \ {r} : pendingActions'[s] = pendingActions[s]
        /\ \A s \in Runners \ {r} : requests'[s] = requests[s]
        /\ requests'[r] \subseteq requests[r]
    BY <2>1 DEF TypeOK
  <2>4. Pending(r)' = Pending(r) /\ Known(r)' = Known(r)
    BY <2>1 DEF Pending, Known, SeqRange
  <2>5. DrainedFor(r)'
    BY <2>1, <2>2, <2>3, <2>4 DEF DrainInv, DrainedFor
  <2>6. ASSUME NEW s \in Runners \ {r} PROVE DrainedFor(s)'
    BY <2>1, <2>3, DrainFrame DEF DrainInv
  <2> QED BY <2>5, <2>6 DEF DrainInv
<1> QED BY <1>1, <1>2, <1>3, <1>4, <1>5, <1>6 DEF RequestStep

\* What leaves the pending order is known afterwards.
LEMMA DrainFlush ==
  ASSUME CommitInv, DrainInv, NEW r \in Runners, FlushManifest(r)
  PROVE  DrainInv'
<1> DEFINE m == ManifestFor(r, flush[r], PackOf(r, flush[r]))
           p == pendingCAS[r]
           n == flush[r].n
<1>1. PICK mid \in ManifestIDs : ApplyManifest(r, mid, m)
  BY DEF FlushManifest
<1>2. /\ flush[r] # NoBatch
      /\ UNCHANGED <<phase, savedPacks, casObjects, uploading, requests>>
      /\ Handling(r)
      /\ pendingCAS' = [pendingCAS EXCEPT ![r] = SubSeq(@, flush[r].n + 1, Len(@))]
      /\ \A s \in Runners \ {r} : pendingActions'[s] = pendingActions[s]
      /\ \A a \in Actions : pendingActions'[r][a] \in {None, pendingActions[r][a]}
  BY DEF FlushManifest, RemovePending, spoolVars, clientVars, CommitInv, TypeOK
<1>3. m.cas = flush[r].cas /\ m \in Manifests /\ m.pack # None
  BY <1>2, ManifestForBatch, NoneAssumption DEF NoneAssumption, Manifests
<1> HIDE DEF m
<1>4. /\ cas'[r] = MergeCAS(cas[r], m)
      /\ \A s \in Runners \ {r} : cas'[s] = cas[s]
  BY <1>1 DEF ApplyManifest, CommitInv, TypeOK
<1>5. Known(r) \cup flush[r].cas \subseteq Known(r)'
  <2>1. flush[r].cas \subseteq CAS BY DEF CommitInv, TypeOK, Batches
  <2> QED BY <2>1, <1>3, <1>4 DEF Known, MergeCAS
<1>6. /\ p \in Seq(CAS) /\ n \in Nat /\ n <= Len(p)
      /\ flush[r].cas = {p[i] : i \in 1..n}
  BY DEF CommitInv, TypeOK, Batches, BatchStable, StableBatch
<1>7. /\ pendingCAS'[r] = SubSeq(p, n + 1, Len(p))
      /\ \A s \in Runners \ {r} : pendingCAS'[s] = pendingCAS[s]
  BY <1>2 DEF CommitInv, TypeOK
<1>8. Pending(r) \subseteq Pending(r)' \cup flush[r].cas
  <2> SUFFICES ASSUME NEW i \in 1..Len(p), i > n
               PROVE  \E j \in 1..Len(pendingCAS'[r]) : pendingCAS'[r][j] = p[i]
    BY <1>6 DEF Pending, SeqRange
  <2> HIDE DEF p, n
  <2>1. Len(pendingCAS'[r]) = Len(p) - n /\ i - n \in 1..(Len(p) - n)
    BY <1>6, <1>7
  <2>2. pendingCAS'[r][i - n] = p[i] BY <1>6, <1>7, <2>1
  <2> QED BY <2>1, <2>2
<1>9. DrainedFor(r)'
  BY <1>2, <1>5, <1>8 DEF DrainInv, DrainedFor, Handling
<1>10. ASSUME NEW s \in Runners \ {r} PROVE DrainedFor(s)'
  BY <1>2, <1>4, <1>7, DrainFrame DEF DrainInv
<1> QED BY <1>9, <1>10 DEF DrainInv

\* The other steps of a process.  Discovery only adds to what is known.
LEMMA DrainOther ==
  ASSUME CommitInv, DrainInv, NEW r \in Runners,
         FlushStep(r) \/ LifeStep(r) \/ Crash(r), ~FlushManifest(r)
  PROVE  DrainInv'
<1> USE DEF indexVars, stagingVars, spoolVars, clientVars
<1>1. CASE FlushPack(r) \/ FlushPackFails(r) \/ FlushManifestFails(r)
  <2>1. UNCHANGED <<casObjects, uploading, pendingCAS, pendingActions, cas, requests>>
    BY <1>1 DEF FlushPack, FlushPackFails, FlushManifestFails
  <2>2. \A s \in Runners : phase'[s] = phase[s] \/ phase'[s] = "failed"
    BY <1>1 DEF FlushPack, FlushPackFails, FlushManifestFails, AfterFlushError, CommitInv,
      TypeOK
  <2> QED BY <2>1, <2>2, DrainFrame DEF DrainInv
<1>2. CASE Start(r) \/ Ready(r) \/ Shutdown(r) \/ Drain(r)
  <2>1. /\ UNCHANGED <<casObjects, uploading, pendingCAS, pendingActions, cas, requests>>
        /\ \A s \in Runners : phase'[s] = "stopped" => phase[s] = "stopped"
    BY <1>2 DEF Start, Ready, Shutdown, Drain, LeaveState, CommitInv, TypeOK
  <2> QED BY <2>1, DrainFrame DEF DrainInv
<1>3. CASE Stop(r)
  <2>1. /\ UNCHANGED <<casObjects, uploading, pendingCAS, pendingActions, cas, requests>>
        /\ NothingToFlush(r)
        /\ \A s \in Runners \ {r} : phase'[s] = phase[s]
    BY <1>3 DEF Stop, LeaveState, CommitInv, TypeOK
  <2>2. DrainedFor(r)'
    BY <2>1 DEF DrainInv, DrainedFor, Pending, Known, SeqRange, NothingToFlush, SelectActions
  <2>3. ASSUME NEW s \in Runners \ {r} PROVE DrainedFor(s)'
    BY <2>1, DrainFrame DEF DrainInv
  <2> QED BY <2>2, <2>3 DEF DrainInv
<1>4. CASE MergeNext(r)
  <2>1. PICK id \in todo[r] : ApplyManifest(r, id, manifestTable[id])
    BY <1>4 DEF MergeNext
  <2>2. /\ UNCHANGED <<phase, casObjects, uploading, pendingCAS, pendingActions, requests>>
        /\ phase[r] = "discovering"
    BY <1>4 DEF MergeNext
  <2>3. manifestTable[id] \in Manifests
    BY DEF CommitInv, TypeOK, NamesBound, Committed
  <2>4. manifestTable[id].pack # None BY <2>3, NoneAssumption DEF NoneAssumption, Manifests
  <2>5. /\ cas'[r] = MergeCAS(cas[r], manifestTable[id])
        /\ \A s \in Runners \ {r} : cas'[s] = cas[s]
    BY <2>1 DEF ApplyManifest, CommitInv, TypeOK
  <2>6. Known(r) \subseteq Known(r)' /\ Pending(r)' = Pending(r)
    BY <2>2, <2>4, <2>5 DEF Known, MergeCAS, Pending, SeqRange
  <2>7. DrainedFor(r)' BY <2>2, <2>6 DEF DrainInv, DrainedFor
  <2>8. ASSUME NEW s \in Runners \ {r} PROVE DrainedFor(s)'
    BY <2>2, <2>5, DrainFrame DEF DrainInv
  <2> QED BY <2>7, <2>8 DEF DrainInv
<1>5. CASE Exit(r) \/ Crash(r)
  <2>1. Forget(r) BY <1>5 DEF Exit, Crash
  <2>2. /\ casObjects'[r] = {} /\ requests'[r] = {} /\ phase'[r] = "gone"
        /\ \A a \in Actions : pendingActions'[r][a] = None
        /\ \A s \in Runners \ {r} :
             /\ casObjects'[s] = casObjects[s] /\ uploading'[s] = uploading[s]
             /\ pendingCAS'[s] = pendingCAS[s] /\ cas'[s] = cas[s]
             /\ pendingActions'[s] = pendingActions[s]
             /\ requests'[s] = requests[s] /\ phase'[s] = phase[s]
    BY <2>1 DEF Forget, CommitInv, TypeOK
  <2>3. DrainedFor(r)' BY <2>2 DEF DrainedFor
  <2>4. ASSUME NEW s \in Runners \ {r} PROVE DrainedFor(s)'
    BY <2>2, DrainFrame DEF DrainInv
  <2> QED BY <2>3, <2>4 DEF DrainInv
<1> QED BY <1>1, <1>2, <1>3, <1>4, <1>5 DEF FlushStep, LifeStep

\* The spool of a writer is accounted for in every reachable state.
THEOREM DrainInvariant == Spec => []DrainInv
<1>1. Init => DrainInv
  BY DEF Init, DrainInv, DrainedFor
<1>2. CommitInv /\ RequestInv /\ DrainInv /\ [Next]_vars => DrainInv'
  <2> SUFFICES ASSUME CommitInv, RequestInv, DrainInv, [Next]_vars PROVE DrainInv'
    OBVIOUS
  <2>1. ASSUME NEW r \in Runners,
               RequestStep(r) \/ FlushStep(r) \/ LifeStep(r) \/ Crash(r)
        PROVE  DrainInv'
    BY <2>1, DrainRequests, DrainFlush, DrainOther DEF CommitInv
  <2>2. CASE EvictPack \/ EvictManifest \/ UNCHANGED vars
    <3>1. UNCHANGED <<phase, casObjects, uploading, pendingCAS, pendingActions, cas, requests>>
      BY <2>2 DEF EvictPack, EvictManifest, LeaveState, vars, indexVars, stagingVars,
        spoolVars, clientVars
    <3> QED BY <3>1, DrainFrame DEF DrainInv
  <2> QED BY <2>1, <2>2 DEF Next
<1> QED BY <1>1, <1>2, CommitInvariant, RequestInvariant, PTL DEF Spec

\* When Close returns without an error, nothing that stageCAS took is left, and a
\* staged result is left only when one of its objects never reached stageCAS.
THEOREM DrainIsComplete == Spec => []DrainComplete
<1>1. TypeOK /\ DrainInv => DrainComplete
  <2> SUFFICES ASSUME TypeOK, DrainInv, NEW r \in Runners, phase[r] = "stopped",
                      NEW a \in Actions, pendingActions[r][a] # None
               PROVE  /\ pendingCAS[r] = <<>>
                      /\ Closure[pendingActions[r][a]] \cap uploading[r] # {}
    BY DEF DrainComplete, DrainInv, DrainedFor, NothingToFlush
  <2>1. NothingToFlush(r) /\ DrainedFor(r) BY DEF DrainInv, DrainedFor
  <2>2. pendingCAS[r] = <<>> /\ SelectActions(r, {}) = {} BY <2>1 DEF NothingToFlush
  <2>3. PICK d \in Closure[pendingActions[r][a]] : cas[r][d] = None
    BY <2>2 DEF SelectActions
  <2>4. r \in Writers /\ d \in casObjects[r] BY <2>1 DEF DrainedFor
  <2>5. d \notin Known(r) /\ Pending(r) = {}
    BY <2>2, <2>3 DEF Known, Pending, SeqRange
  <2> QED BY <2>1, <2>2, <2>4, <2>5 DEF DrainedFor
<1> QED BY <1>1, TypeCorrect, DrainInvariant, PTL

-----------------------------------------------------------------------------
(* Conflicts: what the index, the spool and the requests say of a result.   *)

\* Every merged manifest that has a result for action a has this one.
Undisputed(r, a, v) ==
  a \notin actionConflicts[r] /\ actions[r][a] # None /\ actions[r][a].res = v

\* A result gets under an action key by an upload of this runner or from an
\* index that has no other one; the object of the key then stays, and what the
\* runner itself publishes for the key is that object.
ChoiceFor(r) ==
  /\ \A m \in view[r], a \in Actions : manifestTable[m].actions[a] # None =>
       /\ actions[r][a] # None
       /\ a \in actionConflicts[r] \/ actions[r][a].res = manifestTable[m].actions[a]
  /\ \A a \in Actions : acObjects[r][a] # None =>
       \/ <<a, acObjects[r][a]>> \in putValues[r]
       \/ Undisputed(r, a, acObjects[r][a])
  /\ \A q \in requests[r] :
       /\ q.op = "load" /\ acObjects[r][q.act] = None => Undisputed(r, q.act, q.res)
       /\ q.op = "get" => acObjects[r][q.act] = q.res
  /\ \A x \in served[r] : acObjects[r][x[1]] = x[2]
  /\ phase[r] \in {"off", "discovering", "gone"} =>
       requests[r] = {} /\ \A a \in Actions : acObjects[r][a] = None

ChoiceInv == \A r \in Runners : ChoiceFor(r)

Early == {"off", "discovering", "gone"}

\* A runner whose index, spool and requests stay keeps its invariant.
LEMMA ChoiceFrame ==
  ASSUME NEW s \in Runners, ChoiceFor(s),
         view'[s] = view[s], actions'[s] = actions[s],
         actionConflicts'[s] = actionConflicts[s], acObjects'[s] = acObjects[s],
         requests'[s] = requests[s], putValues'[s] = putValues[s],
         served'[s] = served[s], phase'[s] \in Early => phase[s] \in Early,
         \A k \in view[s] : manifestTable'[k] = manifestTable[k]
  PROVE  ChoiceFor(s)'
BY DEF ChoiceFor, Undisputed, Early

\* What requests add is uploaded here, undisputed or stored under its key.
LEMMA ChoiceSpool ==
  ASSUME TypeOK, ChoiceInv, NEW r \in Runners, phase[r] \notin Early,
         UNCHANGED <<manifestTable, phase, view, actions, actionConflicts>>,
         \A s \in Runners \ {r} :
           /\ acObjects'[s] = acObjects[s] /\ requests'[s] = requests[s]
           /\ putValues'[s] = putValues[s] /\ served'[s] = served[s],
         putValues[r] \subseteq putValues'[r],
         \A a \in Actions : acObjects[r][a] # None => acObjects'[r][a] = acObjects[r][a],
         \A a \in Actions : \/ acObjects'[r][a] = acObjects[r][a]
                            \/ <<a, acObjects'[r][a]>> \in putValues'[r]
                            \/ Undisputed(r, a, acObjects'[r][a]),
         \A q \in requests'[r] :
           \/ q \in requests[r]
           \/ q.op = "put"
           \/ q.op = "load" /\ Undisputed(r, q.act, q.res)
           \/ q.op = "get" /\ acObjects'[r][q.act] = q.res,
         \A x \in served'[r] : x \in served[r] \/ acObjects'[r][x[1]] = x[2]
  PROVE  ChoiceInv'
<1>1. ChoiceFor(r) BY DEF ChoiceInv
<1>2. \A a, v : Undisputed(r, a, v)' <=> Undisputed(r, a, v) BY DEF Undisputed
<1>3. \A a \in Actions : acObjects'[r][a] # None =>
        \/ <<a, acObjects'[r][a]>> \in putValues'[r]
        \/ Undisputed(r, a, acObjects[r][a])'
  BY <1>1 DEF ChoiceFor, Undisputed
<1>4. ASSUME NEW q \in requests'[r]
      PROVE  /\ q.op = "load" /\ acObjects'[r][q.act] = None => Undisputed(r, q.act, q.res)'
             /\ q.op = "get" => acObjects'[r][q.act] = q.res
  <2>1. CASE q \in requests[r]
    <3>1. q.act \in Actions /\ q.res # None
      BY <2>1, NoneAssumption DEF TypeOK, Requests, NoneAssumption
    <3>2. /\ q.op = "load" /\ acObjects[r][q.act] = None => Undisputed(r, q.act, q.res)
          /\ q.op = "get" => acObjects[r][q.act] = q.res
      BY <1>1, <2>1 DEF ChoiceFor
    <3> QED BY <1>2, <3>1, <3>2
  <2>2. CASE q \notin requests[r] BY <1>2, <2>2
  <2> QED BY <2>1, <2>2
<1>5. ASSUME NEW x \in served'[r] PROVE acObjects'[r][x[1]] = x[2]
  <2>1. CASE x \in served[r]
    <3>1. x[1] \in Actions /\ x[2] # None
      BY <2>1, NoneAssumption DEF TypeOK, NoneAssumption
    <3>2. acObjects[r][x[1]] = x[2] BY <1>1, <2>1 DEF ChoiceFor
    <3> QED BY <3>1, <3>2
  <2> QED BY <2>1
<1>6. ChoiceFor(r)' BY <1>1, <1>3, <1>4, <1>5 DEF ChoiceFor, Early
<1>7. ASSUME NEW s \in Runners \ {r} PROVE ChoiceFor(s)'
  BY ChoiceFrame DEF ChoiceInv
<1> QED BY <1>6, <1>7 DEF ChoiceInv

\* A lookup finds an undisputed result, the first object of a key stays, a
\* validation returns the object of the key.
LEMMA ChoiceRequests ==
  ASSUME TypeOK, RequestInv, ChoiceInv, NEW r \in Runners, RequestStep(r)
  PROVE  ChoiceInv'
<1> USE DEF indexVars, stagingVars, spoolVars, clientVars, backendVars
<1>1. CASE \E d \in CAS : PutCAS(r, d) \/ StageCAS(r, d) \/ GetCAS(r, d)
  <2>1. UNCHANGED <<manifestTable, phase, view, actions, actionConflicts, acObjects,
                    requests, putValues, served>>
    BY <1>1 DEF PutCAS, StageCAS, GetCAS, ResolveCAS
  <2> QED BY <2>1, ChoiceFrame DEF ChoiceInv
<1>2. ASSUME NEW a \in Actions, GetAC(r, a) \/ LookupAC(r, a) PROVE ChoiceInv'
  <2>1. /\ UNCHANGED <<manifestTable, phase, view, actions, actionConflicts, acObjects,
                       putValues, served>>
        /\ phase[r] \notin Early
        /\ \A s \in Runners \ {r} : requests'[s] = requests[s]
    BY <1>2 DEF GetAC, LookupAC, Handling, Early, TypeOK
  <2>2. \A q \in requests'[r] :
          \/ q \in requests[r]
          \/ q.op = "load" /\ Undisputed(r, q.act, q.res)
          \/ q.op = "get" /\ acObjects[r][q.act] = q.res
    BY <1>2 DEF GetAC, LookupAC, Validating, Found, Undisputed, TypeOK
  <2> QED BY <2>1, <2>2, ChoiceSpool
<1>3. ASSUME NEW a \in Actions, NEW v \in Results, PutAC(r, a, v) PROVE ChoiceInv'
  <2>1. /\ UNCHANGED <<manifestTable, phase, view, actions, actionConflicts, served>>
        /\ phase[r] \notin Early
        /\ \A s \in Runners \ {r} :
             /\ requests'[s] = requests[s] /\ acObjects'[s] = acObjects[s]
             /\ putValues'[s] = putValues[s]
        /\ putValues'[r] = putValues[r] \cup {<<a, v>>}
        /\ acObjects'[r] = [acObjects[r] EXCEPT ![a] = Stored(r, a, v)]
    BY <1>3 DEF PutAC, Handling, Early, TypeOK
  <2>2. \A b \in Actions : \/ acObjects'[r][b] = acObjects[r][b]
                           \/ /\ b = a /\ acObjects[r][a] = None
                              /\ acObjects'[r][a] = v
    BY <2>1 DEF Stored, TypeOK
  <2>3. \A q \in requests'[r] : q \in requests[r] \/ q.op = "put"
    BY <1>3 DEF PutAC, Validating, TypeOK
  <2> QED BY <2>1, <2>2, <2>3, ChoiceSpool
<1>4. ASSUME NEW q \in requests[r], MaterializeAC(r, q) PROVE ChoiceInv'
  <2> DEFINE v == Stored(r, q.act, q.res)
  <2>1. /\ UNCHANGED <<manifestTable, phase, view, actions, actionConflicts, putValues, served>>
        /\ phase[r] \notin Early
        /\ q.op = "load"
        /\ acObjects' = [acObjects EXCEPT ![r][q.act] = v]
        /\ requests' = [requests EXCEPT ![r] = (@ \ {q}) \cup {Validating("get", q.act, v)}]
    BY <1>4 DEF MaterializeAC, Handling, Early
  <2>2. q.act \in Actions BY DEF TypeOK, Requests
  <2>3. acObjects[r][q.act] = None => Undisputed(r, q.act, q.res)
    BY <2>1 DEF ChoiceInv, ChoiceFor
  <2>4. /\ \A s \in Runners \ {r} : acObjects'[s] = acObjects[s] /\ requests'[s] = requests[s]
        /\ acObjects'[r] = [acObjects[r] EXCEPT ![q.act] = v]
        /\ requests'[r] = (requests[r] \ {q}) \cup {Validating("get", q.act, v)}
    BY <2>1 DEF TypeOK
  <2>5. /\ acObjects'[r][q.act] = v
        /\ \A b \in Actions : \/ acObjects'[r][b] = acObjects[r][b]
                              \/ /\ b = q.act /\ acObjects[r][q.act] = None
                                 /\ acObjects'[r][b] = q.res
    BY <2>2, <2>4 DEF Stored, TypeOK
  <2>6. \A p \in requests'[r] : \/ p \in requests[r]
                                \/ p.op = "get" /\ acObjects'[r][p.act] = p.res
    BY <2>4, <2>5 DEF Validating
  <2> HIDE DEF v
  <2> QED BY <2>1, <2>3, <2>4, <2>5, <2>6, ChoiceSpool
<1>5. ASSUME NEW q \in requests[r], NEW d \in CAS, CheckRef(r, q, d) PROVE ChoiceInv'
  <2>1. /\ UNCHANGED <<manifestTable, phase, view, actions, actionConflicts, acObjects,
                       putValues, served>>
        /\ phase[r] \notin Early
        /\ q.op \in {"get", "put"}
        /\ requests' = [requests EXCEPT ![r] = (@ \ {q}) \cup {[q EXCEPT !.todo = @ \ {d}]}]
    BY <1>5 DEF CheckRef, ResolveCAS, Handling, Early
  <2>2. PICK p : p = [q EXCEPT !.todo = @ \ {d}] OBVIOUS
  <2>3. p.op = q.op /\ p.act = q.act /\ p.res = q.res
    BY <2>2 DEF TypeOK, Requests
  <2>4. q.op = "get" => acObjects[r][q.act] = q.res
    BY DEF ChoiceInv, ChoiceFor
  <2>5. /\ \A s \in Runners \ {r} : requests'[s] = requests[s]
        /\ requests'[r] = (requests[r] \ {q}) \cup {p}
    BY <2>1, <2>2 DEF TypeOK
  <2> QED BY <2>1, <2>3, <2>4, <2>5, ChoiceSpool
<1>6. ASSUME NEW q \in requests[r], Abandon(r, q) \/ Serve(r, q) PROVE ChoiceInv'
  <2>1. /\ UNCHANGED <<manifestTable, phase, view, actions, actionConflicts, acObjects,
                       putValues>>
        /\ phase[r] \notin Early
        /\ \A s \in Runners \ {r} : requests'[s] = requests[s] /\ served'[s] = served[s]
        /\ requests'[r] \subseteq requests[r]
        /\ \A x \in served'[r] : x \in served[r] \/ (q.op = "get" /\ x = <<q.act, q.res>>)
    BY <1>6 DEF Abandon, Serve, Handling, Early, TypeOK
  <2>2. q.op = "get" => acObjects[r][q.act] = q.res
    BY DEF ChoiceInv, ChoiceFor
  <2> QED BY <2>1, <2>2, ChoiceSpool
<1>7. ASSUME NEW q \in requests[r], StageAction(r, q) PROVE ChoiceInv'
  <2>1. q.op = "put" /\ q.act \in Actions BY <1>7 DEF StageAction, TypeOK, Requests
  <2>2. pendingActions[r][q.act] \in {None, q.res}
    BY <2>1 DEF RequestInv, HandlerInv
  <2>3. /\ UNCHANGED <<manifestTable, phase, view, actions, actionConflicts, acObjects,
                       putValues, served>>
        /\ phase[r] \notin Early
        /\ \A s \in Runners \ {r} : requests'[s] = requests[s]
        /\ requests'[r] \subseteq requests[r]
    BY <1>7, <2>2 DEF StageAction, MuFree, Early, TypeOK
  <2> QED BY <2>3, ChoiceSpool
<1> QED BY <1>1, <1>2, <1>3, <1>4, <1>5, <1>6, <1>7 DEF RequestStep

\* A merged manifest either agrees with what is stored under a key or arrives when
\* nothing is stored or looked up yet; a different result becomes a conflict.
LEMMA ChoiceMerge ==
  ASSUME CommitInv, ChoiceInv, NEW r \in Runners, NEW id \in ManifestIDs,
         NEW m \in Manifests, ApplyManifest(r, id, m), manifestTable'[id] = m,
         \A k \in Committed : manifestTable'[k] = manifestTable[k],
         UNCHANGED <<phase, acObjects, requests, putValues, served>>,
         \A a \in Actions :
           m.actions[a] # None => \/ acObjects[r][a] = m.actions[a]
                                  \/ acObjects[r][a] = None /\ requests[r] = {}
  PROVE  ChoiceInv'
<1>1. /\ actions'[r] = MergeActions(actions[r], m)
      /\ actionConflicts'[r] = actionConflicts[r] \cup NewConflicts(actions[r], m)
      /\ view'[r] = view[r] \cup {id}
      /\ \A s \in Runners \ {r} : /\ actions'[s] = actions[s] /\ view'[s] = view[s]
                                  /\ actionConflicts'[s] = actionConflicts[s]
  BY DEF ApplyManifest, CommitInv, TypeOK
<1>2. \A s \in Runners : view[s] \subseteq Committed BY DEF CommitInv, NamesBound
<1>3. ChoiceFor(r) BY DEF ChoiceInv
<1>4. \A a \in Actions :
        /\ actions[r][a] # None => actions'[r][a] = actions[r][a]
        /\ m.actions[a] # None /\ actions[r][a] = None =>
             actions'[r][a] = [res |-> m.actions[a], pack |-> m.pack]
        /\ m.actions[a] = None => actions'[r][a] = actions[r][a]
        /\ a \in actionConflicts'[r] <=>
             \/ a \in actionConflicts[r]
             \/ /\ m.actions[a] # None /\ actions[r][a] # None
                /\ actions[r][a].res # m.actions[a]
  BY <1>1 DEF MergeActions, NewConflicts
<1>5. ASSUME NEW a \in Actions, m.actions[a] # None
      PROVE  /\ actions'[r][a] # None
             /\ a \in actionConflicts'[r] \/ actions'[r][a].res = m.actions[a]
  <2>1. CASE actions[r][a] # None BY <1>4, <1>5, <2>1
  <2>2. CASE actions[r][a] = None
    <3>1. actions'[r][a] = [res |-> m.actions[a], pack |-> m.pack] BY <1>4, <1>5, <2>2
    <3>2. actions'[r][a] \in ActionEntries
      <4>1. m.actions[a] \in Results /\ m.pack \in Packs BY <1>5 DEF Manifests
      <4> QED BY <3>1, <4>1 DEF ActionEntries
    <3> QED BY <3>1, <3>2, NoneAssumption DEF NoneAssumption
  <2> QED BY <2>1, <2>2
<1>6. ASSUME NEW k \in view'[r], NEW a \in Actions, manifestTable'[k].actions[a] # None
      PROVE  /\ actions'[r][a] # None
             /\ \/ a \in actionConflicts'[r]
                \/ actions'[r][a].res = manifestTable'[k].actions[a]
  <2>1. CASE k = id BY <1>5, <1>6, <2>1
  <2>2. CASE k \in view[r]
    <3>1. manifestTable'[k] = manifestTable[k] BY <1>2, <2>2
    <3>2. /\ actions[r][a] # None
          /\ a \in actionConflicts[r] \/ actions[r][a].res = manifestTable[k].actions[a]
      BY <1>3, <1>6, <2>2, <3>1 DEF ChoiceFor
    <3> QED BY <1>4, <3>1, <3>2
  <2> QED BY <1>1, <2>1, <2>2
<1>7. \A a \in Actions : \A v :
        /\ Undisputed(r, a, v)
        /\ m.actions[a] \in {None, v}
        => Undisputed(r, a, v)'
  BY <1>4 DEF Undisputed
<1>8. \A a \in Actions : acObjects[r][a] # None =>
        \/ <<a, acObjects[r][a]>> \in putValues[r]
        \/ Undisputed(r, a, acObjects[r][a])'
  BY <1>3, <1>7 DEF ChoiceFor
<1>9. ASSUME NEW q \in requests[r], q.op = "load", acObjects[r][q.act] = None
      PROVE  Undisputed(r, q.act, q.res)'
  <2>1. q.act \in Actions BY DEF CommitInv, TypeOK, Requests
  <2>2. m.actions[q.act] = None BY <1>9, <2>1
  <2>3. Undisputed(r, q.act, q.res) BY <1>3, <1>9 DEF ChoiceFor
  <2> QED BY <1>7, <2>1, <2>2, <2>3
<1>10. ChoiceFor(r)' BY <1>3, <1>6, <1>8, <1>9 DEF ChoiceFor
<1>11. ASSUME NEW s \in Runners \ {r} PROVE ChoiceFor(s)'
  BY <1>1, <1>2, ChoiceFrame DEF ChoiceInv
<1> QED BY <1>10, <1>11 DEF ChoiceInv

\* A flush publishes, for an action key, the object that is stored under it.
LEMMA ChoiceFlush ==
  ASSUME CommitInv, RequestInv, ChoiceInv, NEW r \in Runners, FlushStep(r)
  PROVE  ChoiceInv'
<1> USE DEF indexVars, spoolVars, clientVars
<1> DEFINE m == ManifestFor(r, flush[r], PackOf(r, flush[r]))
<1>1. CASE FlushPack(r) \/ FlushPackFails(r) \/ FlushManifestFails(r)
  <2>1. /\ UNCHANGED <<view, actions, actionConflicts, acObjects, requests, putValues,
                       served>>
        /\ \A s \in Runners : phase'[s] = phase[s] \/ phase'[s] = "failed"
    BY <1>1 DEF FlushPack, FlushPackFails, FlushManifestFails, AfterFlushError, CommitInv,
      TypeOK
  <2>2. \A k \in Committed : manifestTable'[k] = manifestTable[k]
    <3>1. CASE manifestTable' = manifestTable BY <3>1
    <3>2. CASE FlushManifestFails(r) /\ \E mid \in ManifestIDs : SaveManifest(mid, m)
      <4>1. m \in Manifests BY <3>2, ManifestForBatch DEF FlushManifestFails
      <4> HIDE DEF m
      <4> QED BY <3>2, <4>1, SaveManifestEffect DEF CommitInv
    <3> QED BY <1>1, <3>1, <3>2 DEF FlushPack, FlushPackFails, FlushManifestFails
  <2>3. \A s \in Runners : view[s] \subseteq Committed BY DEF CommitInv, NamesBound
  <2> QED BY <2>1, <2>2, <2>3, ChoiceFrame DEF ChoiceInv, Early
<1>2. CASE FlushManifest(r)
  <2>1. PICK mid \in ManifestIDs : SaveManifest(mid, m) /\ ApplyManifest(r, mid, m)
    BY <1>2 DEF FlushManifest
  <2>2. m \in Manifests BY <1>2, ManifestForBatch DEF FlushManifest
  <2>3. \A a \in Actions : m.actions[a] # None => acObjects[r][a] = m.actions[a]
    BY DEF ManifestFor, RequestInv, HandlerInv
  <2>4. UNCHANGED <<phase, acObjects, requests, putValues, served>>
    BY <1>2 DEF FlushManifest
  <2>5. manifestTable'[mid] = m /\ \A k \in Committed : manifestTable'[k] = manifestTable[k]
    BY <2>1, <2>2, SaveManifestEffect DEF CommitInv
  <2> HIDE DEF m
  <2> QED BY <2>1, <2>2, <2>3, <2>4, <2>5, ChoiceMerge
<1> QED BY <1>1, <1>2 DEF FlushStep

\* Discovery merges before the first request; a process that ends forgets all.
LEMMA ChoiceOfProcess ==
  ASSUME CommitInv, ChoiceInv, NEW r \in Runners, LifeStep(r) \/ Crash(r)
  PROVE  ChoiceInv'
<1> USE DEF indexVars, spoolVars, clientVars, backendVars
<1>1. CASE Start(r) \/ Ready(r) \/ Shutdown(r) \/ Drain(r) \/ Stop(r)
  <2>1. /\ UNCHANGED <<manifestTable, view, actions, actionConflicts, acObjects, requests,
                       putValues, served>>
        /\ \A s \in Runners : phase'[s] \in Early => phase[s] \in Early
    BY <1>1 DEF Start, Ready, Shutdown, Drain, Stop, LeaveState, Early, CommitInv, TypeOK
  <2> QED BY <2>1, ChoiceFrame DEF ChoiceInv
<1>2. CASE MergeNext(r)
  <2>1. PICK id \in todo[r] : ApplyManifest(r, id, manifestTable[id])
    BY <1>2 DEF MergeNext
  <2>2. /\ UNCHANGED <<manifestTable, phase, acObjects, requests, putValues, served>>
        /\ phase[r] = "discovering"
    BY <1>2 DEF MergeNext
  <2>3. id \in ManifestIDs /\ manifestTable[id] \in Manifests
    BY DEF CommitInv, TypeOK, NamesBound, Committed
  <2>4. requests[r] = {} /\ \A a \in Actions : acObjects[r][a] = None
    BY <2>2 DEF ChoiceInv, ChoiceFor
  <2> QED BY <2>1, <2>2, <2>3, <2>4, ChoiceMerge
<1>3. CASE Exit(r) \/ Crash(r)
  <2>1. Forget(r) BY <1>3 DEF Exit, Crash
  <2>2. /\ manifestTable' = manifestTable
        /\ view'[r] = {} /\ requests'[r] = {} /\ served'[r] = {}
        /\ \A a \in Actions : acObjects'[r][a] = None
        /\ \A s \in Runners \ {r} :
             /\ view'[s] = view[s] /\ actions'[s] = actions[s]
             /\ actionConflicts'[s] = actionConflicts[s]
             /\ acObjects'[s] = acObjects[s] /\ requests'[s] = requests[s]
             /\ putValues'[s] = putValues[s] /\ served'[s] = served[s]
             /\ phase'[s] = phase[s]
    BY <2>1 DEF Forget, CommitInv, TypeOK
  <2>3. ChoiceFor(r)' BY <2>2 DEF ChoiceFor
  <2>4. ASSUME NEW s \in Runners \ {r} PROVE ChoiceFor(s)'
    BY <2>2, ChoiceFrame DEF ChoiceInv
  <2> QED BY <2>3, <2>4 DEF ChoiceInv
<1> QED BY <1>1, <1>2, <1>3 DEF LifeStep

\* Conflicts are accounted for in every reachable state.
THEOREM ChoiceInvariant == Spec => []ChoiceInv
<1>1. Init => ChoiceInv
  BY DEF Init, ChoiceInv, ChoiceFor
<1>2. CommitInv /\ RequestInv /\ ChoiceInv /\ [Next]_vars => ChoiceInv'
  <2> SUFFICES ASSUME CommitInv, RequestInv, ChoiceInv, [Next]_vars PROVE ChoiceInv'
    OBVIOUS
  <2>1. ASSUME NEW r \in Runners,
               RequestStep(r) \/ FlushStep(r) \/ LifeStep(r) \/ Crash(r)
        PROVE  ChoiceInv'
    BY <2>1, ChoiceRequests, ChoiceFlush, ChoiceOfProcess DEF CommitInv
  <2>2. CASE EvictPack \/ EvictManifest \/ UNCHANGED vars
    <3>1. UNCHANGED <<manifestTable, phase, view, actions, actionConflicts, acObjects,
                      requests, putValues, served>>
      BY <2>2 DEF EvictPack, EvictManifest, LeaveState, vars, indexVars, spoolVars,
        clientVars, backendVars
    <3> QED BY <3>1, ChoiceFrame DEF ChoiceInv
  <2> QED BY <2>1, <2>2 DEF Next
<1> QED BY <1>1, <1>2, CommitInvariant, RequestInvariant, PTL DEF Spec

\* handleRead never answers a result about which the merged manifests disagree,
\* however lookups, uploads and flushes of the key overlap, except one that this
\* runner's own clients uploaded.
THEOREM ChoiceIsOpen == Spec => []NoSilentChoice
<1>1. TypeOK /\ ChoiceInv => NoSilentChoice
  <2> SUFFICES ASSUME TypeOK, ChoiceInv, NEW r \in Runners, NEW x \in served[r],
                      Disagree(r, x[1]), x \notin putValues[r]
               PROVE  FALSE
    BY DEF NoSilentChoice
  <2>1. ChoiceFor(r) BY DEF ChoiceInv
  <2>2. /\ x[1] \in Actions /\ x[2] \in Results /\ x[2] # None /\ x = <<x[1], x[2]>>
        /\ acObjects[r][x[1]] = x[2]
    BY <2>1, NoneAssumption DEF TypeOK, ChoiceFor, NoneAssumption
  <2>3. Undisputed(r, x[1], x[2]) BY <2>1, <2>2 DEF ChoiceFor
  <2>4. PICK v \in Results, w \in Results :
          /\ v # w
          /\ \E k \in view[r] : manifestTable[k].actions[x[1]] = v
          /\ \E k \in view[r] : manifestTable[k].actions[x[1]] = w
    BY DEF Disagree
  <2>5. v # None /\ w # None BY NoneAssumption DEF NoneAssumption
  <2>6. v = actions[r][x[1]].res /\ w = actions[r][x[1]].res
    BY <2>1, <2>2, <2>3, <2>4, <2>5 DEF ChoiceFor, Undisputed
  <2> QED BY <2>4, <2>6
<1> QED BY <1>1, TypeCorrect, ChoiceInvariant, PTL
=============================================================================
