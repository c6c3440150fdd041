------------------------------- MODULE PackLoad -------------------------------
(***************************************************************************)
(* loadPack and downloadPack (internal/server/pack_store.go): readers of   *)
(* the objects in a pack share one download of it.  A reader asks for the  *)
(* pack under packStore.mu, waits for the reader that downloads it or      *)
(* downloads it itself, with a slot of the semaphore that limits all calls *)
(* of the cache service.  The flush worker takes mu first and a slot       *)
(* second, and keeps mu while it waits and while it saves.                 *)
(*                                                                         *)
(* PackStore has the index that leads to the pack, and what is flushed.    *)
(***************************************************************************)
EXTENDS Naturals, FiniteSets

CONSTANTS
  Readers,        \* handlers, and the traversals of closures, that call loadPack
  Packs,
  MaxConcurrent,  \* capacity of the semaphore
  Flusher,        \* the flush worker
  None

ASSUME PackLoadAssumption ==
  /\ MaxConcurrent \in Nat \ {0}
  /\ Flusher \notin Readers
  /\ None \notin Readers \cup Packs
  /\ IsFiniteSet(Readers)

VARIABLES
  pc,            \* where a reader is in loadPack
  pack,          \* the pack it asks for
  cancelled,     \* its client has gone: the context is done
  outcome,       \* result of the load that it leads or has joined
  answer,        \* what its last call returned
  loadedPacks,
  loadingPacks,  \* the reader that leads the download of a pack
  flusher,       \* "idle", "locked" or "saving"; it holds mu unless idle
  sem,           \* who holds a slot
  downloaded,    \* history: packs that were downloaded and verified
  failedSince    \* history: a load of its pack failed during the call of a reader

readerVars == <<pc, pack, cancelled, outcome, answer>>
packVars == <<loadedPacks, loadingPacks>>
history == <<downloaded, failedSince>>
loadVars == <<readerVars, packVars, flusher, sem, history>>

Leading == {"acquire", "download", "settle"}

LoadInit ==
  /\ pc = [r \in Readers |-> "idle"]
  /\ pack = [r \in Readers |-> None]
  /\ cancelled = [r \in Readers |-> FALSE]
  /\ outcome = [r \in Readers |-> "none"]
  /\ answer = [r \in Readers |-> "none"]
  /\ loadedPacks = {}
  /\ loadingPacks = [p \in Packs |-> None]
  /\ flusher = "idle"
  /\ sem = {}
  /\ downloaded = {}
  /\ failedSince = [r \in Readers |-> FALSE]

MuFree == flusher = "idle"
SlotFree == Cardinality(sem) < MaxConcurrent

Goto(r, place) == pc' = [pc EXCEPT ![r] = place]

Return(r, a) ==
  /\ Goto(r, "idle")
  /\ answer' = [answer EXCEPT ![r] = a]

-----------------------------------------------------------------------------
(* loadPack                                                                 *)

Call(r, p) ==
  /\ pc[r] = "idle"
  /\ Goto(r, "lookup")
  /\ pack' = [pack EXCEPT ![r] = p]
  /\ cancelled' = [cancelled EXCEPT ![r] = FALSE]
  /\ outcome' = [outcome EXCEPT ![r] = "none"]
  /\ answer' = [answer EXCEPT ![r] = "none"]
  /\ failedSince' = [failedSince EXCEPT ![r] = FALSE]
  /\ UNCHANGED <<packVars, flusher, sem, downloaded>>

\* The first critical section: the pack is loaded, is being loaded, or has to
\* be loaded.
Hit(r) ==
  /\ pc[r] = "lookup" /\ MuFree
  /\ pack[r] \in loadedPacks
  /\ Return(r, "path")
  /\ UNCHANGED <<pack, cancelled, outcome, packVars, flusher, sem, history>>

Join(r) ==
  /\ pc[r] = "lookup" /\ MuFree
  /\ pack[r] \notin loadedPacks
  /\ loadingPacks[pack[r]] # None
  /\ Goto(r, "wait")
  /\ UNCHANGED <<pack, cancelled, outcome, answer, packVars, flusher, sem, history>>

\* Mutant: a download that is under way is not noticed.
MayLeadMutant(p) == p \notin loadedPacks

MayLead(p) == p \notin loadedPacks /\ loadingPacks[p] = None

Lead(r) ==
  /\ pc[r] = "lookup" /\ MuFree
  /\ MayLead(pack[r])
  /\ loadingPacks' = [loadingPacks EXCEPT ![pack[r]] = r]
  /\ Goto(r, "acquire")
  /\ UNCHANGED <<pack, cancelled, outcome, answer, loadedPacks, flusher, sem, history>>

\* A follower whose leader has closed the channel.
Awake(r) ==
  /\ pc[r] = "woken"
  /\ Return(r, IF outcome[r] = "loaded" THEN "path" ELSE "error")
  /\ UNCHANGED <<pack, cancelled, outcome, packVars, flusher, sem, history>>

\* select may take the context also when the channel is closed.
FollowerCancelled(r) ==
  /\ pc[r] \in {"wait", "woken"}
  /\ cancelled[r]
  /\ Return(r, "error")
  /\ UNCHANGED <<pack, cancelled, outcome, packVars, flusher, sem, history>>

-----------------------------------------------------------------------------
(* downloadPack                                                             *)

Acquire(r) ==
  /\ pc[r] = "acquire"
  /\ SlotFree
  /\ sem' = sem \cup {r}
  /\ Goto(r, "download")
  /\ UNCHANGED <<pack, cancelled, outcome, answer, packVars, flusher, history>>

AcquireCancelled(r) ==
  /\ pc[r] = "acquire"
  /\ cancelled[r]
  /\ outcome' = [outcome EXCEPT ![r] = "failed"]
  /\ Goto(r, "settle")
  /\ UNCHANGED <<pack, cancelled, answer, packVars, flusher, sem, history>>

\* Mutant: the slot is not given back.
ReleaseMutant(r) == UNCHANGED sem

\* The deferred release, before loadPack takes mu again.
Release(r) == sem' = sem \ {r}

Downloaded(r) ==
  /\ pc[r] = "download"
  /\ outcome' = [outcome EXCEPT ![r] = "loaded"]
  /\ downloaded' = downloaded \cup {pack[r]}
  /\ Release(r)
  /\ Goto(r, "settle")
  /\ UNCHANGED <<pack, cancelled, answer, packVars, flusher, failedSince>>

\* The pack was evicted, is too large or damaged, the service fails or does not
\* answer in time, or the client of this reader has gone.
DownloadFails(r) ==
  /\ pc[r] = "download"
  /\ outcome' = [outcome EXCEPT ![r] = "failed"]
  /\ Release(r)
  /\ Goto(r, "settle")
  /\ UNCHANGED <<pack, cancelled, answer, packVars, flusher, history>>

\* Mutant: the pack is remembered although the download failed.
LoadedMutant(r) == loadedPacks \cup {pack[r]}

Loaded(r) == IF outcome[r] = "loaded" THEN loadedPacks \cup {pack[r]} ELSE loadedPacks

Followers(r) == {q \in Readers : pc[q] = "wait" /\ pack[q] = pack[r]}

\* Mutant: the channel is not closed.
WokenMutant(r) == {}

Woken(r) == Followers(r)

Deliver(r) == [q \in Readers |-> IF q \in Woken(r) THEN outcome[r] ELSE outcome[q]]

\* The second critical section: the leader publishes the outcome and returns.
Settle(r) ==
  /\ pc[r] = "settle" /\ MuFree
  /\ loadedPacks' = Loaded(r)
  /\ loadingPacks' = [loadingPacks EXCEPT ![pack[r]] = None]
  /\ pc' = [q \in Readers |-> IF q = r THEN "idle"
                              ELSE IF q \in Woken(r) THEN "woken" ELSE pc[q]]
  /\ outcome' = Deliver(r)
  /\ answer' = [answer EXCEPT ![r] = IF outcome[r] = "loaded" THEN "path" ELSE "error"]
  /\ failedSince' = [q \in Readers |->
                       failedSince[q] \/ (outcome[r] = "failed" /\ pack[q] = pack[r]
                                          /\ pc[q] # "idle")]
  /\ UNCHANGED <<pack, cancelled, flusher, sem, downloaded>>

-----------------------------------------------------------------------------
(* The flush worker, which saves a pack, then a manifest; the clients.      *)

FlushLocks ==
  /\ flusher = "idle"
  /\ flusher' = "locked"
  /\ UNCHANGED <<readerVars, packVars, sem, history>>

FlushAcquires ==
  /\ flusher = "locked"
  /\ SlotFree
  /\ flusher' = "saving"
  /\ sem' = sem \cup {Flusher}
  /\ UNCHANGED <<readerVars, packVars, history>>

FlushSaved ==
  /\ flusher = "saving"
  /\ flusher' \in {"locked", "idle"}
  /\ sem' = sem \ {Flusher}
  /\ UNCHANGED <<readerVars, packVars, history>>

NothingToFlush ==
  /\ flusher = "locked"
  /\ flusher' = "idle"
  /\ UNCHANGED <<readerVars, packVars, sem, history>>

Cancel(r) ==
  /\ pc[r] # "idle"
  /\ ~ cancelled[r]
  /\ cancelled' = [cancelled EXCEPT ![r] = TRUE]
  /\ UNCHANGED <<pc, pack, outcome, answer, packVars, flusher, sem, history>>

Lookup(r) == Hit(r) \/ Join(r) \/ Lead(r)
Download(r) == Downloaded(r) \/ DownloadFails(r)
FollowerReturns(r) == Awake(r) \/ FollowerCancelled(r)

LoadNext ==
  \/ \E r \in Readers, p \in Packs : Call(r, p)
  \/ \E r \in Readers :
       \/ Lookup(r) \/ FollowerReturns(r) \/ Acquire(r) \/ AcquireCancelled(r)
       \/ Download(r) \/ Settle(r) \/ Cancel(r)
  \/ FlushLocks \/ FlushAcquires \/ FlushSaved \/ NothingToFlush

LoadSpec == LoadInit /\ [][LoadNext]_loadVars

\* A mutex of Go does not starve a goroutine, and the semaphore is a channel,
\* whose senders wait in order: strong fairness.  A call of the cache service
\* ends by itself or with the backend timeout, and a flush that saves has a
\* last batch.
FairSpec ==
  /\ LoadSpec
  /\ \A r \in Readers :
       /\ SF_loadVars(Lookup(r)) /\ SF_loadVars(Acquire(r)) /\ SF_loadVars(Settle(r))
       /\ WF_loadVars(Download(r)) /\ WF_loadVars(FollowerReturns(r))
  /\ SF_loadVars(FlushAcquires) /\ WF_loadVars(FlushSaved)
  /\ SF_loadVars(FlushSaved /\ flusher' = "idle")

-----------------------------------------------------------------------------
(* Properties.                                                              *)

\* Type invariant.
LoadTypeOK ==
  /\ pc \in [Readers -> {"idle", "lookup", "wait", "woken"} \cup Leading]
  /\ pack \in [Readers -> Packs \cup {None}]
  /\ \A r \in Readers : pc[r] # "idle" => pack[r] \in Packs
  /\ cancelled \in [Readers -> BOOLEAN]
  /\ outcome \in [Readers -> {"none", "loaded", "failed"}]
  /\ \A r \in Readers : pc[r] \in {"settle", "woken"} => outcome[r] # "none"
  /\ answer \in [Readers -> {"none", "path", "error"}]
  /\ loadedPacks \in SUBSET Packs
  /\ loadingPacks \in [Packs -> Readers \cup {None}]
  /\ flusher \in {"idle", "locked", "saving"}
  /\ sem \in SUBSET (Readers \cup {Flusher})
  /\ downloaded \in SUBSET Packs
  /\ failedSince \in [Readers -> BOOLEAN]

\* A pack is downloaded by one reader at a time, the one that loadingPacks
\* names, and never again once it is loaded.
OneDownload ==
  \A r \in Readers : pc[r] \in Leading =>
    loadingPacks[pack[r]] = r /\ pack[r] \notin loadedPacks

\* A reader waits only for a reader that is at work on the same pack.
FollowersHaveLeader ==
  \A r \in Readers : pc[r] = "wait" =>
    \E q \in Readers : pc[q] \in Leading /\ pack[q] = pack[r] /\ loadingPacks[pack[r]] = q

\* A path stands for a verified download.  An error has a cause within the
\* call: the reader's own client has gone, or the download it led or waited for
\* failed; the failure of an earlier download is not handed out again.
TruthfulAnswers ==
  \A r \in Readers :
    /\ answer[r] = "path" => pack[r] \in downloaded
    /\ answer[r] = "error" => cancelled[r] \/ failedSince[r]

\* A slot is held during a download and during a save, and at no other time;
\* there are never more holders than slots.
SlotsAccounted ==
  /\ sem = {r \in Readers : pc[r] = "download"}
           \cup (IF flusher = "saving" THEN {Flusher} ELSE {})
  /\ Cardinality(sem) <= MaxConcurrent

\* loadPack returns to every reader although flushes hold mu while they wait for
\* a slot, and downloads hold slots: no two of them wait for each other.
EveryReaderReturns == \A r \in Readers : pc[r] # "idle" ~> pc[r] = "idle"
=============================================================================
