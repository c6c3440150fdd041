----------------------------- MODULE Publication -----------------------------
(***************************************************************************)
(* publishOnce and publish (internal/server/server.go) with the Save of    *)
(* the backend (internal/cache/backend.go): handlers of one server that    *)
(* publish immutable keys at the same time, and downloads that compete for *)
(* the same semaphore.                                                     *)
(*                                                                         *)
(* The first handler of a key leads the publication, later ones follow it. *)
(* A handler leads at most once, because publishOnce returns after it has  *)
(* led: a publication is identified by its leader.                         *)
(***************************************************************************)
EXTENDS Naturals, FiniteSets

CONSTANTS
  Handlers,       \* calls of publishOnce
  Downloads,      \* calls of resolve and downloadPack
  Keys,           \* cache keys
  KeyOf,          \* the key a handler publishes
  MaxConcurrent,  \* Config.MaxConcurrent, capacity of the semaphore
  Polls,          \* number of delays in the polling loop of Save
  None            \* an absent map entry

ASSUME PublicationAssumption ==
  /\ KeyOf \in [Handlers -> Keys]
  /\ MaxConcurrent \in Nat \ {0} /\ Polls \in Nat
  /\ None \notin Handlers
  /\ Handlers \cap Downloads = {}

VARIABLES
  pc,          \* where a handler or a download is
  cancelled,   \* callers whose context is done
  published,   \* Server.published
  publishing,  \* Server.publishing: the leader of a key's publication
  ongoing,     \* the publication that a follower waits for
  outcome,     \* publication.err, once done is closed
  saved,       \* what the Save of a leader returned
  polls,       \* delays left in the polling loop
  sem,         \* slots of Server.sem in use
  store,       \* the keys in the cache service
  result       \* what publishOnce returned

vars == <<pc, cancelled, published, publishing, ongoing, outcome, saved, polls,
          sem, store, result>>

\* A key in the cache service is reserved before it can be read; "ours" and
\* "theirs" tell the reservations of this server from those of other jobs.
StoreStates == {"absent", "ours", "theirs", "present"}

\* Inside publish, with and without a slot of the semaphore.
Holding == {"limit", "save", "upload", "poll"}
Leading == {"acquire", "settle"} \cup Holding

HandlerStates == {"idle", "check", "follow", "done"} \cup Leading

Init ==
  /\ pc = [x \in Handlers \cup Downloads |-> "idle"]
  /\ cancelled = {}
  /\ published = {}
  /\ publishing = [k \in Keys |-> None]
  /\ ongoing = [h \in Handlers |-> None]
  /\ outcome = [h \in Handlers |-> "running"]
  /\ saved = [h \in Handlers |-> FALSE]
  /\ polls = [h \in Handlers |-> 0]
  /\ sem = 0
  /\ store = [k \in Keys |-> "absent"]
  /\ result = [h \in Handlers |-> "none"]

-----------------------------------------------------------------------------
(* publishOnce.                                                             *)

Goto(x, state) == pc' = [pc EXCEPT ![x] = state]

Return(h, value) ==
  /\ Goto(h, "done")
  /\ result' = [result EXCEPT ![h] = value]

Call(h) ==
  /\ pc[h] = "idle"
  /\ Goto(h, "check")
  /\ UNCHANGED <<cancelled, published, publishing, ongoing, outcome, saved, polls,
                 sem, store, result>>

\* Mutant: the ongoing publication is not looked up.
MayLeadMutant(k) == k \notin published

MayLead(k) == k \notin published /\ publishing[k] = None

\* The body of the loop under publicationsMu, one action per branch.
FindPublished(h) ==
  /\ pc[h] = "check"
  /\ KeyOf[h] \in published
  /\ Return(h, "deduplicated")
  /\ UNCHANGED <<cancelled, published, publishing, ongoing, outcome, saved, polls,
                 sem, store>>

Follow(h) ==
  /\ pc[h] = "check"
  /\ KeyOf[h] \notin published
  /\ publishing[KeyOf[h]] # None
  /\ ongoing' = [ongoing EXCEPT ![h] = publishing[KeyOf[h]]]
  /\ Goto(h, "follow")
  /\ UNCHANGED <<cancelled, published, publishing, outcome, saved, polls, sem,
                 store, result>>

Lead(h) ==
  /\ pc[h] = "check"
  /\ MayLead(KeyOf[h])
  /\ publishing' = [publishing EXCEPT ![KeyOf[h]] = h]
  /\ Goto(h, "acquire")
  /\ UNCHANGED <<cancelled, published, ongoing, outcome, saved, polls, sem, store,
                 result>>

\* Mutant: the follower does not look at the leader's error.
AwakeMutant(h) == Return(h, "deduplicated")

\* A follower whose leader failed goes round the loop again.
Awake(h) ==
  IF outcome[ongoing[h]] = "ok"
    THEN Return(h, "deduplicated")
    ELSE Goto(h, "check") /\ UNCHANGED result

LeaderDone(h) ==
  /\ pc[h] = "follow"
  /\ outcome[ongoing[h]] # "running"
  /\ Awake(h)
  /\ ongoing' = [ongoing EXCEPT ![h] = None]
  /\ UNCHANGED <<cancelled, published, publishing, outcome, saved, polls, sem,
                 store>>

FollowerCancelled(h) ==
  /\ pc[h] = "follow"
  /\ h \in cancelled
  /\ Return(h, "error")
  /\ ongoing' = [ongoing EXCEPT ![h] = None]
  /\ UNCHANGED <<cancelled, published, publishing, outcome, saved, polls, sem,
                 store>>

\* Mutant: a failed publication stays in the map and keeps its channel open.
CloseMutant(h) ==
  IF saved[h]
    THEN /\ publishing' = [publishing EXCEPT ![KeyOf[h]] = None]
         /\ outcome' = [outcome EXCEPT ![h] = "ok"]
    ELSE UNCHANGED <<publishing, outcome>>

Close(h) ==
  /\ publishing' = [publishing EXCEPT ![KeyOf[h]] = None]
  /\ outcome' = [outcome EXCEPT ![h] = IF saved[h] THEN "ok" ELSE "err"]

\* The leader's second critical section.
Settle(h) ==
  /\ pc[h] = "settle"
  /\ published' = IF saved[h] THEN published \cup {KeyOf[h]} ELSE published
  /\ Close(h)
  /\ Return(h, IF saved[h] THEN "uploaded" ELSE "error")
  /\ UNCHANGED <<cancelled, ongoing, saved, polls, sem, store>>

-----------------------------------------------------------------------------
(* publish: the slot of the semaphore is taken before the limiter's wait    *)
(* and held until Save has returned.                                        *)

Acquire == sem < MaxConcurrent /\ sem' = sem + 1

\* Mutant: the slot is given back after a success only.
ReleaseMutant(ok) == sem' = IF ok THEN sem - 1 ELSE sem

Release(ok) == sem' = sem - 1

AcquireSlot(h) ==
  /\ pc[h] = "acquire"
  /\ Acquire
  /\ Goto(h, "limit")
  /\ UNCHANGED <<cancelled, published, publishing, ongoing, outcome, saved, polls,
                 store, result>>

\* acquire fails: no slot was taken.
AcquireCancelled(h) ==
  /\ pc[h] = "acquire"
  /\ h \in cancelled
  /\ Goto(h, "settle")
  /\ UNCHANGED <<cancelled, published, publishing, ongoing, outcome, saved, polls,
                 sem, store, result>>

\* intervalLimiter.wait: a slot in time, or the end of the context.
LimiterPasses(h) ==
  /\ pc[h] = "limit"
  /\ Goto(h, "save")
  /\ UNCHANGED <<cancelled, published, publishing, ongoing, outcome, saved, polls,
                 sem, store, result>>

\* publish returns, and with it the deferred release.
PublishReturns(h, ok) ==
  /\ saved' = [saved EXCEPT ![h] = ok]
  /\ Release(ok)
  /\ Goto(h, "settle")
  /\ UNCHANGED <<cancelled, published, publishing, ongoing, outcome, result>>

LimiterCancelled(h) ==
  /\ pc[h] = "limit"
  /\ h \in cancelled
  /\ PublishReturns(h, FALSE)
  /\ UNCHANGED <<polls, store>>

\* cache.Save: reserve the key, upload, finalize.  A key that exists or is
\* reserved is refused.
SaveStarts(h) ==
  /\ pc[h] = "save"
  /\ IF store[KeyOf[h]] = "absent"
       THEN /\ store' = [store EXCEPT ![KeyOf[h]] = "ours"]
            /\ Goto(h, "upload")
            /\ UNCHANGED polls
       ELSE /\ polls' = [polls EXCEPT ![h] = Polls]
            /\ Goto(h, "poll")
            /\ UNCHANGED store
  /\ UNCHANGED <<cancelled, published, publishing, ongoing, outcome, saved, sem,
                 result>>

SaveSucceeds(h) ==
  /\ pc[h] = "upload"
  /\ store' = [store EXCEPT ![KeyOf[h]] = "present"]
  /\ PublishReturns(h, TRUE)
  /\ UNCHANGED polls

\* The service or the timeout ends the call, before or after it took effect.
SaveFails(h) ==
  /\ pc[h] \in {"save", "upload"}
  /\ store' \in {store, [store EXCEPT ![KeyOf[h]] =
                           IF pc[h] = "upload" THEN "present" ELSE @]}
  /\ polls' = [polls EXCEPT ![h] = Polls]
  /\ Goto(h, "poll")
  /\ UNCHANGED <<cancelled, published, publishing, ongoing, outcome, saved, sem,
                 result>>

Visible(k) == store[k] = "present"

\* The polling loop: a delay, then a Load.
PollFinds(h) ==
  /\ pc[h] = "poll"
  /\ polls[h] > 0
  /\ Visible(KeyOf[h])
  /\ PublishReturns(h, TRUE)
  /\ UNCHANGED <<polls, store>>

\* The entry is not there, not visible yet, or cannot be loaded.
PollMisses(h) ==
  /\ pc[h] = "poll"
  /\ polls[h] > 0
  /\ polls' = [polls EXCEPT ![h] = @ - 1]
  /\ UNCHANGED <<pc, cancelled, published, publishing, ongoing, outcome, saved,
                 sem, store, result>>

\* The delays are used up, the client has left or the timeout has expired.
PollGivesUp(h) ==
  /\ pc[h] = "poll"
  /\ PublishReturns(h, FALSE)
  /\ UNCHANGED <<polls, store>>

-----------------------------------------------------------------------------
(* Downloads take and release a slot; their clients may leave too.          *)

Wait(d) ==
  /\ pc[d] = "idle"
  /\ Goto(d, "acquire")
  /\ UNCHANGED <<cancelled, published, publishing, ongoing, outcome, saved, polls,
                 sem, store, result>>

BeginDownload(d) ==
  /\ pc[d] = "acquire"
  /\ Acquire
  /\ Goto(d, "download")
  /\ UNCHANGED <<cancelled, published, publishing, ongoing, outcome, saved, polls,
                 store, result>>

LeaveQueue(d) ==
  /\ pc[d] = "acquire"
  /\ d \in cancelled
  /\ Goto(d, "done")
  /\ UNCHANGED <<cancelled, published, publishing, ongoing, outcome, saved, polls,
                 sem, store, result>>

EndDownload(d) ==
  /\ pc[d] = "download"
  /\ sem' = sem - 1
  /\ Goto(d, "done")
  /\ UNCHANGED <<cancelled, published, publishing, ongoing, outcome, saved, polls,
                 store, result>>

-----------------------------------------------------------------------------
(* Clients and other jobs.                                                  *)

Cancel(x) ==
  /\ pc[x] # "done"
  /\ cancelled' = cancelled \cup {x}
  /\ UNCHANGED <<pc, published, publishing, ongoing, outcome, saved, polls, sem,
                 store, result>>

\* Another job reserves and publishes the same content; it may die in between.
OtherJob(k) ==
  /\ \/ store[k] = "absent" /\ store' = [store EXCEPT ![k] = "theirs"]
     \/ store[k] = "theirs" /\ store' = [store EXCEPT ![k] = "present"]
  /\ UNCHANGED <<pc, cancelled, published, publishing, ongoing, outcome, saved,
                 polls, sem, result>>

\* publishOnce until it becomes the leader, and after publish.
Coalesce(h) ==
  FindPublished(h) \/ Follow(h) \/ Lead(h) \/ LeaderDone(h)
  \/ FollowerCancelled(h) \/ Settle(h)

\* Backend.Save, which its context ends in time.
Save(h) ==
  SaveStarts(h) \/ SaveSucceeds(h) \/ SaveFails(h) \/ PollFinds(h)
  \/ PollMisses(h) \/ PollGivesUp(h)

Publish(h) ==
  AcquireSlot(h) \/ AcquireCancelled(h) \/ LimiterPasses(h) \/ LimiterCancelled(h)
  \/ Save(h)

Download(d) == Wait(d) \/ BeginDownload(d) \/ LeaveQueue(d) \/ EndDownload(d)

Next ==
  \/ \E h \in Handlers : Call(h) \/ Coalesce(h) \/ Publish(h)
  \/ \E d \in Downloads : Download(d)
  \/ \E x \in Handlers \cup Downloads : Cancel(x)
  \/ \E k \in Keys : OtherJob(k)

Spec == Init /\ [][Next]_vars

-----------------------------------------------------------------------------
(* Properties.                                                              *)

\* Type invariant.
TypeOK ==
  /\ pc \in [Handlers \cup Downloads -> HandlerStates \cup {"download"}]
  /\ \A h \in Handlers : pc[h] \in HandlerStates
  /\ \A d \in Downloads : pc[d] \in {"idle", "acquire", "download", "done"}
  /\ cancelled \in SUBSET (Handlers \cup Downloads)
  /\ published \in SUBSET Keys
  /\ publishing \in [Keys -> Handlers \cup {None}]
  /\ ongoing \in [Handlers -> Handlers \cup {None}]
  /\ outcome \in [Handlers -> {"running", "ok", "err"}]
  /\ saved \in [Handlers -> BOOLEAN]
  /\ polls \in [Handlers -> 0..Polls]
  /\ sem \in 0..MaxConcurrent
  /\ store \in [Keys -> StoreStates]
  /\ result \in [Handlers -> {"none", "uploaded", "deduplicated", "error"}]

\* A PUT that publishOnce reports as published, by itself or by a request it
\* waited for, has its key in the cache: neither a leader's failure nor a key
\* that another job only reserved is taken for success.
SuccessIsSaved ==
  \A h \in Handlers :
    result[h] \in {"uploaded", "deduplicated"} => store[KeyOf[h]] = "present"

\* "Only the request which creates the publication reaches the backend": one
\* handler at most is between Lead and Settle for a key, and none once the key
\* is published, so the file of a key is uploaded at most once at a time.
Coalesced ==
  \A h \in Handlers : pc[h] \in Leading =>
    /\ publishing[KeyOf[h]] = h
    /\ KeyOf[h] \notin published

\* "A failed publication is not cached": a publication in the map has a leader
\* that is still at work, so nobody waits for a channel that nobody closes.
NobodyWaitsInVain ==
  /\ \A k \in Keys : publishing[k] # None => pc[publishing[k]] \in Leading
  /\ \A h \in Handlers : pc[h] = "follow" =>
       \/ outcome[ongoing[h]] # "running"
       \/ pc[ongoing[h]] \in Leading /\ KeyOf[ongoing[h]] = KeyOf[h]

\* The failure or the cancellation of one request is not the failure of
\* another: an error is the caller's own cancellation or its own failed save.
OwnErrorsOnly ==
  \A h \in Handlers : result[h] = "error" =>
    h \in cancelled \/ (outcome[h] = "err" /\ ~saved[h])

\* What publishOnce tells its caller, whoever led the publication and whichever
\* leaders failed or left before: a success is in the cache, and an error is the
\* caller's own.
TruthfulAnswers == SuccessIsSaved /\ OwnErrorsOnly

\* Every exit of publish and of a download gives its slot back exactly once.
SlotsAccounted ==
  sem = Cardinality({x \in Handlers \cup Downloads :
                       pc[x] \in Holding \cup {"download"}})

-----------------------------------------------------------------------------
(* Liveness.  A handler runs on by itself; the limiter's timer fires; Save  *)
(* ends because its context has a timeout; a sender that waits for the      *)
(* semaphore is served in turn, as Go's channels do (strong fairness).      *)
(* Clients, other jobs and the success of saves are not assumed.            *)

Fairness ==
  /\ \A h \in Handlers :
       /\ WF_vars(Coalesce(h))
       /\ WF_vars(LimiterPasses(h))
       /\ WF_vars(Save(h))
       /\ SF_vars(AcquireSlot(h))
  /\ \A d \in Downloads : SF_vars(BeginDownload(d)) /\ WF_vars(EndDownload(d))

FairSpec == Spec /\ Fairness

\* Every call of publishOnce returns, however many leaders fail before it.
EveryCallReturns == \A h \in Handlers : pc[h] = "check" ~> pc[h] = "done"

\* Uploads that wait for the limiter delay downloads but do not starve them.
DownloadsProceed == \A d \in Downloads : pc[d] = "acquire" ~> pc[d] = "done"
=============================================================================
