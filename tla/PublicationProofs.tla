-------------------------- MODULE PublicationProofs --------------------------
(***************************************************************************)
(* Publication keeps its promises for any number of handlers, downloads    *)
(* and keys, any capacity of the semaphore and any number of polls; the    *)
(* limiter never lets more uploads begin in a minute than GitHub allows.   *)
(***************************************************************************)
EXTENDS Publication, Limiter, FiniteSetTheorems, WellFoundedInduction, TLAPS

(* What the publications know: the variables without the semaphore.         *)

Types ==
  /\ pc \in [Handlers \cup Downloads -> HandlerStates \cup {"download"}]
  /\ \A h \in Handlers : pc[h] \in HandlerStates
  /\ \A d \in Downloads : pc[d] \in {"idle", "acquire", "download", "done"}
  /\ cancelled \in SUBSET (Handlers \cup Downloads)
  /\ published \in SUBSET Keys
  /\ publishing \in [Keys -> Handlers \cup {None}]
  /\ ongoing \in [Handlers -> Handlers \cup {None}]
  /\ outcome \in [Handlers -> {"running", "ok", "err"}]
  /\ saved \in [Handlers -> BOOLEAN]
  /\ polls \in [Handlers -> 0..Polls]
  /\ store \in [Keys -> StoreStates]
  /\ result \in [Handlers -> {"none", "uploaded", "deduplicated", "error"}]

\* Whatever stands for a success goes back to a key that is in the cache.
Truthful ==
  /\ \A k \in published : store[k] = "present"
  /\ \A h \in Handlers :
       /\ saved[h] => store[KeyOf[h]] = "present"
       /\ outcome[h] = "ok" => KeyOf[h] \in published
       /\ result[h] \in {"uploaded", "deduplicated"} => KeyOf[h] \in published

\* A publication is found under its leader's key and a follower waits for a
\* handler of the same key; a publication with an outcome is over.
Followers ==
  /\ \A k \in Keys : publishing[k] # None => KeyOf[publishing[k]] = k
  /\ \A h \in Handlers :
       /\ pc[h] = "follow" => ongoing[h] \in Handlers /\ KeyOf[ongoing[h]] = KeyOf[h]
       /\ outcome[h] # "running" => pc[h] = "done"
       /\ pc[h] # "done" => result[h] = "none"

PublishInv ==
  /\ Types
  /\ Truthful
  /\ Followers
  /\ Coalesced
  /\ NobodyWaitsInVain
  /\ OwnErrorsOnly

\* The inductive invariant holds initially.
LEMMA PublishInvInit == Init => PublishInv
BY PublicationAssumption DEF Init, PublishInv, Types, Truthful, Followers, Coalesced,
  NobodyWaitsInVain, OwnErrorsOnly, HandlerStates, Leading, Holding, StoreStates

\* publishOnce preserves it.
LEMMA CoalesceStep ==
  ASSUME PublishInv, NEW h \in Handlers, Call(h) \/ Coalesce(h)
  PROVE  PublishInv'
<1> USE PublicationAssumption DEF PublishInv, Types, Truthful, Followers, Coalesced,
      NobodyWaitsInVain, OwnErrorsOnly, HandlerStates, Leading, Holding, Goto, Return
<1>1. CASE Call(h) BY <1>1 DEF Call
<1>2. CASE FindPublished(h) BY <1>2 DEF FindPublished
<1>3. CASE Follow(h) BY <1>3 DEF Follow
<1>4. CASE Lead(h) BY <1>4 DEF Lead, MayLead
<1>5. CASE LeaderDone(h) BY <1>5 DEF LeaderDone, Awake
<1>6. CASE FollowerCancelled(h) BY <1>6 DEF FollowerCancelled
<1>7. CASE Settle(h) BY <1>7 DEF Settle, Close
<1> QED BY <1>1, <1>2, <1>3, <1>4, <1>5, <1>6, <1>7 DEF Coalesce

\* publish and Save preserve it.
LEMMA PublishStep ==
  ASSUME PublishInv, NEW h \in Handlers, Publish(h)
  PROVE  PublishInv'
<1> USE PublicationAssumption DEF PublishInv, Types, Truthful, Followers, Coalesced,
      NobodyWaitsInVain, OwnErrorsOnly, HandlerStates, Leading, Holding, StoreStates,
      Goto, PublishReturns
<1>1. CASE AcquireSlot(h) BY <1>1 DEF AcquireSlot
<1>2. CASE AcquireCancelled(h) BY <1>2 DEF AcquireCancelled
<1>3. CASE LimiterPasses(h) BY <1>3 DEF LimiterPasses
<1>4. CASE LimiterCancelled(h) BY <1>4 DEF LimiterCancelled
<1>5. CASE SaveStarts(h) BY <1>5 DEF SaveStarts
<1>6. CASE SaveSucceeds(h) BY <1>6 DEF SaveSucceeds
<1>7. CASE SaveFails(h) BY <1>7 DEF SaveFails
<1>8. CASE PollFinds(h) BY <1>8 DEF PollFinds, Visible
<1>9. CASE PollMisses(h) BY <1>9 DEF PollMisses
<1>10. CASE PollGivesUp(h) BY <1>10 DEF PollGivesUp
<1> QED BY <1>1, <1>2, <1>3, <1>4, <1>5, <1>6, <1>7, <1>8, <1>9, <1>10
        DEF Publish, Save

\* Downloads, clients that leave and other jobs preserve it.
LEMMA EnvironmentStep ==
  ASSUME PublishInv,
         \/ \E d \in Downloads : Download(d)
         \/ \E x \in Handlers \cup Downloads : Cancel(x)
         \/ \E k \in Keys : OtherJob(k)
  PROVE  PublishInv'
<1> USE PublicationAssumption DEF PublishInv, Types, Truthful, Followers, Coalesced,
      NobodyWaitsInVain, OwnErrorsOnly, HandlerStates, Leading, Holding, StoreStates,
      Goto
<1>1. ASSUME NEW d \in Downloads, Download(d) PROVE PublishInv'
  BY <1>1 DEF Download, Wait, BeginDownload, LeaveQueue, EndDownload
<1>2. ASSUME NEW x \in Handlers \cup Downloads, Cancel(x) PROVE PublishInv'
  BY <1>2 DEF Cancel
<1>3. ASSUME NEW k \in Keys, OtherJob(k) PROVE PublishInv'
  BY <1>3 DEF OtherJob
<1> QED BY <1>1, <1>2, <1>3

\* Every step preserves the inductive invariant.
LEMMA PublishInvStep == PublishInv /\ [Next]_vars => PublishInv'
<1> SUFFICES ASSUME PublishInv, [Next]_vars PROVE PublishInv'
  OBVIOUS
<1>1. CASE Next
  BY <1>1, CoalesceStep, PublishStep, EnvironmentStep DEF Next
<1>2. CASE UNCHANGED vars
  BY <1>2 DEF vars, PublishInv, Types, Truthful, Followers, Coalesced,
    NobodyWaitsInVain, OwnErrorsOnly
<1> QED BY <1>1, <1>2

\* The publications' invariant holds in every reachable state.
THEOREM PublishInvariant == Spec => []PublishInv
<1>1. Init => PublishInv BY PublishInvInit
<1>2. PublishInv /\ [Next]_vars => PublishInv' BY PublishInvStep
<1> QED BY <1>1, <1>2, PTL DEF Spec

\* SuccessIsSaved: publishOnce never reports a success for a key that is not in
\* the cache, whoever led the publication and however it ended.
THEOREM PublishedIsThere == Spec => []SuccessIsSaved
<1>1. PublishInv => SuccessIsSaved
  BY DEF PublishInv, Types, Truthful, SuccessIsSaved
<1> QED BY <1>1, PublishInvariant, PTL

\* Coalesced: one publication per key at a time and none after a success.
THEOREM OnePublication == Spec => []Coalesced
<1>1. PublishInv => Coalesced BY DEF PublishInv
<1> QED BY <1>1, PublishInvariant, PTL

\* NobodyWaitsInVain: every follower's leader is at work or has finished.
THEOREM FollowersAreWoken == Spec => []NobodyWaitsInVain
<1>1. PublishInv => NobodyWaitsInVain BY DEF PublishInv
<1> QED BY <1>1, PublishInvariant, PTL

\* OwnErrorsOnly: a request never fails because of another request.
THEOREM ErrorsAreOwn == Spec => []OwnErrorsOnly
<1>1. PublishInv => OwnErrorsOnly BY DEF PublishInv
<1> QED BY <1>1, PublishInvariant, PTL

\* TruthfulAnswers: successes and errors of publishOnce are both true.
THEOREM AnswersAreTrue == Spec => []TruthfulAnswers
BY PublishedIsThere, ErrorsAreOwn, PTL DEF TruthfulAnswers

-----------------------------------------------------------------------------
(* The semaphore.                                                           *)

Holders == {x \in Handlers \cup Downloads : pc[x] \in Holding \cup {"download"}}

SlotInv ==
  /\ IsFiniteSet(Holders)
  /\ sem = Cardinality(Holders)
  /\ sem <= MaxConcurrent

\* One more holder and one more slot in use.
LEMMA SlotTaken ==
  ASSUME SlotInv, NEW x, x \notin Holders, Holders' = Holders \cup {x}, Acquire
  PROVE  SlotInv'
<1>1. IsFiniteSet(Holders') /\ Cardinality(Holders') = Cardinality(Holders) + 1
  BY FS_AddElement DEF SlotInv
<1>2. Cardinality(Holders) \in Nat BY FS_CardinalityType DEF SlotInv
<1> QED BY <1>1, <1>2, PublicationAssumption DEF SlotInv, Acquire

\* One holder less and one slot given back.
LEMMA SlotGivenBack ==
  ASSUME SlotInv, NEW x \in Holders, Holders' = Holders \ {x}, sem' = sem - 1
  PROVE  SlotInv'
<1>1. IsFiniteSet(Holders') /\ Cardinality(Holders') = Cardinality(Holders) - 1
  BY FS_RemoveElement DEF SlotInv
<1>2. Cardinality(Holders) \in Nat BY FS_CardinalityType DEF SlotInv
<1> QED BY <1>1, <1>2, PublicationAssumption DEF SlotInv

\* The holders and the semaphore are as before.
LEMMA SlotKept ==
  ASSUME SlotInv, Holders' = Holders, sem' = sem
  PROVE  SlotInv'
BY DEF SlotInv

\* Every step takes, gives back or keeps slots together with their holders.
LEMMA SlotInvStep == PublishInv /\ SlotInv /\ [Next]_vars => SlotInv'
<1> SUFFICES ASSUME PublishInv, SlotInv, [Next]_vars PROVE SlotInv'
  OBVIOUS
<1>a. pc \in [Handlers \cup Downloads -> HandlerStates \cup {"download"}]
  BY DEF PublishInv, Types
<1>1. ASSUME NEW h \in Handlers, Call(h) \/ Coalesce(h) PROVE SlotInv'
  <2>1. Holders' = Holders /\ sem' = sem
    BY <1>1, <1>a DEF Call, Coalesce, FindPublished, Follow, Lead, LeaderDone, Awake,
      FollowerCancelled, Settle, Return, Goto, Holders, Holding
  <2> QED BY <2>1, SlotKept
<1>2. ASSUME NEW h \in Handlers, AcquireSlot(h) PROVE SlotInv'
  <2>1. h \notin Holders /\ Holders' = Holders \cup {h}
    BY <1>2, <1>a DEF AcquireSlot, Goto, Holders, Holding
  <2> QED BY <1>2, <2>1, SlotTaken DEF AcquireSlot
<1>3. ASSUME NEW h \in Handlers,
             \/ AcquireCancelled(h) \/ LimiterPasses(h) \/ SaveStarts(h)
             \/ SaveFails(h) \/ PollMisses(h)
      PROVE  SlotInv'
  <2>1. Holders' = Holders /\ sem' = sem
    BY <1>3, <1>a DEF AcquireCancelled, LimiterPasses, SaveStarts, SaveFails,
      PollMisses, Goto, Holders, Holding
  <2> QED BY <2>1, SlotKept
<1>4. ASSUME NEW h \in Handlers,
             \/ LimiterCancelled(h) \/ SaveSucceeds(h) \/ PollFinds(h)
             \/ PollGivesUp(h)
      PROVE  SlotInv'
  <2>1. h \in Holders /\ Holders' = Holders \ {h} /\ sem' = sem - 1
    BY <1>4, <1>a DEF LimiterCancelled, SaveSucceeds, PollFinds, PollGivesUp,
      PublishReturns, Release, Goto, Holders, Holding
  <2> QED BY <2>1, SlotGivenBack
<1>5. ASSUME NEW d \in Downloads, Wait(d) \/ LeaveQueue(d) PROVE SlotInv'
  <2>1. Holders' = Holders /\ sem' = sem
    BY <1>5, <1>a DEF Wait, LeaveQueue, Goto, Holders, Holding
  <2> QED BY <2>1, SlotKept
<1>6. ASSUME NEW d \in Downloads, BeginDownload(d) PROVE SlotInv'
  <2>1. d \notin Holders /\ Holders' = Holders \cup {d}
    BY <1>6, <1>a DEF BeginDownload, Goto, Holders, Holding
  <2> QED BY <1>6, <2>1, SlotTaken DEF BeginDownload
<1>7. ASSUME NEW d \in Downloads, EndDownload(d) PROVE SlotInv'
  <2>1. d \in Holders /\ Holders' = Holders \ {d} /\ sem' = sem - 1
    BY <1>7, <1>a DEF EndDownload, Goto, Holders, Holding
  <2> QED BY <2>1, SlotGivenBack
<1>8. ASSUME \/ \E x \in Handlers \cup Downloads : Cancel(x)
             \/ \E k \in Keys : OtherJob(k)
             \/ UNCHANGED vars
      PROVE  SlotInv'
  <2>1. Holders' = Holders /\ sem' = sem
    BY <1>8 DEF Cancel, OtherJob, vars, Holders
  <2> QED BY <2>1, SlotKept
<1> QED BY <1>1, <1>2, <1>3, <1>4, <1>5, <1>6, <1>7, <1>8
        DEF Next, Publish, Save, Download

\* The semaphore's invariant holds in every reachable state.
THEOREM SlotInvariant == Spec => []SlotInv
<1>1. Init => SlotInv
  <2> SUFFICES ASSUME Init PROVE SlotInv OBVIOUS
  <2>1. Holders = {} BY DEF Init, Holders, Holding
  <2> QED BY <2>1, FS_EmptySet, PublicationAssumption DEF Init, SlotInv
<1>2. PublishInv /\ SlotInv /\ [Next]_vars => SlotInv' BY SlotInvStep
<1> QED BY <1>1, <1>2, PublishInvariant, PTL DEF Spec

\* SlotsAccounted: the semaphore counts exactly the publications and downloads
\* that hold a slot, on every path out of them.
THEOREM SemaphoreIsExact == Spec => []SlotsAccounted
<1>1. SlotInv => SlotsAccounted BY DEF SlotInv, SlotsAccounted, Holders
<1> QED BY <1>1, SlotInvariant, PTL

\* TypeOK, with the capacity of the semaphore.
THEOREM PublicationTypes == Spec => []TypeOK
<1>1. PublishInv /\ SlotInv => TypeOK
  <2> SUFFICES ASSUME PublishInv, SlotInv PROVE TypeOK OBVIOUS
  <2>1. sem \in 0..MaxConcurrent
    BY FS_CardinalityType, PublicationAssumption DEF SlotInv
  <2> QED BY <2>1 DEF PublishInv, Types, TypeOK
<1> QED BY <1>1, PublishInvariant, SlotInvariant, PTL

-----------------------------------------------------------------------------
(* The limiter, for any number of callers, any rate and any division of the *)
(* minute.  Slots that are waited for are apart from each other, from the   *)
(* next one and from the uploads that began.                                *)

Apart(s, t) == s + interval <= t \/ t + interval <= s

UploadsInOrder ==
  /\ uploads \in Seq(Nat)
  /\ \A i \in 1..Len(uploads) : uploads[i] <= now /\ uploads[i] + interval <= next

SlotsApart ==
  /\ \A c \in Callers : caller[c] = "waiting" =>
       /\ slot[c] + interval <= next
       /\ \A i \in 1..Len(uploads) : uploads[i] + interval <= slot[c]
  /\ \A c, d \in Callers :
       c # d /\ caller[c] = "waiting" /\ caller[d] = "waiting" => Apart(slot[c], slot[d])

LimiterInv == LimiterTypeOK /\ UploadsInOrder /\ SlotsApart /\ UploadsSpaced

\* A minute has at least one unit for each of the PerMinute slots.
LEMMA IntervalIsPositive == interval \in Nat \ {0}
BY LimiterAssumption DEF LimiterAssumption, interval

\* What one more interval adds to a distance of n intervals.
LEMMA OneMore == \A n \in Nat : (n + 1) * interval = n * interval + interval
BY IntervalIsPositive

\* The upload that begins now is an interval later than every upload before.
LEMMA BeginSpaced ==
  ASSUME LimiterInv, NEW c \in Callers, Begin(c),
         \A i \in 1..Len(uploads) : uploads[i] + interval <= now
  PROVE  UploadsSpaced'
<1> DEFINE n == Len(uploads)
<1>1. /\ n \in Nat /\ now \in Nat /\ uploads \in Seq(Nat)
      /\ \A i \in 1..n : uploads[i] \in Nat
  BY DEF LimiterInv, UploadsInOrder, LimiterTypeOK
<1>2. uploads' = Append(uploads, now) BY DEF Begin
<1>3. /\ Len(uploads') = n + 1
      /\ uploads'[n + 1] = now
      /\ \A i \in 1..n : uploads'[i] = uploads[i]
  BY <1>1, <1>2
<1> SUFFICES ASSUME NEW i \in 1..(n + 1), NEW j \in 1..(n + 1), i < j
             PROVE  uploads'[j] - uploads'[i] >= (j - i) * interval
  BY <1>3 DEF UploadsSpaced
<1>4. CASE j \in 1..n
  <2>1. i \in 1..n BY <1>1, <1>4
  <2> QED BY <1>3, <1>4, <2>1 DEF LimiterInv, UploadsSpaced
<1>5. CASE j = n + 1
  <2>1. i \in 1..n /\ n \in 1..n BY <1>1, <1>5
  <2>2. now - uploads[i] >= (n + 1 - i) * interval
    <3>1. CASE i = n
      <4>1. uploads[n] + interval <= now /\ uploads[n] \in Nat BY <1>1, <2>1
      <4>2. (n + 1 - n) * interval = interval BY <1>1, IntervalIsPositive
      <4> HIDE DEF n
      <4> QED BY <1>1, <3>1, <4>1, <4>2, IntervalIsPositive
    <3>2. CASE i < n
      <4>1. uploads[n] - uploads[i] >= (n - i) * interval
        BY <2>1, <3>2 DEF LimiterInv, UploadsSpaced
      <4>2. uploads[n] + interval <= now /\ uploads[n] \in Nat /\ uploads[i] \in Nat
        BY <1>1, <2>1
      <4>3. n - i \in Nat /\ n + 1 - i = (n - i) + 1 BY <1>1, <2>1, <3>2
      <4>4. PICK x \in Nat : x = n - i BY <4>3
      <4>5. (x + 1) * interval = x * interval + interval /\ x * interval \in Nat
        BY OneMore, IntervalIsPositive
      <4>6. now - uploads[i] >= x * interval + interval
        <5> HIDE DEF n
        <5> QED BY <1>1, <4>1, <4>2, <4>4, <4>5, IntervalIsPositive
      <4> QED BY <4>3, <4>4, <4>5, <4>6
    <3> QED BY <2>1, <3>1, <3>2
  <2> QED BY <1>3, <1>5, <2>1, <2>2
<1> QED BY <1>1, <1>4, <1>5

\* A caller that finds a slot due begins at once; nobody waits then.
LEMMA ReservePreserves ==
  ASSUME LimiterInv, NEW c \in Callers, Reserve(c)
  PROVE  LimiterInv'
<1>1. /\ next \in Nat /\ now \in Nat /\ interval \in Nat \ {0} /\ MaxTime \in Nat
      /\ uploads \in Seq(Nat) /\ Len(uploads) \in Nat
      /\ caller \in [Callers -> {"idle", "waiting", "uploading"}]
      /\ slot \in [Callers -> 0..MaxTime]
      /\ \A i \in 1..Len(uploads) : uploads[i] \in Nat
      /\ now <= MaxTime
  BY IntervalIsPositive, LimiterAssumption
     DEF LimiterInv, LimiterTypeOK, UploadsInOrder, LimiterAssumption
<1>2. /\ slot' = [slot EXCEPT ![c] = FreeSlot]
      /\ next' = FreeSlot + interval
      /\ FreeSlot \in Nat /\ FreeSlot <= MaxTime
      /\ next <= FreeSlot /\ now <= FreeSlot
      /\ now' = now
      /\ caller[c] = "idle"
  BY <1>1 DEF Reserve, NextFree, FreeSlot
<1>3. CASE FreeSlot <= now
  <2>1. Begin(c) BY <1>3 DEF Reserve
  <2>2. FreeSlot = now /\ next <= now BY <1>1, <1>2, <1>3
  <2>3. \A d \in Callers : caller[d] # "waiting"
    <3> SUFFICES ASSUME NEW d \in Callers, caller[d] = "waiting" PROVE FALSE OBVIOUS
    <3>1. slot[d] + interval <= next /\ now <= slot[d] /\ slot[d] \in Nat
      BY <1>1 DEF LimiterInv, SlotsApart, LimiterTypeOK
    <3> QED BY <1>1, <2>2, <3>1
  <2>4. /\ uploads' = Append(uploads, now)
        /\ caller' = [caller EXCEPT ![c] = "uploading"]
    BY <2>1 DEF Begin
  <2>5. /\ uploads' \in Seq(Nat)
        /\ Len(uploads') = Len(uploads) + 1
        /\ uploads'[Len(uploads) + 1] = now
        /\ \A i \in 1..Len(uploads) : uploads'[i] = uploads[i]
    BY <1>1, <2>4
  <2>6. \A i \in 1..Len(uploads) : uploads[i] + interval <= now
    BY <1>1, <2>2 DEF LimiterInv, UploadsInOrder
  <2>7. UploadsSpaced' BY <2>1, <2>6, BeginSpaced
  <2>8. UploadsInOrder'
    <3> SUFFICES ASSUME NEW i \in 1..Len(uploads')
                 PROVE  uploads'[i] <= now /\ uploads'[i] + interval <= now + interval
      BY <1>2, <2>2, <2>5 DEF UploadsInOrder
    <3>1. CASE i \in 1..Len(uploads)
      <4>1. /\ uploads'[i] \in Nat /\ uploads'[i] + interval <= now
        BY <1>1, <2>5, <2>6, <3>1
      <4> QED BY <1>1, <4>1
    <3>2. CASE i = Len(uploads) + 1 BY <1>1, <2>5, <3>2
    <3> QED BY <1>1, <2>5, <3>1, <3>2
  <2>9. \A d \in Callers : caller'[d] # "waiting" BY <1>1, <2>3, <2>4
  <2>10. SlotsApart' BY <2>9 DEF SlotsApart
  <2>11. LimiterTypeOK'
    <3>1. ASSUME NEW d \in Callers, caller'[d] # "idle" PROVE slot'[d] < next'
      <4>1. CASE d = c BY <1>1, <1>2, <4>1
      <4>2. CASE d # c
        <5>1. slot[d] < next /\ slot'[d] = slot[d] /\ slot[d] \in Nat
          BY <1>1, <1>2, <2>4, <3>1, <4>2 DEF LimiterInv, LimiterTypeOK
        <5> QED BY <1>1, <1>2, <5>1
      <4> QED BY <4>1, <4>2
    <3>2. slot' \in [Callers -> 0..MaxTime] BY <1>1, <1>2
    <3>3. now' \in 0..MaxTime /\ next' \in 0..(MaxTime + interval) BY <1>1, <1>2
    <3> QED BY <1>1, <2>4, <2>9, <3>1, <3>2, <3>3 DEF LimiterTypeOK
  <2> QED BY <2>7, <2>8, <2>10, <2>11 DEF LimiterInv
<1>4. CASE FreeSlot > now
  <2>1. /\ FreeSlot = next
        /\ caller' = [caller EXCEPT ![c] = "waiting"]
        /\ uploads' = uploads
    BY <1>1, <1>4 DEF Reserve, FreeSlot
  <2>2. UploadsInOrder'
    <3>1. \A i \in 1..Len(uploads) : uploads[i] + interval <= next + interval
      BY <1>1 DEF LimiterInv, UploadsInOrder
    <3> QED BY <1>1, <1>2, <2>1, <3>1 DEF LimiterInv, UploadsInOrder
  <2>3. /\ slot'[c] = next
        /\ \A d \in Callers \ {c} : slot'[d] = slot[d] /\ caller'[d] = caller[d]
    BY <1>1, <1>2, <2>1
  <2>4. ASSUME NEW d \in Callers, caller'[d] = "waiting"
        PROVE  /\ slot'[d] + interval <= next'
               /\ \A i \in 1..Len(uploads) : uploads[i] + interval <= slot'[d]
    <3>1. CASE d = c
      BY <1>1, <1>2, <2>1, <2>3, <3>1 DEF LimiterInv, UploadsInOrder
    <3>2. CASE d # c
      <4>1. /\ slot[d] + interval <= next /\ slot[d] \in Nat
            /\ \A i \in 1..Len(uploads) : uploads[i] + interval <= slot[d]
        BY <1>1, <2>3, <2>4, <3>2 DEF LimiterInv, SlotsApart
      <4> QED BY <1>1, <1>2, <2>1, <2>3, <3>2, <4>1
    <3> QED BY <3>1, <3>2
  <2>5. ASSUME NEW d \in Callers, NEW e \in Callers, d # e,
               caller'[d] = "waiting", caller'[e] = "waiting"
        PROVE  Apart(slot'[d], slot'[e])
    <3>1. \A x \in Callers \ {c} : caller[x] = "waiting" => slot[x] + interval <= next
      BY DEF LimiterInv, SlotsApart
    <3> QED BY <2>3, <2>5, <3>1 DEF LimiterInv, SlotsApart, Apart
  <2>6. SlotsApart' BY <2>1, <2>4, <2>5 DEF SlotsApart, Apart, interval
  <2>7. UploadsSpaced' BY <2>1 DEF LimiterInv, UploadsSpaced, interval
  <2>8. LimiterTypeOK'
    <3>1. ASSUME NEW d \in Callers, caller'[d] # "idle" PROVE slot'[d] < next'
      <4>1. CASE d = c BY <1>1, <1>2, <2>1, <2>3, <4>1
      <4>2. CASE d # c
        <5>1. slot[d] < next /\ slot[d] \in Nat
          BY <1>1, <2>3, <3>1, <4>2 DEF LimiterInv, LimiterTypeOK
        <5> QED BY <1>1, <1>2, <2>1, <2>3, <4>2, <5>1
      <4> QED BY <4>1, <4>2
    <3>2. ASSUME NEW d \in Callers, caller'[d] = "waiting" PROVE now' <= slot'[d]
      <4>1. CASE d = c BY <1>1, <1>2, <2>1, <2>3, <4>1
      <4>2. CASE d # c BY <1>2, <2>3, <3>2, <4>2 DEF LimiterInv, LimiterTypeOK
      <4> QED BY <4>1, <4>2
    <3>3. slot' \in [Callers -> 0..MaxTime] BY <1>1, <1>2
    <3>4. now' \in 0..MaxTime /\ next' \in 0..(MaxTime + interval) BY <1>1, <1>2
    <3>5. caller' \in [Callers -> {"idle", "waiting", "uploading"}] BY <1>1, <2>1
    <3> QED BY <3>1, <3>2, <3>3, <3>4, <3>5 DEF LimiterTypeOK, interval
  <2> QED BY <2>2, <2>6, <2>7, <2>8 DEF LimiterInv
<1> QED BY <1>1, <1>2, <1>3, <1>4

\* A timer that fires: every other slot that is waited for is later by an interval.
LEMMA WakePreserves ==
  ASSUME LimiterInv, NEW c \in Callers, Wake(c)
  PROVE  LimiterInv'
<1>1. /\ next \in Nat /\ now \in Nat /\ interval \in Nat \ {0}
      /\ uploads \in Seq(Nat) /\ Len(uploads) \in Nat
      /\ caller \in [Callers -> {"idle", "waiting", "uploading"}]
      /\ slot \in [Callers -> 0..MaxTime]
      /\ \A i \in 1..Len(uploads) : uploads[i] \in Nat
  BY IntervalIsPositive DEF LimiterInv, LimiterTypeOK, UploadsInOrder
<1>2. /\ caller[c] = "waiting" /\ slot[c] = now /\ Begin(c)
      /\ UNCHANGED <<now, next, slot>>
      /\ caller' = [caller EXCEPT ![c] = "uploading"]
      /\ uploads' = Append(uploads, now)
  BY DEF Wake, Begin
<1>3. /\ uploads' \in Seq(Nat)
      /\ Len(uploads') = Len(uploads) + 1
      /\ uploads'[Len(uploads) + 1] = now
      /\ \A i \in 1..Len(uploads) : uploads'[i] = uploads[i]
  BY <1>1, <1>2
<1>4. /\ now + interval <= next
      /\ \A i \in 1..Len(uploads) : uploads[i] + interval <= now
  BY <1>2 DEF LimiterInv, SlotsApart
<1>5. UploadsSpaced' BY <1>2, <1>4, BeginSpaced
<1>6. UploadsInOrder'
  <2> SUFFICES ASSUME NEW i \in 1..Len(uploads')
               PROVE  uploads'[i] <= now /\ uploads'[i] + interval <= next
    BY <1>2, <1>3 DEF UploadsInOrder, interval
  <2>1. CASE i \in 1..Len(uploads)
    BY <1>3, <2>1 DEF LimiterInv, UploadsInOrder
  <2>2. CASE i = Len(uploads) + 1 BY <1>1, <1>3, <1>4, <2>2
  <2> QED BY <1>1, <1>3, <2>1, <2>2
<1>7. \A d \in Callers : caller'[d] = "waiting" => d # c /\ caller[d] = "waiting"
  BY <1>1, <1>2
<1>8. ASSUME NEW d \in Callers, caller'[d] = "waiting"
      PROVE  \A i \in 1..Len(uploads') : uploads'[i] + interval <= slot[d]
  <2>1. /\ d # c /\ caller[d] = "waiting" /\ slot[d] \in Nat /\ now <= slot[d]
    BY <1>1, <1>7, <1>8 DEF LimiterInv, LimiterTypeOK
  <2>2. Apart(slot[c], slot[d]) BY <1>2, <2>1 DEF LimiterInv, SlotsApart
  <2>3. now + interval <= slot[d] BY <1>1, <1>2, <2>1, <2>2 DEF Apart
  <2>4. \A i \in 1..Len(uploads) : uploads[i] + interval <= slot[d]
    BY <2>1 DEF LimiterInv, SlotsApart
  <2>5. \A i \in 1..Len(uploads') : i \in 1..Len(uploads) \/ i = Len(uploads) + 1
    BY <1>1, <1>3
  <2> QED BY <1>3, <2>3, <2>4, <2>5
<1>9. SlotsApart'
  BY <1>2, <1>7, <1>8 DEF LimiterInv, SlotsApart, Apart, interval
<1>10. LimiterTypeOK' BY <1>1, <1>2, <1>7 DEF LimiterInv, LimiterTypeOK, interval
<1> QED BY <1>5, <1>6, <1>9, <1>10 DEF LimiterInv

\* Slots are kept when a caller leaves, and nobody sleeps past a slot.
LEMMA OtherPreserves ==
  ASSUME LimiterInv, Tick \/ \E c \in Callers : Cancelled(c) \/ Uploaded(c)
  PROVE  LimiterInv'
<1> USE DEF interval
<1>1. ASSUME NEW c \in Callers, Cancelled(c) \/ Uploaded(c) PROVE LimiterInv'
  <2>1. UNCHANGED <<now, next, slot, uploads>> /\ caller' = [caller EXCEPT ![c] = "idle"]
    BY <1>1 DEF Cancelled, Uploaded
  <2>2. \A d \in Callers : caller'[d] # "idle" => caller'[d] = caller[d]
    BY <2>1 DEF LimiterInv, LimiterTypeOK
  <2>3. LimiterTypeOK' BY <2>1, <2>2 DEF LimiterInv, LimiterTypeOK
  <2>4. UploadsInOrder' /\ UploadsSpaced'
    BY <2>1 DEF LimiterInv, UploadsInOrder, UploadsSpaced
  <2>5. SlotsApart' BY <2>1, <2>2 DEF LimiterInv, SlotsApart, Apart
  <2> QED BY <2>3, <2>4, <2>5 DEF LimiterInv
<1>2. CASE Tick
  <2>1. /\ UNCHANGED <<next, caller, slot, uploads>> /\ now' = now + 1
        /\ now < MaxTime
        /\ \A c \in Callers : caller[c] = "waiting" => slot[c] # now
    BY <1>2 DEF Tick
  <2>2. now \in Nat /\ MaxTime \in Nat
    BY LimiterAssumption DEF LimiterInv, LimiterTypeOK, LimiterAssumption
  <2>3. ASSUME NEW c \in Callers, caller[c] = "waiting" PROVE now + 1 <= slot[c]
    <3>1. now <= slot[c] /\ slot[c] \in Nat /\ slot[c] # now
      BY <2>1, <2>3 DEF LimiterInv, LimiterTypeOK
    <3> QED BY <2>2, <3>1
  <2>4. LimiterTypeOK' BY <2>1, <2>2, <2>3 DEF LimiterInv, LimiterTypeOK
  <2>5. UploadsInOrder'
    <3>1. \A i \in 1..Len(uploads) : uploads[i] \in Nat /\ uploads[i] <= now
      BY DEF LimiterInv, UploadsInOrder
    <3>2. \A i \in 1..Len(uploads) : uploads[i] <= now + 1 BY <2>2, <3>1
    <3> QED BY <2>1, <3>2 DEF LimiterInv, UploadsInOrder
  <2>6. SlotsApart' /\ UploadsSpaced'
    BY <2>1 DEF LimiterInv, SlotsApart, Apart, UploadsSpaced
  <2> QED BY <2>4, <2>5, <2>6 DEF LimiterInv
<1> QED BY <1>1, <1>2

\* The invariant of the limiter holds in every reachable state.
THEOREM LimiterInvariant == LimiterSpec => []LimiterInv
<1>1. LimiterInit => LimiterInv
  <2> SUFFICES ASSUME LimiterInit PROVE LimiterInv OBVIOUS
  <2>1. MaxTime \in Nat /\ interval \in Nat
    BY IntervalIsPositive, LimiterAssumption DEF LimiterAssumption
  <2>2. LimiterTypeOK BY <2>1 DEF LimiterInit, LimiterTypeOK
  <2>3. UploadsInOrder /\ SlotsApart /\ UploadsSpaced
    BY DEF LimiterInit, UploadsInOrder, SlotsApart, UploadsSpaced
  <2> QED BY <2>2, <2>3 DEF LimiterInv
<1>2. LimiterInv /\ [LimiterNext]_limiterVars => LimiterInv'
  <2>1. LimiterInv /\ UNCHANGED limiterVars => LimiterInv'
    BY DEF LimiterInv, LimiterTypeOK, UploadsInOrder, SlotsApart, Apart, UploadsSpaced,
           limiterVars, interval
  <2> QED BY <2>1, ReservePreserves, WakePreserves, OtherPreserves DEF LimiterNext
<1> QED BY <1>1, <1>2, PTL DEF LimiterSpec

\* The types, and: a slot that was taken is not free any more.
THEOREM LimiterTypes == LimiterSpec => []LimiterTypeOK
<1>1. LimiterInv => LimiterTypeOK BY DEF LimiterInv
<1> QED BY <1>1, LimiterInvariant, PTL

\* wait has no burst: whoever waits, gives up or comes after a pause, n uploads in
\* a row take at least n - 1 intervals.
THEOREM NoBurst == LimiterSpec => []UploadsSpaced
<1>1. LimiterInv => UploadsSpaced BY DEF LimiterInv
<1> QED BY <1>1, LimiterInvariant, PTL

-----------------------------------------------------------------------------
(* The rate.                                                                *)

\* A set of naturals has a least element.
LEMMA LeastOf ==
  ASSUME NEW S \in SUBSET Nat, S # {}
  PROVE  \E x \in S : \A y \in S : x <= y
<1>1. \E x \in S : \A y \in S : ~(<<y, x>> \in OpToRel(<, Nat))
  BY NatLessThanWellFounded, WFMin
<1>2. \A x, y \in Nat : ~(<<y, x>> \in OpToRel(<, Nat)) => ~(y < x)
  BY DEF OpToRel
<1>3. \A x, y \in Nat : ~(y < x) => x <= y OBVIOUS
<1> QED BY <1>1, <1>2, <1>3

\* n + 1 uploads in a row take at least n intervals; when these are a minute or
\* longer, then no minute has more than n uploads.
LEMMA InAMinute ==
  ASSUME LimiterInv, NEW n \in Nat \ {0}, n * interval >= Minute, NEW t \in 0..now
  PROVE  Cardinality({i \in 1..Len(uploads) : uploads[i] \in t..(t + Minute - 1)}) <= n
<1> DEFINE S == {i \in 1..Len(uploads) : uploads[i] \in t..(t + Minute - 1)}
<1> SUFFICES Cardinality(S) <= n OBVIOUS
<1>1. Minute \in Nat /\ interval \in Nat \ {0} /\ t \in Nat /\ Len(uploads) \in Nat
  BY IntervalIsPositive, LimiterAssumption
     DEF LimiterAssumption, LimiterInv, LimiterTypeOK, UploadsInOrder
<1>2. CASE S = {}
  <2>1. Cardinality({}) = 0 BY FS_EmptySet
  <2> HIDE DEF S
  <2> QED BY <1>2, <2>1
<1>3. CASE S # {}
  <2>1. S \in SUBSET Nat BY <1>1
  <2>2. PICK lo \in S : \A j \in S : lo <= j BY <1>3, <2>1, LeastOf
  <2>3. \A d \in Nat : d >= n => d * interval >= n * interval BY <1>1
  <2>4. ASSUME NEW j \in S PROVE j \in lo..(lo + n - 1)
    <3>1. /\ lo \in 1..Len(uploads) /\ j \in 1..Len(uploads) /\ lo <= j
          /\ uploads[j] - uploads[lo] < Minute
      BY <1>1, <2>2
    <3>2. lo < j => uploads[j] - uploads[lo] >= (j - lo) * interval
      BY <3>1 DEF LimiterInv, UploadsSpaced
    <3>3. PICK d \in Nat : d = j - lo BY <1>1, <3>1
    <3>4. uploads[j] \in Nat /\ uploads[lo] \in Nat
      BY <3>1 DEF LimiterInv, UploadsInOrder
    <3>5. d < n
      <4>1. PICK x \in Int : x = d * interval BY <1>1
      <4>2. PICK y \in Int : y = n * interval BY <1>1
      <4>3. lo < j => x < Minute /\ Minute <= y
        BY <1>1, <3>1, <3>2, <3>3, <3>4, <4>1, <4>2
      <4>4. d >= n => x >= y BY <2>3, <4>1, <4>2
      <4> HIDE DEF S
      <4> QED BY <1>1, <3>1, <3>3, <4>1, <4>2, <4>3, <4>4
    <3> HIDE DEF S
    <3> QED BY <1>1, <3>1, <3>3, <3>5
  <2>5. /\ lo \in Int /\ IsFiniteSet(lo..(lo + n - 1))
        /\ Cardinality(lo..(lo + n - 1)) = n
    <3>1. lo \in Nat BY <2>1, <2>2
    <3> HIDE DEF S
    <3>2. lo \in Int /\ lo + n - 1 \in Int BY <3>1
    <3>3. /\ IsFiniteSet(lo..(lo + n - 1))
          /\ Cardinality(lo..(lo + n - 1)) =
               IF lo > lo + n - 1 THEN 0 ELSE (lo + n - 1) - lo + 1
      BY <3>2, FS_Interval
    <3> QED BY <3>2, <3>3
  <2>6. S \subseteq lo..(lo + n - 1) BY <2>4
  <2> HIDE DEF S
  <2> QED BY <2>5, <2>6, FS_Subset
<1> QED BY <1>2, <1>3

\* At every setting below the limit, the highest included, no minute has more
\* uploads than the limit.
THEOREM RateKept == LimiterSpec => []RateIsKept /\ PerMinute + 1 <= Limit
<1>1. /\ PerMinute + 1 \in Nat \ {0} /\ (PerMinute + 1) * interval >= Minute
      /\ PerMinute + 1 <= Limit
  BY LimiterAssumption DEF LimiterAssumption, interval
<1>2. LimiterInv => RateIsKept BY <1>1, InAMinute DEF RateIsKept
<1> QED BY <1>1, <1>2, LimiterInvariant, PTL

\* The comment of the limiter: when Limit - 1 intervals are a minute or longer, then
\* no minute has Limit uploads.  199 of 200 does not meet the condition, 198 does.
THEOREM RateStaysBelow ==
  ASSUME (Limit - 1) * interval >= Minute
  PROVE  LimiterSpec => []BelowLimit
<1>1. PICK n \in Nat \ {0} : n = Limit - 1 BY LimiterAssumption DEF LimiterAssumption
<1>2. ASSUME LimiterInv, NEW t \in 0..now
      PROVE  Cardinality({i \in 1..Len(uploads) : uploads[i] \in t..(t + Minute - 1)}) < Limit
  <2> DEFINE S == {i \in 1..Len(uploads) : uploads[i] \in t..(t + Minute - 1)}
  <2>1. Cardinality(S) <= n BY <1>1, <1>2, InAMinute
  <2>2. Cardinality(S) \in Nat
    <3>1. Len(uploads) \in Nat BY <1>2 DEF LimiterInv, UploadsInOrder
    <3>2. IsFiniteSet(1..Len(uploads)) BY <3>1, FS_Interval
    <3> QED BY <3>2, FS_Subset, FS_CardinalityType
  <2> HIDE DEF S
  <2>3. Cardinality(S) < Limit BY <1>1, <2>1, <2>2, LimiterAssumption DEF LimiterAssumption
  <2> QED BY <2>3 DEF S
<1>3. LimiterInv => BelowLimit BY <1>2 DEF BelowLimit
<1> QED BY <1>3, LimiterInvariant, PTL
=============================================================================
