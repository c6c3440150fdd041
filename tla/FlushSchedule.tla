----------------------------- MODULE FlushSchedule -----------------------------
(***************************************************************************)
(* When the flush worker of the packed mode (internal/server/pack_store.go)*)
(* publishes what: the byte counter that asks for a flush, the channel of  *)
(* capacity one that carries the request, the ticker, whose channel also   *)
(* holds one tick, and the order in which pending objects leave.           *)
(*                                                                         *)
(* PackStore says what a flush publishes and lets it happen at any time;   *)
(* here the contents are names and sizes and time is discrete.  The worker *)
(* holds mu from the selection to the end of the flush, so nothing is      *)
(* staged meanwhile; uploads that wait for mu are staged after it.         *)
(***************************************************************************)
EXTENDS Integers, Sequences, FiniteSets

CONSTANTS
  Objects,      \* digests of CAS objects
  Results,      \* action results, one per action digest
  Closure,      \* the objects that a result refers to
  Size,
  TargetSize,   \* Config.PackSize
  Interval,     \* Config.PackFlushInterval
  MaxSave,      \* the time that saving a pack and its manifest takes at most,
                \* which may be several intervals
  Refused,      \* batches whose key another job reserved and never finalizes
  MaxFailures,  \* bound: saves that fail for another reason
  MaxCount      \* bound: the histories stop counting here

Items == Objects \cup Results

ASSUME FlushScheduleAssumption ==
  /\ Objects \cap Results = {}
  /\ Closure \in [Results -> SUBSET Objects]
  /\ Size \in [Items -> Nat]
  /\ TargetSize \in Nat \ {0} /\ Interval \in Nat \ {0}
  /\ MaxSave \in Nat
  /\ Refused \subseteq SUBSET Items
  /\ MaxFailures \in Nat /\ MaxCount \in Nat

VARIABLES
  pendingCAS,     \* pendingCASOrder with pendingCAS
  pendingActions,
  cas,            \* the objects that the index has
  pendingBytes,
  flushRequest,   \* flushRequests holds a request
  tick,           \* ticker.C holds a tick
  untilTick,      \* time to the next tick
  saving,         \* the batch that is being saved; {} when the worker selects
  saveLeft,
  failures,
  age,            \* history: how long an item has been ready to be published
  pack,           \* history: the pack, counted from the next one, of a pending object
  packsAhead      \* history: the packs that an item had to wait for, failed ones too

storeVars == <<pendingCAS, pendingActions, cas, pendingBytes, pack>>
scheduleVars == <<storeVars, flushRequest, tick, untilTick, saving, saveLeft, failures,
                  age, packsAhead>>

\* The size of a set of items: its bytes, counted one by one.
Bytes(S) == Cardinality(UNION {{x} \X (1..Size[x]) : x \in S})

\* The loop of selectCASLocked takes an object after those that it has selected.
Fits(selected, d) ==
  /\ Bytes(selected) < TargetSize
  /\ Bytes(selected) + Size[d] <= TargetSize

\* It takes the k-th pending object if it comes to it.
Admits(k) == k = 1 \/ Fits({pendingCAS[i] : i \in 1..(k - 1)}, pendingCAS[k])

\* The pending objects up to the n-th one that leave in the same pack as it.
Mates(n) ==
  {pendingCAS[i] : i \in {j \in 1..n : pack[pendingCAS[j]] = pack[pendingCAS[n]]}}

\* The pack of an object that comes after the n-th one.
PackAfter(n, d) ==
  IF n = 0 THEN 1
  ELSE IF Fits(Mates(n), d) THEN pack[pendingCAS[n]] ELSE pack[pendingCAS[n]] + 1

Pending == {pendingCAS[i] : i \in 1..Len(pendingCAS)} \cup pendingActions

FirstPack == {n \in 1..Len(pendingCAS) : \A k \in 1..n : Admits(k)}

\* Mutant: a pack is published only when it is full.
SelectCASMutant ==
  {pendingCAS[n] : n \in {m \in FirstPack : pendingBytes >= TargetSize}}

SelectCAS == {pendingCAS[n] : n \in FirstPack}

SelectActions(selected) ==
  {v \in pendingActions : Closure[v] \subseteq selected \cup cas}

\* What flushOneLocked would publish now.
Batch == SelectCAS \cup SelectActions(SelectCAS)

Capped(n) == IF n < MaxCount THEN n ELSE MaxCount

ScheduleInit ==
  /\ pendingCAS = <<>> /\ pendingActions = {} /\ cas = {}
  /\ pendingBytes = 0
  /\ flushRequest = FALSE
  /\ tick = FALSE /\ untilTick = Interval
  /\ saving = {} /\ saveLeft = 0
  /\ failures = 0
  /\ age = [x \in Items |-> 0]
  /\ pack = [d \in Objects |-> 0]
  /\ packsAhead = [x \in Items |-> 0]

-----------------------------------------------------------------------------
MuFree == saving = {}

\* A request that is already there is enough.
requestFlushLocked == flushRequest' = (flushRequest \/ pendingBytes' >= TargetSize)

StageCAS(d) ==
  /\ MuFree
  /\ d \notin Pending \cup cas
  /\ pendingCAS' = Append(pendingCAS, d)
  /\ pendingBytes' = pendingBytes + Size[d]
  /\ requestFlushLocked
  /\ pack' = [pack EXCEPT ![d] = PackAfter(Len(pendingCAS), d)]
  /\ packsAhead' = [packsAhead EXCEPT ![d] = Capped(PackAfter(Len(pendingCAS), d))]
  /\ UNCHANGED <<pendingActions, cas, tick, untilTick, saving, saveLeft, failures,
                 age>>

\* The index is not asked: a result that was published is staged again.
StageAction(v) ==
  /\ MuFree
  /\ v \notin pendingActions
  /\ pendingActions' = pendingActions \cup {v}
  /\ pendingBytes' = pendingBytes + Size[v]
  /\ requestFlushLocked
  /\ packsAhead' = [packsAhead EXCEPT ![v] = Capped(1)]
  /\ UNCHANGED <<pendingCAS, cas, pack, tick, untilTick, saving, saveLeft, failures,
                 age>>

-----------------------------------------------------------------------------
\* Mutant: only a request makes the worker flush.
TickTakenMutant == tick /\ pendingBytes >= TargetSize

TickTaken == tick

\* The select of flushWorker takes whichever is ready.
Receive ==
  \/ TickTaken /\ tick' = FALSE /\ UNCHANGED flushRequest
  \/ flushRequest /\ flushRequest' = FALSE /\ UNCHANGED tick

\* One pack for each time that the worker wakes up: flush(context, false).
BeginFlush ==
  /\ MuFree
  /\ Receive
  /\ saving' = Batch
  /\ saveLeft' \in IF Batch = {} THEN {0} ELSE 0..MaxSave
  /\ UNCHANGED <<storeVars, untilTick, failures, age, packsAhead>>

\* applyManifestLocked and removePendingLocked: the batch is a prefix of the order.
FlushSaved ==
  /\ saving # {}
  /\ saveLeft = 0
  /\ saving \notin Refused
  /\ pendingCAS' = SubSeq(pendingCAS, Cardinality(saving \cap Objects) + 1,
                          Len(pendingCAS))
  /\ pendingActions' = pendingActions \ saving
  /\ cas' = cas \cup (saving \cap Objects)
  /\ pendingBytes' = pendingBytes - Bytes(saving)
  /\ age' = [x \in Items |-> IF x \in saving THEN 0 ELSE age[x]]
  /\ pack' = [d \in Objects |-> IF pack[d] = 0 THEN 0 ELSE pack[d] - 1]
  /\ packsAhead' = [x \in Items |-> IF x \in saving THEN 0 ELSE packsAhead[x]]
  /\ saving' = {}
  /\ UNCHANGED <<flushRequest, tick, untilTick, saveLeft, failures>>

\* The error is logged; nothing asks for another flush.
FlushFails ==
  /\ saving # {}
  /\ saveLeft = 0
  /\ IF saving \in Refused
       THEN UNCHANGED failures
       ELSE failures < MaxFailures /\ failures' = failures + 1
  /\ packsAhead' = [x \in Items |-> IF x \in Pending THEN Capped(packsAhead[x] + 1)
                                                     ELSE packsAhead[x]]
  /\ saving' = {}
  /\ UNCHANGED <<storeVars, flushRequest, tick, untilTick, saveLeft, age>>

-----------------------------------------------------------------------------
\* The worker does not sleep while it can receive, nor does a save end late.
Idle ==
  IF saving = {} THEN ~(TickTaken \/ flushRequest) ELSE saveLeft > 0

Ready(x) == x \in Pending /\ (x \in Results => Closure[x] \subseteq cas)

\* The clock, with the ticker: a tick is dropped when the channel holds one.
Clock ==
  /\ Idle
  /\ untilTick' = IF untilTick = 1 THEN Interval ELSE untilTick - 1
  /\ tick' = (tick \/ untilTick = 1)
  /\ saveLeft' = IF saveLeft = 0 THEN 0 ELSE saveLeft - 1
  /\ age' = [x \in Items |-> IF Ready(x) THEN Capped(age[x] + 1) ELSE age[x]]
  /\ UNCHANGED <<storeVars, flushRequest, saving, failures, packsAhead>>

FlushEnds == FlushSaved \/ FlushFails

ScheduleNext ==
  \/ \E d \in Objects : StageCAS(d)
  \/ \E v \in Results : StageAction(v)
  \/ BeginFlush
  \/ FlushSaved
  \/ FlushFails
  \/ Clock

\* The worker and the clock go on; results that are uploaded again and again
\* cannot hold the clock.
ScheduleFairness ==
  /\ WF_scheduleVars(BeginFlush) /\ WF_scheduleVars(FlushEnds)
  /\ SF_scheduleVars(Clock)

ScheduleSpec == ScheduleInit /\ [][ScheduleNext]_scheduleVars

FairSchedule == ScheduleSpec /\ ScheduleFairness

-----------------------------------------------------------------------------
(* Type invariant; and the counter that decides about flushes is the size   *)
(* of what is pending, whatever was published, failed or staged twice.      *)
ScheduleTypeOK ==
  /\ Pending \subseteq Items
  /\ Cardinality(Pending) = Len(pendingCAS) + Cardinality(pendingActions)
  /\ cas \subseteq Objects
  /\ pendingBytes = Bytes(Pending)
  /\ flushRequest \in BOOLEAN /\ tick \in BOOLEAN
  /\ untilTick \in 1..Interval
  /\ saving \subseteq Pending
  /\ saveLeft \in 0..MaxSave
  /\ failures \in 0..MaxFailures
  /\ age \in [Items -> 0..MaxCount] /\ packsAhead \in [Items -> 0..MaxCount]
  /\ pack \in [Objects -> Nat]

\* The worker begins a save at least as often.
Round == IF MaxSave > Interval THEN MaxSave ELSE Interval

(* What flushWorker does deliver (pack_store.go:109-122): an item waits one *)
(* round for each pack that leaves before it and its own, one for each      *)
(* flush that failed meanwhile, and for one save; a round is an interval,   *)
(* or a save that is longer.  And the byte counter is exact at every moment.*)
DelayPerPack ==
  /\ ScheduleTypeOK
  /\ \A x \in Pending : age[x] <= packsAhead[x] * Round + MaxSave

(* Whatever is ready is published in the end, by ticks alone if need be;    *)
(* only a refused batch at the head of the order can keep it back.          *)
PublishedUnlessRefused ==
  \A x \in Items : Ready(x) ~> (x \notin Pending \/ Batch \in Refused)
=============================================================================
