----------------------------- MODULE TimingProofs -----------------------------
(***************************************************************************)
(* Proofs about time, for all values of the constants: the deadlines of    *)
(* main.js, main.go and post.js fit together (Lifecycle), and no item      *)
(* waits longer in the pack store than one round for each pack that leaves *)
(* before it (FlushSchedule).                                              *)
(***************************************************************************)
EXTENDS Lifecycle, FlushSchedule, FiniteSetTheorems, SequenceTheorems, TLAPS

-----------------------------------------------------------------------------
(* Lifecycle.                                                               *)

(* What happened in which order: main is ready after the file was written,  *)
(* the file is written when the worker runs, and post comes last.           *)
InOrder ==
  /\ main = "ready" => readyFile = "complete"
  /\ readyFile = "complete" => server \in {"serving", "http", "closing", "final", "exited"}
  /\ server \in {"listening", "serving", "http", "closing", "final"} => worker # "none"
  /\ post # "none" => main # "polling"
  /\ post = "waiting" => main = "ready"

(* A flush that began before stop was closed ends before flushContext. *)
RoundEndsFirst ==
  ~extraRound /\ server = "closing" /\ worker = "flushing" =>
    left["round"] <= left["final"]

(* While post waits, the time that the server still needs at most is less   *)
(* than the time that post still waits.                                     *)
TimeLeft ==
  post = "waiting" /\ ~requestLost /\ ~extraRound =>
    /\ server = "serving" => "request" \in inbox /\ Grace + T < left["wait"]
    /\ server = "http" => left["http"] + T < left["wait"]
    /\ server \in {"closing", "final"} => left["final"] < left["wait"]

LifecycleInv == TypeOK /\ InOrder /\ RoundEndsFirst /\ TimeLeft /\ BudgetSuffices

\* The deadlines that the actions name.
LEMMA TimersAreTimers ==
  /\ "startup" \in Timers /\ "discovery" \in Timers /\ "ticker" \in Timers
  /\ "round" \in Timers /\ "http" \in Timers /\ "final" \in Timers
  /\ "wait" \in Timers
  BY DEF Timers

(* The least that post waits (main.js:160). *)
LEMMA WaitIsLong == Wait \in Nat /\ Grace + T < Wait /\ T < Wait
  BY LifecycleAssumption DEF Wait

\* The initial state satisfies the invariant.
LEMMA LifecycleInitial == Init => LifecycleInv
  <1> SUFFICES ASSUME Init PROVE LifecycleInv
    OBVIOUS
  <1>1. left \in [Timers -> Nat]
    BY LifecycleAssumption DEF Init
  <1>2. left["http"] = 0 /\ left["final"] = 0 /\ left["round"] = 0
    BY TimersAreTimers DEF Init
  <1>3. left["http"] <= Grace /\ left["final"] <= T /\ left["round"] <= T
    BY <1>2, LifecycleAssumption
  <1>4. TypeOK
    BY <1>1, <1>3, Zenon DEF Init, TypeOK
  <1> QED
    BY <1>4 DEF Init, LifecycleInv, InOrder, RoundEndsFirst, TimeLeft, BudgetSuffices

\* The main step keeps the invariant: it is ready only after the file was written.
LEMMA MainPreserves == LifecycleInv /\ MainStep => LifecycleInv'
  <1> SUFFICES ASSUME LifecycleInv, MainStep PROVE LifecycleInv'
    OBVIOUS
  <1> USE DEF LifecycleInv, channels, history
  <1>0. /\ main' \in {"ready", "failed"}
        /\ UNCHANGED <<server, worker, post, channels, left, tempDir, history>>
    BY DEF MainStep, ReadReadyFile, GiveUpStarting
  <1>1. TypeOK'
    BY <1>0 DEF TypeOK
  <1>2. InOrder'
    BY DEF MainStep, ReadReadyFile, GiveUpStarting, TypeOK, InOrder
  <1>3. RoundEndsFirst' /\ TimeLeft' /\ BudgetSuffices'
    BY DEF MainStep, ReadReadyFile, GiveUpStarting, InOrder, RoundEndsFirst,
           TimeLeft, BudgetSuffices
  <1> QED BY <1>1, <1>2, <1>3

\* The server keeps the invariant: every phase hands on less time than it had.
LEMMA ServerPreserves == LifecycleInv /\ ServerStep => LifecycleInv'
  <1> SUFFICES ASSUME LifecycleInv, ServerStep PROVE LifecycleInv'
    OBVIOUS
  <1> USE LifecycleAssumption, TimersAreTimers
      DEF LifecycleInv, channels, history, Start, Expired
  <1>1. CASE Discover
    BY <1>1 DEF Discover, TypeOK, InOrder, RoundEndsFirst, TimeLeft, BudgetSuffices
  <1>2. CASE Discovered
    BY <1>2 DEF Discovered, TypeOK, InOrder, RoundEndsFirst, TimeLeft, BudgetSuffices
  <1>3. CASE DiscoveryFails
    BY <1>3 DEF DiscoveryFails, TypeOK, InOrder, RoundEndsFirst, TimeLeft, BudgetSuffices
  <1>4. CASE CreateReadyFile
    BY <1>4 DEF CreateReadyFile, TypeOK, InOrder, RoundEndsFirst, TimeLeft, BudgetSuffices
  <1>5. CASE WriteReadyFile
    BY <1>5 DEF WriteReadyFile, TypeOK, InOrder, RoundEndsFirst, TimeLeft, BudgetSuffices
  <1>6. CASE BeginShutdown
    <2>1. TypeOK' /\ InOrder' /\ RoundEndsFirst' /\ BudgetSuffices'
      BY <1>6 DEF BeginShutdown, TypeOK, InOrder, RoundEndsFirst, BudgetSuffices
    <2>2. TimeLeft'
      BY <1>6 DEF BeginShutdown, TypeOK, TimeLeft
    <2> QED BY <2>1, <2>2
  <1>7. CASE CloseStore
    <2>1. TypeOK' /\ InOrder' /\ BudgetSuffices'
      BY <1>7 DEF CloseStore, TypeOK, InOrder, BudgetSuffices
    <2>2. RoundEndsFirst'
      BY <1>7 DEF CloseStore, TypeOK, RoundEndsFirst
    <2>3. TimeLeft'
      BY <1>7 DEF CloseStore, TypeOK, TimeLeft
    <2> QED BY <2>1, <2>2, <2>3
  <1>8. CASE FinalFlush
    BY <1>8 DEF FinalFlush, TypeOK, InOrder, RoundEndsFirst, TimeLeft, BudgetSuffices
  <1>9. CASE Exit
    BY <1>9 DEF Exit, TypeOK, InOrder, RoundEndsFirst, TimeLeft, BudgetSuffices
  <1> QED
    BY <1>1, <1>2, <1>3, <1>4, <1>5, <1>6, <1>7, <1>8, <1>9 DEF ServerStep

\* The flush worker keeps the invariant, or its further round is on record.
LEMMA WorkerPreserves == LifecycleInv /\ WorkerStep => LifecycleInv'
  <1> SUFFICES ASSUME LifecycleInv, WorkerStep PROVE LifecycleInv'
    OBVIOUS
  <1> USE LifecycleAssumption, TimersAreTimers
      DEF LifecycleInv, channels, history, Start, Expired, StopClosed
  <1>1. CASE Ticker
    BY <1>1 DEF Ticker, TypeOK, InOrder, RoundEndsFirst, TimeLeft, BudgetSuffices
  <1>2. CASE RequestFlush
    BY <1>2 DEF RequestFlush, TypeOK, InOrder, RoundEndsFirst, TimeLeft, BudgetSuffices
  <1>3. CASE BeginRound
    <2>1. TypeOK' /\ InOrder' /\ BudgetSuffices'
      BY <1>3 DEF BeginRound, TypeOK, InOrder, BudgetSuffices
    <2>2. RoundEndsFirst'
      BY <1>3 DEF BeginRound, TypeOK, RoundEndsFirst
    <2>3. TimeLeft'
      BY <1>3 DEF BeginRound, TypeOK, TimeLeft
    <2> QED BY <2>1, <2>2, <2>3
  <1>4. CASE EndRound
    BY <1>4 DEF EndRound, TypeOK, InOrder, RoundEndsFirst, TimeLeft, BudgetSuffices
  <1>5. CASE StopWorker
    BY <1>5 DEF StopWorker, TypeOK, InOrder, RoundEndsFirst, TimeLeft, BudgetSuffices
  <1> QED
    BY <1>1, <1>2, <1>3, <1>4, <1>5 DEF WorkerStep

\* The post step keeps the invariant: it signals only when no time is left.
LEMMA PostPreserves == LifecycleInv /\ PostStep => LifecycleInv'
  <1> SUFFICES ASSUME LifecycleInv, PostStep PROVE LifecycleInv'
    OBVIOUS
  <1> USE LifecycleAssumption, TimersAreTimers, WaitIsLong
      DEF LifecycleInv, channels, history, Start, Expired
  <1>1. CASE PostWithoutState
    BY <1>1 DEF PostWithoutState, TypeOK, InOrder, RoundEndsFirst, TimeLeft, BudgetSuffices
  <1>2. CASE PostRequest
    <2>1. TypeOK' /\ InOrder' /\ RoundEndsFirst' /\ BudgetSuffices'
      BY <1>2 DEF PostRequest, TypeOK, InOrder, RoundEndsFirst, BudgetSuffices
    <2>2. TimeLeft'
      BY <1>2 DEF PostRequest, TypeOK, TimeLeft
    <2> QED BY <2>1, <2>2
  <1>3. CASE ServerStopped
    BY <1>3 DEF ServerStopped, TypeOK, InOrder, RoundEndsFirst, TimeLeft, BudgetSuffices
  <1>4. CASE Signal
    <2>1. TypeOK' /\ InOrder' /\ RoundEndsFirst' /\ TimeLeft'
      BY <1>4 DEF Signal, TypeOK, InOrder, RoundEndsFirst, TimeLeft
    <2>2. server \in {"serving", "http", "closing", "final"}
      BY <1>4 DEF Signal, InOrder
    <2>3. extraRound \/ requestLost
      BY <1>4, <2>2 DEF Signal, TypeOK, TimeLeft
    <2>4. BudgetSuffices'
      BY <1>4, <2>3 DEF Signal, BudgetSuffices
    <2> QED BY <2>1, <2>4
  <1>5. CASE CleanUp
    BY <1>5 DEF CleanUp, TypeOK, InOrder, RoundEndsFirst, TimeLeft, BudgetSuffices
  <1> QED
    BY <1>1, <1>2, <1>3, <1>4, <1>5 DEF PostStep

(* Time takes the same from the server's deadlines and from post's, and     *)
(* none of it while the server has something to do at once.                 *)
LEMMA TickPreserves == LifecycleInv /\ Tick => LifecycleInv'
  <1> SUFFICES ASSUME LifecycleInv, Tick PROVE LifecycleInv'
    OBVIOUS
  <1> USE LifecycleAssumption, TimersAreTimers
      DEF LifecycleInv, channels, history, Expired
  <1>1. TypeOK'
    BY DEF Tick, TypeOK
  <1>2. InOrder' /\ BudgetSuffices'
    BY DEF Tick, InOrder, BudgetSuffices
  <1>3. \A t \in Timers : /\ left[t] \in Nat
                          /\ left[t] > 0 => left'[t] = left[t] - 1
                          /\ left[t] = 0 => left'[t] = 0
    BY DEF Tick, TypeOK
  <1>4. server = "closing" => worker = "flushing" /\ left["round"] > 0
    BY DEF Tick, ServerWaits, WorkerWaits, StopClosed, InOrder, TypeOK
  <1>5. RoundEndsFirst'
    BY <1>3, <1>4 DEF Tick, RoundEndsFirst
  <1>6. post = "waiting" => left["wait"] > 0
    BY <1>3 DEF Tick, PostWaits
  <1>7. /\ server = "http" => left["http"] > 0
        /\ server = "final" => left["final"] > 0
        /\ server = "serving" => inbox = {}
    BY <1>3 DEF Tick, ServerWaits
  <1>8. ~extraRound /\ server = "closing" => left["final"] > 0
    BY <1>3, <1>4 DEF RoundEndsFirst
  <1>9. TimeLeft'
    BY <1>3, <1>6, <1>7, <1>8 DEF Tick, TimeLeft
  <1> QED BY <1>1, <1>2, <1>5, <1>9

\* Every reachable state satisfies the invariant.
LEMMA LifecycleInvariant == Spec => []LifecycleInv
  <1>1. LifecycleInv /\ [Next]_vars => LifecycleInv'
    <2>1. LifecycleInv /\ UNCHANGED vars => LifecycleInv'
      BY DEF vars, channels, history, LifecycleInv, TypeOK, InOrder,
             RoundEndsFirst, TimeLeft, BudgetSuffices
    <2> QED
      BY <2>1, MainPreserves, ServerPreserves, WorkerPreserves, PostPreserves,
         TickPreserves DEF Next
  <1> QED BY <1>1, LifecycleInitial, PTL DEF Spec

(* Types, and deadlines that are never further away than they were set:     *)
(* TypeOK for every timeout.                                                *)
THEOREM LifecycleTypes == Spec => []TypeOK
  <1>1. LifecycleInv => TypeOK
    BY DEF LifecycleInv
  <1> QED BY <1>1, LifecycleInvariant, PTL

(* The deadlines of the worker's flush, of the final flush and of post stay *)
(* in this order, for every timeout: DeadlinesNest.                         *)
THEOREM DeadlinesAreNested == Spec => []DeadlinesNest
  <1>1. LifecycleInv => DeadlinesNest
    BY DEF LifecycleInv, RoundEndsFirst, TimeLeft, DeadlinesNest
  <1> QED BY <1>1, LifecycleInvariant, PTL

(* The time that main.js:160 computes is enough for every backend timeout,  *)
(* as long as the request arrives and stop is taken at once:                *)
(* BudgetSuffices.                                                          *)
THEOREM PostWaitsLongEnough == Spec => []BudgetSuffices
  <1>1. LifecycleInv => BudgetSuffices
    BY DEF LifecycleInv
  <1> QED BY <1>1, LifecycleInvariant, PTL

-----------------------------------------------------------------------------
(* The inductive invariant of FlushSchedule.                                *)

PendingObjects == {pendingCAS[i] : i \in 1..Len(pendingCAS)}

ScheduleTypes ==
  /\ flushRequest \in BOOLEAN /\ tick \in BOOLEAN
  /\ untilTick \in 1..Interval
  /\ saveLeft \in 0..MaxSave
  /\ failures \in 0..MaxFailures
  /\ age \in [Items -> 0..MaxCount] /\ packsAhead \in [Items -> 0..MaxCount]
  /\ pack \in [Objects -> Nat]
  /\ cas \subseteq Objects

\* An object is pending once, and what is pending is what was counted.
OrderInv ==
  /\ pendingCAS \in Seq(Objects)
  /\ \A i, j \in 1..Len(pendingCAS) : pendingCAS[i] = pendingCAS[j] => i = j
  /\ pendingActions \subseteq Results /\ IsFiniteSet(pendingActions)
  /\ pendingBytes = Bytes(Pending)

\* The pending objects leave in their order, and each is in the pack that the
\* ones before it leave to it.
PacksInv ==
  /\ \A d \in Objects : pack[d] = 0 <=> d \notin PendingObjects
  /\ \A i, j \in 1..Len(pendingCAS) : i <= j => pack[pendingCAS[i]] <= pack[pendingCAS[j]]
  /\ \A i \in 1..Len(pendingCAS) : pack[pendingCAS[i]] = PackAfter(i - 1, pendingCAS[i])

\* Nothing is staged while a batch is saved.
SavingInv == saving # {} => saving = Batch

\* The number of batches that leave until an item has left.
Left(x) == IF x \in Objects THEN pack[x] ELSE 1

Budget(n) == n * Round

\* An age that n rounds allow: until the next tick, or until the end of a save.
InTime(waited, n) ==
  /\ saving = {} => waited + (IF tick THEN 0 ELSE untilTick) <= Budget(n)
  /\ saving # {} => /\ waited + saveLeft <= Budget(n) + MaxSave
                    /\ ~tick => waited + untilTick <= Budget(n) + Round

\* An item that is not ready does not wait; and one whose packs were counted to
\* the end has waited for those that have left already.
Waits(x) ==
  packsAhead[x] < MaxCount =>
    /\ Left(x) <= packsAhead[x]
    /\ InTime(age[x], packsAhead[x] + 1 - Left(x))

WaitInv ==
  /\ \A x \in Items : ~Ready(x) => age[x] = 0
  /\ \A x \in Pending : Waits(x)

ScheduleInv == ScheduleTypes /\ OrderInv /\ PacksInv /\ SavingInv /\ WaitInv

-----------------------------------------------------------------------------
(* Sizes of sets of items.                                                  *)

BytesOf(x) == {x} \X (1..Size[x])
ByteSet(S) == UNION {BytesOf(x) : x \in S}

LEMMA ByteSetIs ==
  ASSUME NEW S
  PROVE  /\ Bytes(S) = Cardinality(ByteSet(S))
         /\ \A b : b \in ByteSet(S) <=> \E x \in S : b \in BytesOf(x)
<1>1. Bytes(S) = Cardinality(ByteSet(S)) BY DEF Bytes, ByteSet, BytesOf
<1>2. ASSUME NEW b PROVE b \in ByteSet(S) <=> \E x \in S : b \in BytesOf(x)
  BY DEF ByteSet
<1> QED BY <1>1, <1>2

\* The bytes of an item are as many as its size, and its own.
LEMMA ItemBytes ==
  ASSUME NEW x \in Items
  PROVE  IsFiniteSet(BytesOf(x)) /\ Cardinality(BytesOf(x)) = Size[x]
<1>1. Size[x] \in Nat BY FlushScheduleAssumption
<1>2. IsFiniteSet(1..Size[x]) /\ Cardinality(1..Size[x]) = Size[x]
  BY <1>1, FS_Interval
<1>3. IsFiniteSet({x}) /\ Cardinality({x}) = 1 BY FS_Singleton
<1>4. Cardinality({x} \X (1..Size[x])) = 1 * Size[x] /\ IsFiniteSet({x} \X (1..Size[x]))
  <2>1. PICK A, B : A = {x} /\ B = 1..Size[x] OBVIOUS
  <2>2. /\ IsFiniteSet(A \X B)
        /\ Cardinality(A \X B) = Cardinality(A) * Cardinality(B)
    BY <1>2, <1>3, <2>1, FS_Product
  <2> QED BY <1>2, <1>3, <2>1, <2>2, Zenon
<1>5. 1 * Size[x] = Size[x] BY <1>1
<1> QED BY <1>4, <1>5, Zenon DEF BytesOf

LEMMA BytesDiffer ==
  ASSUME NEW x, NEW y, NEW b \in BytesOf(x), b \in BytesOf(y)
  PROVE  x = y
BY DEF BytesOf

LEMMA BytesAreFinite ==
  ASSUME NEW S \in SUBSET Items, IsFiniteSet(S)
  PROVE  IsFiniteSet(ByteSet(S)) /\ Bytes(S) \in Nat
<1>1. PICK R : R = {BytesOf(x) : x \in S} OBVIOUS
<1>2. PICK f : f = [x \in S |-> BytesOf(x)] OBVIOUS
<1>3. f \in Surjection(S, R) BY <1>1, <1>2 DEF Surjection
<1>4. IsFiniteSet(R) BY <1>3, FS_Surjection
<1>5. \A W \in R : IsFiniteSet(W) BY <1>1, ItemBytes
<1>6. IsFiniteSet(UNION R) BY <1>4, <1>5, FS_UNION
<1>7. IsFiniteSet(ByteSet(S)) BY <1>1, <1>6 DEF ByteSet
<1> QED BY <1>7, ByteSetIs, FS_CardinalityType

\* The size of a set grows by the size of an item that is new in it.
LEMMA BytesOfOneMore ==
  ASSUME NEW S \in SUBSET Items, IsFiniteSet(S), NEW x \in Items, x \notin S
  PROVE  Bytes(S \cup {x}) = Bytes(S) + Size[x]
<1>1. ByteSet(S \cup {x}) = ByteSet(S) \cup BytesOf(x)
  BY ByteSetIs
<1>2. ByteSet(S) \cap BytesOf(x) = {} BY ByteSetIs, BytesDiffer
<1>3. IsFiniteSet(ByteSet(S)) BY BytesAreFinite
<1>4. Cardinality(ByteSet(S) \cup BytesOf(x))
        = Cardinality(ByteSet(S)) + Cardinality(BytesOf(x)) - Cardinality({})
  BY <1>2, <1>3, ItemBytes, FS_Union
<1>5. Cardinality({}) = 0 BY FS_EmptySet
<1>6. Cardinality(ByteSet(S)) \in Nat BY <1>3, FS_CardinalityType
<1>7. Size[x] \in Nat BY FlushScheduleAssumption
<1>8. PICK R : R = S \cup {x} OBVIOUS
<1>9. Bytes(R) = Cardinality(ByteSet(R)) /\ Bytes(S) = Cardinality(ByteSet(S))
  BY ByteSetIs
<1>10. Cardinality(ByteSet(R)) = Cardinality(ByteSet(S)) + Size[x]
  <2>1. Cardinality(BytesOf(x)) = Size[x] BY ItemBytes
  <2>2. PICK c \in Nat : c = Cardinality(ByteSet(S)) BY <1>6
  <2>3. Cardinality(ByteSet(S) \cup BytesOf(x)) = c + Size[x] - 0
    BY <1>4, <1>5, <2>1, <2>2, Zenon
  <2>4. c + Size[x] - 0 = c + Size[x] BY <1>7
  <2>5. ByteSet(R) = ByteSet(S) \cup BytesOf(x) BY <1>1, <1>8
  <2> QED BY <2>2, <2>3, <2>4, <2>5, Zenon
<1> QED BY <1>8, <1>9, <1>10

LEMMA BytesOfTheRest ==
  ASSUME NEW S \in SUBSET Items, IsFiniteSet(S), NEW R \in SUBSET S
  PROVE  Bytes(S \ R) = Bytes(S) - Bytes(R)
<1>1. ByteSet(S \ R) = ByteSet(S) \ ByteSet(R)
  BY ByteSetIs, BytesDiffer
<1>2. ByteSet(S) \cap ByteSet(R) = ByteSet(R) BY ByteSetIs
<1>3. IsFiniteSet(ByteSet(S)) BY BytesAreFinite
<1>4. Cardinality(ByteSet(S) \ ByteSet(R))
        = Cardinality(ByteSet(S)) - Cardinality(ByteSet(S) \cap ByteSet(R))
  BY <1>3, FS_Difference
<1> QED BY <1>1, <1>2, <1>4, ByteSetIs

-----------------------------------------------------------------------------
(* What is pending.                                                         *)

LEMMA PendingIs ==
  ASSUME OrderInv
  PROVE  /\ Len(pendingCAS) \in Nat
         /\ \A i \in 1..Len(pendingCAS) : pendingCAS[i] \in Objects
         /\ PendingObjects \subseteq Objects
         /\ IsFiniteSet(PendingObjects) /\ Cardinality(PendingObjects) = Len(pendingCAS)
         /\ Pending = PendingObjects \cup pendingActions
         /\ PendingObjects \cap pendingActions = {}
         /\ Pending \subseteq Items /\ IsFiniteSet(Pending)
         /\ Cardinality(Pending) = Len(pendingCAS) + Cardinality(pendingActions)
<1>1. Len(pendingCAS) \in Nat /\ \A i \in 1..Len(pendingCAS) : pendingCAS[i] \in Objects
  BY LenProperties, ElementOfSeq DEF OrderInv
<1>2. PICK n \in Nat : n = Len(pendingCAS) BY <1>1
<1>3. PICK f : f = [i \in 1..n |-> pendingCAS[i]] OBVIOUS
<1>4. f \in Bijection(1..n, PendingObjects)
  <2>1. f \in [1..n -> PendingObjects] BY <1>2, <1>3 DEF PendingObjects
  <2>2. IsInjective(f) BY <1>2, <1>3 DEF OrderInv, IsInjective
  <2>3. \A d \in PendingObjects : \E i \in 1..n : f[i] = d
    BY <1>2, <1>3 DEF PendingObjects
  <2> QED BY <2>1, <2>2, <2>3 DEF Bijection, Injection, Surjection
<1>5. IsFiniteSet(1..n) /\ Cardinality(1..n) = n BY FS_Interval
<1>6. IsFiniteSet(PendingObjects) /\ Cardinality(PendingObjects) = n
  BY <1>4, <1>5, FS_Bijection DEF ExistsBijection
<1>7. PendingObjects \subseteq Objects BY <1>1 DEF PendingObjects
<1>8. Pending = PendingObjects \cup pendingActions BY DEF Pending, PendingObjects
<1>9. PendingObjects \cap pendingActions = {} /\ Pending \subseteq Items
  BY <1>7, <1>8, FlushScheduleAssumption DEF OrderInv, Items
<1>10. /\ IsFiniteSet(PendingObjects \cup pendingActions)
       /\ Cardinality(PendingObjects \cup pendingActions)
            = Cardinality(PendingObjects) + Cardinality(pendingActions) - Cardinality({})
  BY <1>6, <1>9, FS_Union DEF OrderInv
<1>11. Cardinality({}) = 0 BY FS_EmptySet
<1>12. Cardinality(pendingActions) \in Nat BY FS_CardinalityType DEF OrderInv
<1>13. Cardinality(Pending) = Len(pendingCAS) + Cardinality(pendingActions)
  <2>1. PICK m \in Nat : m = Cardinality(pendingActions) BY <1>12
  <2>2. Cardinality(Pending) = n + m - 0 BY <1>6, <1>8, <1>10, <1>11, <2>1, Zenon
  <2>3. n + m - 0 = n + m OBVIOUS
  <2> QED BY <1>2, <2>1, <2>2, <2>3, Zenon
<1> QED BY <1>1, <1>2, <1>6, <1>7, <1>8, <1>9, <1>10, <1>13

\* The first positions that have a property are a prefix.
LEMMA PrefixIs ==
  ASSUME NEW n \in Nat, NEW D \in SUBSET (1..n),
         \A i \in D : \A j \in 1..i : j \in D
  PROVE  \E k \in 0..n : D = 1..k
<1>1. IsFiniteSet(1..n) /\ Cardinality(1..n) = n BY FS_Interval
<1>2. IsFiniteSet(D) /\ Cardinality(D) <= n BY <1>1, FS_Subset
<1>3. PICK k \in Nat : k = Cardinality(D) BY <1>2, FS_CardinalityType
<1>4. IsFiniteSet(1..k) /\ Cardinality(1..k) = k BY FS_Interval
<1>5. ASSUME NEW i \in D PROVE i \in 1..k
  <2>1. i \in Nat /\ i >= 1 /\ 1..i \subseteq D BY <1>5
  <2>2. IsFiniteSet(1..i) /\ Cardinality(1..i) = i BY <2>1, FS_Interval
  <2>3. i <= k BY <1>2, <1>3, <2>1, <2>2, FS_Subset
  <2> QED BY <2>1, <2>3
<1>6. D = 1..k BY <1>3, <1>4, <1>5, FS_Subset
<1> QED BY <1>2, <1>3, <1>6

\* The next batch takes the objects whose pack is the next one: the first ones
\* of the order, at least one if there is any.
LEMMA SelectionIs ==
  ASSUME ScheduleTypes, OrderInv, PacksInv
  PROVE  \E n \in 0..Len(pendingCAS) :
           /\ \A i \in 1..Len(pendingCAS) : pack[pendingCAS[i]] = 1 <=> i <= n
           /\ SelectCAS = {pendingCAS[i] : i \in 1..n}
           /\ n = 0 => Len(pendingCAS) = 0
<1>1. Len(pendingCAS) \in Nat /\ \A i \in 1..Len(pendingCAS) : pendingCAS[i] \in Objects
  BY PendingIs
<1>2. PICK len \in Nat : len = Len(pendingCAS) BY <1>1
<1>3. ASSUME NEW i \in 1..len PROVE pack[pendingCAS[i]] \in Nat /\ pack[pendingCAS[i]] >= 1
  BY <1>1, <1>2 DEF ScheduleTypes, PacksInv, PendingObjects
<1>4. PICK D : D = {i \in 1..len : pack[pendingCAS[i]] = 1} OBVIOUS
<1>5. ASSUME NEW i \in D, NEW j \in 1..i PROVE j \in D
  <2>1. i \in 1..len /\ j \in 1..len /\ j <= i /\ pack[pendingCAS[i]] = 1 BY <1>4
  <2>2. pack[pendingCAS[j]] <= pack[pendingCAS[i]] BY <1>2, <2>1 DEF PacksInv
  <2> QED BY <1>3, <1>4, <2>1, <2>2
<1>6. PICK n \in 0..len : D = 1..n BY <1>4, <1>5, PrefixIs
<1>7. ASSUME NEW i \in 1..len PROVE pack[pendingCAS[i]] = 1 <=> i <= n
  BY <1>4, <1>6
<1>8. n = 0 => len = 0
  <2>1. len # 0 => 1 \in 1..len /\ pack[pendingCAS[1]] = 1
    BY <1>2 DEF PacksInv, PackAfter
  <2> QED BY <1>7, <2>1
<1>9. ASSUME NEW k \in 1..len PROVE Admits(k) \/ k > n
  <2>1. CASE k = 1 BY <2>1 DEF Admits
  <2>2. CASE k # 1 /\ k <= n
    <3>1. k - 1 \in 1..len /\ k - 1 <= n BY <2>2
    <3>2. pack[pendingCAS[k]] = 1 /\ pack[pendingCAS[k - 1]] = 1 BY <1>7, <2>2, <3>1
    <3>3. pack[pendingCAS[k]] = PackAfter(k - 1, pendingCAS[k]) BY <1>2 DEF PacksInv
    <3>4. Fits(Mates(k - 1), pendingCAS[k]) BY <2>2, <3>2, <3>3 DEF PackAfter
    <3>5. Mates(k - 1) = {pendingCAS[i] : i \in 1..(k - 1)}
      <4>1. \A j \in 1..(k - 1) : j \in 1..len /\ pack[pendingCAS[j]] = 1 BY <1>7, <2>2
      <4> QED BY <3>2, <4>1 DEF Mates
    <3> QED BY <3>4, <3>5 DEF Admits
  <2> QED BY <2>1, <2>2
<1>10. ASSUME n < len PROVE ~Admits(n + 1)
  <2>1. n \in 1..len /\ n + 1 \in 1..len /\ n + 1 # 1 BY <1>8, <1>10
  <2>2. pack[pendingCAS[n]] = 1 /\ pack[pendingCAS[n + 1]] # 1 BY <1>7, <2>1
  <2>3. pack[pendingCAS[n + 1]] = PackAfter(n, pendingCAS[n + 1])
    <3>1. pack[pendingCAS[n + 1]] = PackAfter((n + 1) - 1, pendingCAS[n + 1])
      BY <1>2, <2>1 DEF PacksInv
    <3>2. (n + 1) - 1 = n OBVIOUS
    <3> QED BY <3>1, <3>2
  <2>4. ~Fits(Mates(n), pendingCAS[n + 1]) BY <2>1, <2>2, <2>3 DEF PackAfter
  <2>5. Mates(n) = {pendingCAS[i] : i \in 1..n}
    <3>1. \A j \in 1..n : j \in 1..len /\ pack[pendingCAS[j]] = 1 BY <1>7, <2>1
    <3> QED BY <2>2, <3>1 DEF Mates
  <2>6. (n + 1) - 1 = n OBVIOUS
  <2> QED BY <2>1, <2>4, <2>5, <2>6 DEF Admits
<1>11. FirstPack = 1..n
  <2>1. ASSUME NEW m \in 1..n PROVE m \in FirstPack
    <3>1. m \in 1..len /\ \A k \in 1..m : k \in 1..len /\ ~(k > n) OBVIOUS
    <3> QED BY <1>2, <1>9, <3>1 DEF FirstPack
  <2>2. ASSUME NEW m \in FirstPack PROVE m \in 1..n
    <3>1. m \in 1..len /\ \A k \in 1..m : Admits(k) BY <1>2 DEF FirstPack
    <3>2. m > n => n < len /\ n + 1 \in 1..m BY <3>1
    <3> QED BY <1>10, <3>1, <3>2
  <2> QED BY <2>1, <2>2
<1>12. SelectCAS = {pendingCAS[i] : i \in 1..n} BY <1>11 DEF SelectCAS
<1> QED BY <1>2, <1>6, <1>7, <1>8, <1>12

-----------------------------------------------------------------------------
(* Time.                                                                    *)

LEMMA Constants ==
  /\ Interval \in Nat /\ Interval >= 1 /\ MaxSave \in Nat /\ MaxCount \in Nat
  /\ Round \in Nat /\ Interval <= Round /\ MaxSave <= Round
BY FlushScheduleAssumption DEF Round

LEMMA BudgetIs ==
  ASSUME NEW n \in Nat
  PROVE  Budget(n) \in Nat /\ Budget(n + 1) = Budget(n) + Round
<1>1. n * Round \in Nat BY Constants
<1>2. (n + 1) * Round = n * Round + Round BY Constants
<1> QED BY <1>1, <1>2 DEF Budget

LEMMA BudgetGrows ==
  ASSUME NEW n \in Nat, NEW m \in Nat, n <= m
  PROVE  Budget(n) <= Budget(m)
<1>1. PICK k \in Nat : m = n + k
  <2>1. m - n \in Nat /\ m = n + (m - n) OBVIOUS
  <2> QED BY <2>1
<1>2. Round \in Nat BY Constants
<1>3. m * Round = n * Round + k * Round BY <1>1, <1>2
<1>4. n * Round \in Nat /\ k * Round \in Nat BY <1>2
<1> QED BY <1>3, <1>4 DEF Budget

LEMMA OneRound == Budget(1) = Round
BY Constants DEF Budget

LEMMA CappedIs ==
  ASSUME NEW n \in Nat
  PROVE  Capped(n) \in 0..MaxCount /\ Capped(n) <= n /\ (Capped(n) < MaxCount => Capped(n) = n)
BY Constants DEF Capped

\* The types of what Waits compares.
LEMMA ItemTypes ==
  ASSUME ScheduleTypes, OrderInv, PacksInv, NEW x \in Items
  PROVE  /\ age[x] \in Nat /\ packsAhead[x] \in Nat /\ packsAhead[x] <= MaxCount
         /\ Left(x) \in Nat /\ (x \in Pending => Left(x) >= 1)
<1>1. age[x] \in Nat /\ packsAhead[x] \in Nat /\ packsAhead[x] <= MaxCount
  BY Constants DEF ScheduleTypes
<1>2. CASE x \in Objects
  <2>1. x \notin pendingActions BY <1>2, FlushScheduleAssumption DEF OrderInv
  <2>2. x \in Pending => pack[x] # 0 BY <1>2, <2>1, PendingIs DEF PacksInv
  <2> QED BY <1>1, <1>2, <2>2 DEF Left, ScheduleTypes
<1>3. CASE x \notin Objects BY <1>1, <1>3 DEF Left
<1> QED BY <1>2, <1>3

\* What is ready is pending.
LEMMA ReadyIs ==
  ASSUME OrderInv, NEW x \in Items
  PROVE  /\ Ready(x) => x \in Pending
         /\ x \in PendingObjects => Ready(x)
<1>1. x \in PendingObjects => x \in Pending /\ x \notin Results
  BY PendingIs, FlushScheduleAssumption
<1> QED BY <1>1 DEF Ready

-----------------------------------------------------------------------------
(* Staging.                                                                 *)

\* What is new has not waited, and one round is enough.
LEMMA NewIsInTime ==
  ASSUME ScheduleTypes, saving = {}, UNCHANGED <<saving, tick, untilTick>>
  PROVE  InTime(0, 1)'
<1>1. untilTick \in Nat /\ untilTick <= Round BY Constants DEF ScheduleTypes
<1>2. 0 + (IF tick THEN 0 ELSE untilTick) <= Round BY <1>1, Constants
<1> QED BY <1>2, OneRound DEF InTime

\* Nothing changes for the items that are pending already.
LEMMA OthersWait ==
  ASSUME NEW x, Waits(x), UNCHANGED <<saving, tick, untilTick, saveLeft, age[x]>>,
         packsAhead'[x] = packsAhead[x], Left(x)' = Left(x)
  PROVE  Waits(x)'
BY DEF Waits, InTime

LEMMA MatesKept ==
  ASSUME NEW n \in Nat,
         \A i \in 1..n : pendingCAS'[i] = pendingCAS[i]
                          /\ pack'[pendingCAS'[i]] = pack[pendingCAS[i]]
  PROVE  /\ Mates(n)' = Mates(n)
         /\ \A d : PackAfter(n, d)' = PackAfter(n, d)
<1>1. CASE n = 0
  <2>1. \A i : i \notin 1..n BY <1>1
  <2> QED BY <1>1, <2>1 DEF Mates, PackAfter
<1>2. CASE n # 0
  <2>1. n \in 1..n BY <1>2
  <2>2. Mates(n)' = Mates(n) BY <2>1 DEF Mates
  <2> QED BY <1>2, <2>1, <2>2 DEF PackAfter
<1> QED BY <1>1, <1>2

\* An object that comes last is in the pack of the one before it, or the next.
LEMMA LastPack ==
  ASSUME ScheduleTypes, OrderInv, PacksInv, NEW d
  PROVE  /\ PackAfter(Len(pendingCAS), d) \in Nat /\ PackAfter(Len(pendingCAS), d) >= 1
         /\ \A i \in 1..Len(pendingCAS) :
              pack[pendingCAS[i]] <= PackAfter(Len(pendingCAS), d)
<1>1. PICK n \in Nat : n = Len(pendingCAS) BY PendingIs
<1>2. CASE n = 0 BY <1>1, <1>2 DEF PackAfter
<1>3. CASE n # 0
  <2>1. n \in 1..n BY <1>3
  <2>2. pack[pendingCAS[n]] \in Nat /\ pack[pendingCAS[n]] >= 1
    BY <1>1, <2>1, PendingIs DEF ScheduleTypes, PacksInv, PendingObjects
  <2>3. \A i \in 1..n : pack[pendingCAS[i]] <= pack[pendingCAS[n]] /\ pack[pendingCAS[i]] \in Nat
    BY <1>1, <2>1, PendingIs DEF ScheduleTypes, PacksInv
  <2> QED BY <1>1, <1>3, <2>2, <2>3 DEF PackAfter
<1> QED BY <1>2, <1>3

LEMMA StageCASStep ==
  ASSUME ScheduleInv, NEW d \in Objects, StageCAS(d)
  PROVE  ScheduleInv'
<1>1. ScheduleTypes /\ OrderInv /\ PacksInv /\ SavingInv /\ WaitInv BY DEF ScheduleInv
<1>2. /\ saving = {} /\ d \notin Pending
      /\ pendingCAS' = Append(pendingCAS, d)
      /\ pendingBytes' = pendingBytes + Size[d]
      /\ pack' = [pack EXCEPT ![d] = PackAfter(Len(pendingCAS), d)]
      /\ packsAhead' = [packsAhead EXCEPT ![d] = Capped(PackAfter(Len(pendingCAS), d))]
      /\ flushRequest' = (flushRequest \/ pendingBytes' >= TargetSize)
      /\ UNCHANGED <<pendingActions, cas, tick, untilTick, saving, saveLeft, failures, age>>
  BY DEF StageCAS, MuFree, requestFlushLocked
<1>3. PICK n \in Nat : n = Len(pendingCAS) BY <1>1, PendingIs
<1>4. /\ pendingCAS' \in Seq(Objects) /\ Len(pendingCAS') = n + 1
      /\ \A i \in 1..n : pendingCAS'[i] = pendingCAS[i]
      /\ pendingCAS'[n + 1] = d
  BY <1>1, <1>2, <1>3 DEF OrderInv
<1>5. \A i \in 1..n : pendingCAS[i] \in Objects /\ pendingCAS[i] # d
  BY <1>1, <1>2, <1>3, PendingIs DEF PendingObjects
<1>6. PendingObjects' = PendingObjects \cup {d} /\ Pending' = Pending \cup {d}
  <2>1. PendingObjects' = PendingObjects \cup {d}
    <3>1. \A i \in 1..(n + 1) : i \in 1..n \/ i = n + 1 OBVIOUS
    <3>2. \A i \in 1..n : i \in 1..(n + 1) OBVIOUS
    <3>3. n + 1 \in 1..(n + 1) OBVIOUS
    <3> QED BY <1>3, <1>4, <3>1, <3>2, <3>3 DEF PendingObjects
  <2> QED BY <1>2, <2>1 DEF Pending, PendingObjects
<1>7. PICK p \in Nat : p = PackAfter(n, d) BY <1>1, <1>3, LastPack
<1>8. /\ p >= 1 /\ \A i \in 1..n : pack[pendingCAS[i]] <= p
  BY <1>1, <1>3, <1>7, LastPack
<1>9. /\ pack' \in [Objects -> Nat] /\ pack'[d] = p
      /\ \A o \in Objects : o # d => pack'[o] = pack[o]
  BY <1>1, <1>2, <1>3, <1>7 DEF ScheduleTypes
<1>10. d \in Items BY DEF Items
<1>11. /\ packsAhead' \in [Items -> 0..MaxCount] /\ packsAhead'[d] = Capped(p)
       /\ \A x \in Items : x # d => packsAhead'[x] = packsAhead[x]
  BY <1>1, <1>2, <1>3, <1>7, <1>10, CappedIs DEF ScheduleTypes
<1>12. ScheduleTypes'
  BY <1>1, <1>2, <1>9, <1>11, Zenon DEF ScheduleTypes
<1>13. OrderInv'
  <2>1. \A i, j \in 1..Len(pendingCAS') : pendingCAS'[i] = pendingCAS'[j] => i = j
    <3>1. ASSUME NEW i \in 1..(n + 1), NEW j \in 1..(n + 1), pendingCAS'[i] = pendingCAS'[j]
          PROVE  i = j
      <4>1. (i \in 1..n \/ i = n + 1) /\ (j \in 1..n \/ j = n + 1) OBVIOUS
      <4>2. CASE i \in 1..n /\ j \in 1..n BY <1>1, <1>3, <1>4, <3>1, <4>2 DEF OrderInv
      <4> QED BY <1>4, <1>5, <3>1, <4>1, <4>2
    <3> QED BY <1>4, <3>1
  <2>2. Bytes(Pending \cup {d}) = Bytes(Pending) + Size[d]
    BY <1>1, <1>2, <1>10, PendingIs, BytesOfOneMore
  <2> QED BY <1>1, <1>2, <1>4, <1>6, <2>1, <2>2 DEF OrderInv
<1>14. PacksInv'
  <2>1. ASSUME NEW o \in Objects PROVE pack'[o] = 0 <=> o \notin PendingObjects'
    BY <1>1, <1>6, <1>8, <1>9 DEF PacksInv
  <2>2. ASSUME NEW i \in 1..(n + 1), NEW j \in 1..(n + 1), i <= j
        PROVE  pack'[pendingCAS'[i]] <= pack'[pendingCAS'[j]]
    <3>1. CASE j \in 1..n
      <4>1. i \in 1..n BY <2>2, <3>1
      <4> QED BY <1>1, <1>3, <1>4, <1>5, <1>9, <2>2, <3>1, <4>1 DEF PacksInv
    <3>2. CASE j = n + 1 /\ i \in 1..n BY <1>4, <1>5, <1>8, <1>9, <3>2
    <3>3. CASE j = n + 1 /\ i = n + 1 BY <1>4, <1>9, <3>3
    <3> QED BY <2>2, <3>1, <3>2, <3>3
  <2>3. ASSUME NEW i \in 1..(n + 1)
        PROVE  pack'[pendingCAS'[i]] = PackAfter(i - 1, pendingCAS[i])'
    <3>1. PICK k \in 0..n : k = i - 1 OBVIOUS
    <3>2. \A o : PackAfter(k, o)' = PackAfter(k, o)
      BY <1>4, <1>5, <1>9, <3>1, MatesKept
    <3>3. PICK o : o = pendingCAS'[i] OBVIOUS
    <3>4. pack'[o] = PackAfter(k, o)
      <4>1. CASE i \in 1..n
        <5>1. o = pendingCAS[i] /\ pack'[o] = pack[o] BY <1>4, <1>5, <1>9, <3>3, <4>1
        <5> QED BY <1>1, <1>3, <3>1, <4>1, <5>1 DEF PacksInv
      <4>2. CASE i = n + 1 BY <1>4, <1>7, <1>9, <3>1, <3>3, <4>2
      <4> QED BY <4>1, <4>2
    <3>5. PackAfter(k, o)' = PackAfter(i - 1, pendingCAS[i])'
      BY <3>1, <3>3 DEF PackAfter, Mates
    <3> QED BY <3>2, <3>3, <3>4, <3>5
  <2> QED BY <1>4, <2>1, <2>2, <2>3 DEF PacksInv
<1>15. SavingInv' BY <1>2 DEF SavingInv
<1>16. WaitInv'
  <2>1. ASSUME NEW x \in Items, ~Ready(x)' PROVE age'[x] = 0
    <3>1. CASE x \in Pending
      <4>1. Ready(x)' <=> Ready(x) BY <1>2, <1>6, <3>1 DEF Ready
      <4> QED BY <1>1, <1>2, <2>1, <4>1 DEF WaitInv
    <3>2. CASE x \notin Pending BY <1>1, <1>2, <3>2, ReadyIs DEF WaitInv
    <3> QED BY <3>1, <3>2
  <2>2. Waits(d)'
    <3>1. age'[d] = 0 BY <1>1, <1>2, <1>10, ReadyIs DEF WaitInv
    <3>2. Left(d)' = p BY <1>9 DEF Left
    <3>3. InTime(0, 1)' BY <1>1, <1>2, NewIsInTime
    <3>4. packsAhead'[d] < MaxCount => packsAhead'[d] = p BY <1>11, CappedIs
    <3>5. p + 1 - p = 1 OBVIOUS
    <3> QED BY <3>1, <3>2, <3>3, <3>4, <3>5 DEF Waits, InTime
  <2>3. ASSUME NEW x \in Pending PROVE Waits(x)'
    <3>1. x \in Items /\ x # d BY <1>1, <1>2, <2>3, PendingIs
    <3>2. Left(x)' = Left(x) BY <1>9, <3>1 DEF Left
    <3>3. Waits(x) BY <1>1 DEF WaitInv
    <3> QED BY <1>2, <1>11, <3>1, <3>2, <3>3, OthersWait
  <2> QED BY <1>6, <2>1, <2>2, <2>3 DEF WaitInv
<1> QED BY <1>12, <1>13, <1>14, <1>15, <1>16 DEF ScheduleInv

LEMMA StageActionStep ==
  ASSUME ScheduleInv, NEW v \in Results, StageAction(v)
  PROVE  ScheduleInv'
<1>1. ScheduleTypes /\ OrderInv /\ PacksInv /\ SavingInv /\ WaitInv BY DEF ScheduleInv
<1>2. /\ saving = {} /\ v \notin pendingActions
      /\ pendingActions' = pendingActions \cup {v}
      /\ pendingBytes' = pendingBytes + Size[v]
      /\ packsAhead' = [packsAhead EXCEPT ![v] = Capped(1)]
      /\ flushRequest' = (flushRequest \/ pendingBytes' >= TargetSize)
      /\ UNCHANGED <<pendingCAS, cas, pack, tick, untilTick, saving, saveLeft, failures, age>>
  BY DEF StageAction, MuFree, requestFlushLocked
<1>3. v \in Items /\ v \notin Objects BY FlushScheduleAssumption DEF Items
<1>4. v \notin Pending BY <1>1, <1>2, <1>3, PendingIs
<1>5. PendingObjects' = PendingObjects /\ Pending' = Pending \cup {v}
  BY <1>2 DEF PendingObjects, Pending
<1>6. /\ packsAhead' \in [Items -> 0..MaxCount] /\ packsAhead'[v] = Capped(1)
      /\ \A x \in Items : x # v => packsAhead'[x] = packsAhead[x]
  BY <1>1, <1>2, <1>3, CappedIs DEF ScheduleTypes
<1>7. ScheduleTypes' BY <1>1, <1>2, <1>6, Zenon DEF ScheduleTypes
<1>8. OrderInv'
  <2>1. Bytes(Pending \cup {v}) = Bytes(Pending) + Size[v]
    BY <1>1, <1>3, <1>4, PendingIs, BytesOfOneMore
  <2>2. IsFiniteSet(pendingActions \cup {v}) BY <1>1, FS_AddElement DEF OrderInv
  <2> QED BY <1>1, <1>2, <1>5, <2>1, <2>2 DEF OrderInv
<1>9. PacksInv'
  <2>1. pendingCAS' = pendingCAS /\ pack' = pack BY <1>2
  <2>2. PacksInv' <=> PacksInv BY <1>5, <2>1 DEF PacksInv, PackAfter, Mates
  <2> QED BY <1>1, <2>2
<1>10. SavingInv' BY <1>2 DEF SavingInv
<1>11. WaitInv'
  <2>1. ASSUME NEW x \in Items, ~Ready(x)' PROVE age'[x] = 0
    <3>1. CASE x \in Pending
      <4>1. Ready(x)' <=> Ready(x) BY <1>2, <1>5, <3>1 DEF Ready
      <4> QED BY <1>1, <1>2, <2>1, <4>1 DEF WaitInv
    <3>2. CASE x \notin Pending BY <1>1, <1>2, <3>2, ReadyIs DEF WaitInv
    <3> QED BY <3>1, <3>2
  <2>2. Waits(v)'
    <3>1. age'[v] = 0 BY <1>1, <1>2, <1>3, <1>4, ReadyIs DEF WaitInv
    <3>2. Left(v)' = 1 BY <1>3 DEF Left
    <3>3. InTime(0, 1)' BY <1>1, <1>2, NewIsInTime
    <3>4. packsAhead'[v] < MaxCount => packsAhead'[v] = 1 BY <1>6, CappedIs
    <3> QED BY <3>1, <3>2, <3>3, <3>4 DEF Waits, InTime
  <2>3. ASSUME NEW x \in Pending PROVE Waits(x)'
    <3>1. x \in Items /\ x # v BY <1>1, <1>4, <2>3, PendingIs
    <3>2. Left(x)' = Left(x) BY <1>2 DEF Left
    <3>3. Waits(x) BY <1>1 DEF WaitInv
    <3> QED BY <1>2, <1>6, <3>1, <3>2, <3>3, OthersWait
  <2> QED BY <1>5, <2>1, <2>2, <2>3 DEF WaitInv
<1> QED BY <1>7, <1>8, <1>9, <1>10, <1>11 DEF ScheduleInv

-----------------------------------------------------------------------------
(* The worker and the clock.                                                *)

LEMMA StoreKept ==
  ASSUME UNCHANGED storeVars
  PROVE  /\ (OrderInv <=> OrderInv') /\ (PacksInv <=> PacksInv')
         /\ Pending' = Pending /\ Batch' = Batch
         /\ \A x : Left(x)' = Left(x) /\ (Ready(x)' <=> Ready(x))
<1>1. UNCHANGED <<pendingCAS, pendingActions, cas, pendingBytes, pack>> BY DEF storeVars
<1>2. Pending' = Pending /\ PendingObjects' = PendingObjects
  BY <1>1 DEF Pending, PendingObjects
<1>3. OrderInv <=> OrderInv' BY <1>1, <1>2 DEF OrderInv
<1>4. PacksInv <=> PacksInv' BY <1>1, <1>2 DEF PacksInv, PackAfter, Mates
<1>5. Batch' = Batch BY <1>1 DEF Batch, SelectCAS, SelectActions, FirstPack, Admits
<1>6. ASSUME NEW x PROVE Left(x)' = Left(x) /\ (Ready(x)' <=> Ready(x))
  BY <1>1, <1>2 DEF Left, Ready
<1> QED BY <1>2, <1>3, <1>4, <1>5, <1>6

\* An object in order, or a result, that is ready is in a batch that is empty
\* only when nothing is ready.
LEMMA EmptyBatch ==
  ASSUME ScheduleTypes, OrderInv, PacksInv, Batch = {}, NEW x \in Items
  PROVE  ~Ready(x)
<1>1. Len(pendingCAS) = 0
  <2>1. SelectCAS = {} BY DEF Batch
  <2>2. PICK n \in 0..Len(pendingCAS) :
          SelectCAS = {pendingCAS[i] : i \in 1..n} /\ (n = 0 => Len(pendingCAS) = 0)
    BY SelectionIs
  <2>3. n # 0 => 1 \in 1..n BY <2>2, PendingIs
  <2> QED BY <2>1, <2>2, <2>3
<1>2. PendingObjects = {} BY <1>1 DEF PendingObjects
<1>3. Ready(x) => x \in pendingActions /\ Closure[x] \subseteq cas
  BY <1>2, PendingIs DEF Ready, OrderInv
<1>4. Ready(x) => x \in SelectActions(SelectCAS) BY <1>3 DEF SelectActions
<1> QED BY <1>4 DEF Batch

LEMMA BeginFlushStep ==
  ASSUME ScheduleInv, BeginFlush
  PROVE  ScheduleInv'
<1>1. ScheduleTypes /\ OrderInv /\ PacksInv /\ SavingInv /\ WaitInv BY DEF ScheduleInv
<1>2. /\ saving = {} /\ saving' = Batch
      /\ saveLeft' \in 0..MaxSave
      /\ (tick /\ ~tick' /\ flushRequest' = flushRequest) \/ (flushRequest /\ ~flushRequest' /\ tick' = tick)
      /\ tick' \in BOOLEAN /\ flushRequest' \in BOOLEAN
      /\ UNCHANGED <<storeVars, untilTick, failures, age, packsAhead>>
  <2>1. /\ saving = {} /\ saving' = Batch
        /\ saveLeft' \in IF Batch = {} THEN {0} ELSE 0..MaxSave
        /\ UNCHANGED <<storeVars, untilTick, failures, age, packsAhead>>
    BY DEF BeginFlush, MuFree
  <2>2. saveLeft' \in 0..MaxSave BY <2>1, Constants
  <2>3. Receive BY DEF BeginFlush
  <2>4. (tick /\ tick' = FALSE /\ flushRequest' = flushRequest)
          \/ (flushRequest /\ flushRequest' = FALSE /\ tick' = tick)
    BY <2>3 DEF Receive, TickTaken
  <2>5. tick \in BOOLEAN /\ flushRequest \in BOOLEAN BY <1>1 DEF ScheduleTypes
  <2> QED BY <2>1, <2>2, <2>4, <2>5
<1>3. ScheduleTypes' BY <1>1, <1>2, Zenon DEF ScheduleTypes, storeVars
<1>4. /\ OrderInv' /\ PacksInv' /\ Pending' = Pending /\ Batch' = Batch
      /\ \A x : Left(x)' = Left(x) /\ (Ready(x)' <=> Ready(x))
  BY <1>1, <1>2, StoreKept
<1>5. SavingInv' BY <1>2, <1>4 DEF SavingInv
<1>6. ASSUME NEW x \in Pending, packsAhead[x] < MaxCount
      PROVE  /\ Left(x) <= packsAhead[x]
             /\ InTime(age[x], packsAhead[x] + 1 - Left(x))'
  <2>1. x \in Items BY <1>1, PendingIs
  <2>2. PICK a \in Nat, l \in Nat, p \in Nat : a = age[x] /\ l = Left(x) /\ p = packsAhead[x]
    BY <1>1, <2>1, ItemTypes
  <2>3. l <= p /\ InTime(a, p + 1 - l) BY <1>1, <1>6, <2>2 DEF WaitInv, Waits
  <2>4. PICK n \in Nat : n = p + 1 - l /\ n >= 1 BY <2>2, <2>3
  <2>5. a + (IF tick THEN 0 ELSE untilTick) <= Budget(n) BY <1>2, <2>3, <2>4 DEF InTime
  <2>6. Budget(n) \in Nat BY BudgetIs
  <2>7. untilTick \in Nat /\ untilTick <= Round /\ saveLeft' \in Nat /\ saveLeft' <= MaxSave
    BY <1>1, <1>2, Constants DEF ScheduleTypes
  <2>8. CASE Batch # {}
    <3>1. a <= Budget(n) BY <2>2, <2>5, <2>6, <2>7
    <3>2. a + saveLeft' <= Budget(n) + MaxSave BY <2>6, <2>7, <3>1, Constants
    <3>3. a + untilTick <= Budget(n) + Round BY <2>6, <2>7, <3>1, Constants
    <3>4. InTime(a, n)' BY <1>2, <2>8, <3>2, <3>3 DEF InTime, Budget, Round
    <3> QED BY <1>2, <1>4, <2>2, <2>3, <2>4, <3>4 DEF InTime
  <2>9. CASE Batch = {}
    <3>1. a = 0 BY <1>1, <2>1, <2>2, <2>9, EmptyBatch DEF WaitInv
    <3>2. Round <= Budget(n) BY <2>4, OneRound, BudgetGrows
    <3>3. a + (IF tick' THEN 0 ELSE untilTick) <= Budget(n)
      BY <2>6, <2>7, <3>1, <3>2, Constants
    <3>4. InTime(a, n)' BY <1>2, <2>9, <3>3 DEF InTime
    <3> QED BY <1>2, <1>4, <2>2, <2>3, <2>4, <3>4 DEF InTime
  <2> QED BY <2>8, <2>9
<1>7. WaitInv'
  <2>1. \A x \in Items : ~Ready(x)' => age'[x] = 0 BY <1>1, <1>2, <1>4 DEF WaitInv
  <2>2. ASSUME NEW x \in Pending PROVE Waits(x)'
    <3>1. packsAhead' = packsAhead /\ Left(x)' = Left(x) BY <1>2, <1>4
    <3> QED BY <1>6, <3>1 DEF Waits
  <2> QED BY <1>4, <2>1, <2>2 DEF WaitInv
<1> QED BY <1>3, <1>4, <1>5, <1>7 DEF ScheduleInv

LEMMA ClockStep ==
  ASSUME ScheduleInv, Clock
  PROVE  ScheduleInv'
<1>1. ScheduleTypes /\ OrderInv /\ PacksInv /\ SavingInv /\ WaitInv BY DEF ScheduleInv
<1>2. /\ saving = {} => ~tick
      /\ saving # {} => saveLeft > 0
      /\ untilTick' = IF untilTick = 1 THEN Interval ELSE untilTick - 1
      /\ tick' = (tick \/ untilTick = 1)
      /\ saveLeft' = IF saveLeft = 0 THEN 0 ELSE saveLeft - 1
      /\ age' = [x \in Items |-> IF Ready(x) THEN Capped(age[x] + 1) ELSE age[x]]
      /\ UNCHANGED <<storeVars, flushRequest, saving, failures, packsAhead>>
  BY DEF Clock, Idle, TickTaken
<1>3. ASSUME NEW x \in Items
      PROVE  /\ age'[x] \in 0..MaxCount /\ age'[x] <= age[x] + 1
             /\ ~Ready(x) => age'[x] = age[x]
  <2>1. age[x] \in 0..MaxCount /\ age[x] + 1 \in Nat BY <1>1, Constants DEF ScheduleTypes
  <2> QED BY <1>2, <2>1, CappedIs
<1>4. age' \in [Items -> 0..MaxCount] BY <1>2, <1>3
<1>5. untilTick' \in 1..Interval /\ saveLeft' \in 0..MaxSave /\ tick' \in BOOLEAN
  BY <1>1, <1>2, Constants DEF ScheduleTypes
<1>6. ScheduleTypes' BY <1>1, <1>2, <1>4, <1>5, Zenon DEF ScheduleTypes, storeVars
<1>7. /\ OrderInv' /\ PacksInv' /\ Pending' = Pending /\ Batch' = Batch
      /\ \A x : Left(x)' = Left(x) /\ (Ready(x)' <=> Ready(x))
  BY <1>1, <1>2, StoreKept
<1>8. SavingInv' BY <1>1, <1>2, <1>7 DEF SavingInv
<1>9. ASSUME NEW x \in Pending, packsAhead[x] < MaxCount
      PROVE  /\ Left(x) <= packsAhead[x]
             /\ InTime(age[x], packsAhead[x] + 1 - Left(x))'
  <2>1. x \in Items BY <1>1, PendingIs
  <2>2. PICK a \in Nat, l \in Nat, p \in Nat : a = age[x] /\ l = Left(x) /\ p = packsAhead[x]
    BY <1>1, <2>1, ItemTypes
  <2>3. l <= p /\ InTime(a, p + 1 - l) BY <1>1, <1>9, <2>2 DEF WaitInv, Waits
  <2>4. PICK n \in Nat : n = p + 1 - l BY <2>2, <2>3
  <2>5. PICK b \in Nat : b = age'[x] /\ b <= a + 1 BY <1>3, <2>1, <2>2, Constants
  <2>6. Budget(n) \in Nat BY BudgetIs
  <2>7. /\ untilTick \in Nat /\ untilTick >= 1 /\ saveLeft \in Nat
    BY <1>1, Constants DEF ScheduleTypes
  <2>8. saving = {} => b + (IF tick' THEN 0 ELSE untilTick') <= Budget(n)
    <3>1. saving = {} => a + untilTick <= Budget(n) BY <1>2, <2>3, <2>4 DEF InTime
    <3>2. CASE untilTick = 1
      <4>1. tick' BY <1>2, <3>2
      <4> QED BY <2>5, <2>6, <3>1, <3>2, <4>1
    <3>3. CASE untilTick # 1
      <4>1. untilTick' = untilTick - 1 BY <1>2, <3>3
      <4>2. saving = {} => b + untilTick' <= Budget(n) /\ b <= Budget(n)
        BY <2>5, <2>6, <2>7, <3>1, <3>3, <4>1
      <4> QED BY <2>5, <4>2
    <3> QED BY <3>2, <3>3
  <2>9. saving # {} => /\ b + saveLeft' <= Budget(n) + MaxSave
                       /\ ~tick' => b + untilTick' <= Budget(n) + Round
    <3>1. saving # {} => /\ a + saveLeft <= Budget(n) + MaxSave
                         /\ ~tick => a + untilTick <= Budget(n) + Round
      BY <2>3, <2>4 DEF InTime
    <3>2. saving # {} => saveLeft' = saveLeft - 1 /\ saveLeft >= 1 BY <1>2, <2>7
    <3>3. saving # {} => b + saveLeft' <= Budget(n) + MaxSave
      BY <2>5, <2>6, <2>7, <3>1, <3>2, Constants
    <3>4. ~tick' => ~tick /\ untilTick' = untilTick - 1 BY <1>2
    <3>5. saving # {} => (~tick' => b + untilTick' <= Budget(n) + Round)
      BY <2>5, <2>6, <2>7, <3>1, <3>4, Constants
    <3> QED BY <3>3, <3>5
  <2>10. InTime(b, n)' BY <1>2, <2>8, <2>9 DEF InTime, Budget, Round
  <2> QED BY <1>2, <1>7, <2>2, <2>3, <2>4, <2>5, <2>10 DEF InTime
<1>10. WaitInv'
  <2>1. \A x \in Items : ~Ready(x)' => age'[x] = 0 BY <1>1, <1>3, <1>7 DEF WaitInv
  <2>2. ASSUME NEW x \in Pending PROVE Waits(x)'
    <3>1. packsAhead' = packsAhead /\ Left(x)' = Left(x) BY <1>2, <1>7
    <3> QED BY <1>9, <3>1 DEF Waits
  <2> QED BY <1>7, <2>1, <2>2 DEF WaitInv
<1> QED BY <1>6, <1>7, <1>8, <1>10 DEF ScheduleInv

-----------------------------------------------------------------------------
(* The end of a save.                                                       *)

\* Who waited for n rounds and a save waits for n + 1 rounds after it.
LEMMA SaveEnds ==
  ASSUME ScheduleTypes, saving # {}, saveLeft = 0, saving' = {},
         UNCHANGED <<tick, untilTick>>, NEW a \in Nat, NEW n \in Nat, InTime(a, n)
  PROVE  InTime(a, n + 1)'
<1>1. Budget(n) \in Nat /\ Budget(n + 1) = Budget(n) + Round BY BudgetIs
<1>2. a + 0 <= Budget(n) + MaxSave /\ (~tick => a + untilTick <= Budget(n) + Round)
  BY DEF InTime
<1>3. untilTick \in Nat BY Constants DEF ScheduleTypes
<1>4. a <= Budget(n + 1) BY <1>1, <1>2, Constants
<1>5. a + (IF tick THEN 0 ELSE untilTick) <= Budget(n + 1) BY <1>1, <1>2, <1>4
<1>6. Budget(n + 1)' = Budget(n + 1) BY DEF Budget, Round
<1> QED BY <1>5, <1>6 DEF InTime

LEMMA FlushFailsStep ==
  ASSUME ScheduleInv, FlushFails
  PROVE  ScheduleInv'
<1>1. ScheduleTypes /\ OrderInv /\ PacksInv /\ SavingInv /\ WaitInv BY DEF ScheduleInv
<1>2. /\ saving # {} /\ saveLeft = 0 /\ saving' = {}
      /\ packsAhead' = [x \in Items |-> IF x \in Pending THEN Capped(packsAhead[x] + 1)
                                                       ELSE packsAhead[x]]
      /\ UNCHANGED <<storeVars, flushRequest, tick, untilTick, saveLeft, age>>
  BY DEF FlushFails
<1>3. failures' \in 0..MaxFailures
  <2>1. failures \in 0..MaxFailures /\ MaxFailures \in Nat
    BY <1>1, FlushScheduleAssumption DEF ScheduleTypes
  <2>2. failures' = failures \/ (failures < MaxFailures /\ failures' = failures + 1)
    BY DEF FlushFails
  <2> QED BY <2>1, <2>2
<1>4. packsAhead' \in [Items -> 0..MaxCount]
  <2>1. ASSUME NEW x \in Items PROVE packsAhead'[x] \in 0..MaxCount
    <3>1. packsAhead[x] \in 0..MaxCount /\ packsAhead[x] + 1 \in Nat
      BY <1>1, Constants DEF ScheduleTypes
    <3> QED BY <1>2, <3>1, CappedIs
  <2> QED BY <1>2, <2>1
<1>5. ScheduleTypes' BY <1>1, <1>2, <1>3, <1>4, Zenon DEF ScheduleTypes, storeVars
<1>6. /\ OrderInv' /\ PacksInv' /\ Pending' = Pending
      /\ \A x : Left(x)' = Left(x) /\ (Ready(x)' <=> Ready(x))
  BY <1>1, <1>2, StoreKept
<1>7. SavingInv' BY <1>2 DEF SavingInv
<1>8. ASSUME NEW x \in Pending, packsAhead'[x] < MaxCount
      PROVE  /\ Left(x) <= packsAhead'[x]
             /\ InTime(age[x], packsAhead[x] + 1 - Left(x))'
  <2>1. x \in Items BY <1>1, PendingIs
  <2>2. PICK a \in Nat, l \in Nat, p \in Nat : a = age[x] /\ l = Left(x) /\ p = packsAhead[x]
    BY <1>1, <2>1, ItemTypes
  <2>3. packsAhead'[x] = p + 1 /\ p < MaxCount
    <3>1. p + 1 \in Nat /\ packsAhead'[x] = Capped(p + 1) BY <1>2, <2>1, <2>2
    <3> QED BY <1>8, <2>2, <3>1, CappedIs, Constants
  <2>4. l <= p /\ InTime(a, p + 1 - l) BY <1>1, <2>2, <2>3 DEF WaitInv, Waits
  <2>5. PICK n \in Nat : n = p + 1 - l BY <2>2, <2>4
  <2>6. InTime(a, n + 1)' BY <1>1, <1>2, <2>2, <2>4, <2>5, SaveEnds
  <2>7. n + 1 = p + 1 + 1 - l BY <2>2, <2>5
  <2> QED BY <1>2, <1>6, <2>2, <2>3, <2>4, <2>6, <2>7 DEF InTime
<1>9. WaitInv'
  <2>1. \A x \in Items : ~Ready(x)' => age'[x] = 0 BY <1>1, <1>2, <1>6 DEF WaitInv
  <2>2. ASSUME NEW x \in Pending PROVE Waits(x)'
    <3>1. Left(x)' = Left(x) BY <1>6
    <3> QED BY <1>8, <3>1 DEF Waits
  <2> QED BY <1>6, <2>1, <2>2 DEF WaitInv
<1> QED BY <1>5, <1>6, <1>7, <1>9 DEF ScheduleInv

\* A batch takes the first n objects, and what is ready among the results.
LEMMA BatchIs ==
  ASSUME ScheduleTypes, OrderInv, PacksInv
  PROVE  \E n \in 0..Len(pendingCAS) :
           /\ \A i \in 1..Len(pendingCAS) : pack[pendingCAS[i]] = 1 <=> i <= n
           /\ Batch \cap Objects = {pendingCAS[i] : i \in 1..n}
           /\ Cardinality(Batch \cap Objects) = n
           /\ Batch \subseteq Pending
           /\ n = 0 => Len(pendingCAS) = 0
           /\ \A v \in pendingActions : Closure[v] \subseteq cas => v \in Batch
<1>1. PICK n \in 0..Len(pendingCAS) :
        /\ \A i \in 1..Len(pendingCAS) : pack[pendingCAS[i]] = 1 <=> i <= n
        /\ SelectCAS = {pendingCAS[i] : i \in 1..n}
        /\ n = 0 => Len(pendingCAS) = 0
  BY SelectionIs
<1>2. n \in Nat /\ \A i \in 1..n : i \in 1..Len(pendingCAS) BY PendingIs
<1>3. SelectCAS \subseteq PendingObjects BY <1>1, <1>2 DEF PendingObjects
<1>4. SelectActions(SelectCAS) \subseteq pendingActions BY DEF SelectActions
<1>5. Batch \cap Objects = SelectCAS
  BY <1>3, <1>4, PendingIs, FlushScheduleAssumption DEF Batch, OrderInv
<1>6. Batch \subseteq Pending BY <1>3, <1>4, PendingIs DEF Batch
<1>7. PICK f : f = [i \in 1..n |-> pendingCAS[i]] OBVIOUS
<1>8. f \in Bijection(1..n, SelectCAS)
  <2>1. f \in [1..n -> SelectCAS] BY <1>1, <1>7
  <2>2. IsInjective(f) BY <1>2, <1>7 DEF OrderInv, IsInjective
  <2>3. \A d \in SelectCAS : \E i \in 1..n : f[i] = d BY <1>1, <1>7
  <2> QED BY <2>1, <2>2, <2>3 DEF Bijection, Injection, Surjection
<1>9. IsFiniteSet(1..n) /\ Cardinality(1..n) = n BY <1>2, FS_Interval
<1>10. Cardinality(SelectCAS) = n BY <1>8, <1>9, FS_Bijection DEF ExistsBijection
<1>11. \A v \in pendingActions : Closure[v] \subseteq cas => v \in Batch
  BY DEF Batch, SelectActions
<1> QED BY <1>1, <1>5, <1>6, <1>10, <1>11

\* Two objects are in one pack before a save as they are after it.
LEMMA PackAfterSave ==
  ASSUME ScheduleTypes, OrderInv, PacksInv,
         NEW n \in 0..Len(pendingCAS), NEW m \in Nat, Len(pendingCAS) = n + m,
         \A i \in 1..Len(pendingCAS) : pack[pendingCAS[i]] = 1 <=> i <= n,
         \A i \in 1..m : pendingCAS'[i] = pendingCAS[i + n],
         \A i \in 1..m : pack'[pendingCAS'[i]] = pack[pendingCAS[i + n]] - 1,
         NEW k \in 1..m, NEW d
  PROVE  PackAfter(k, d)' = PackAfter(k + n, d) - 1
<1>1. n \in Nat BY PendingIs
<1>2. PICK len \in Nat : len = Len(pendingCAS) /\ len = n + m BY <1>1
<1>3. ASSUME NEW i \in 1..len PROVE pack[pendingCAS[i]] \in Nat
  BY <1>2, PendingIs DEF ScheduleTypes
<1>4. \A i \in 1..m : i + n \in 1..len /\ ~(i + n <= n) BY <1>1, <1>2
<1>5. \A i \in 1..m : pack[pendingCAS[i + n]] # 1 BY <1>2, <1>4
<1>6. PICK q \in Nat : q = k + n BY <1>1
<1>7. q \in 1..len /\ q # 0 BY <1>2, <1>6
<1>8. PICK p \in Nat : p = pack[pendingCAS[q]] BY <1>3, <1>7
<1>9. p # 1 /\ pack'[pendingCAS'[k]] = p - 1 BY <1>5, <1>6, <1>8
<1>10. Mates(k)' = Mates(q)
  <2>1. ASSUME NEW x \in Mates(k)' PROVE x \in Mates(q)
    <3>1. PICK j \in 1..k : x = pendingCAS'[j] /\ pack'[pendingCAS'[j]] = pack'[pendingCAS'[k]]
      BY DEF Mates
    <3>2. j \in 1..m /\ j + n \in 1..q /\ j + n \in 1..len
      <4>1. j \in Nat /\ j >= 1 /\ j <= k /\ k <= m OBVIOUS
      <4> QED BY <1>1, <1>2, <1>6, <4>1
    <3>3. x = pendingCAS[j + n] BY <3>1, <3>2
    <3>4. pack[pendingCAS[j + n]] - 1 = p - 1 BY <1>9, <3>1, <3>2
    <3>5. pack[pendingCAS[j + n]] = p
      <4>1. PICK c \in Nat : c = pack[pendingCAS[j + n]] BY <1>3, <3>2
      <4>2. c - 1 = p - 1 => c = p OBVIOUS
      <4> QED BY <3>4, <4>1, <4>2
    <3> QED BY <1>8, <3>2, <3>3, <3>5 DEF Mates
  <2>2. ASSUME NEW x \in Mates(q) PROVE x \in Mates(k)'
    <3>1. PICK j \in 1..q : x = pendingCAS[j] /\ pack[pendingCAS[j]] = p
      BY <1>8 DEF Mates
    <3>2. j \in 1..len BY <1>2, <1>6, <3>1
    <3>3. ~(j <= n) BY <1>2, <1>9, <3>1, <3>2
    <3>4. PICK i \in 1..k : j = i + n
      <4>1. j - n \in 1..k /\ j = (j - n) + n BY <1>1, <1>6, <3>3
      <4> QED BY <4>1
    <3>5. i \in 1..m BY <3>4
    <3>6. x = pendingCAS'[i] BY <3>1, <3>4, <3>5
    <3>7. pack'[pendingCAS'[i]] = p - 1 BY <3>1, <3>4, <3>5
    <3> QED BY <1>9, <3>4, <3>6, <3>7 DEF Mates
  <2> QED BY <2>1, <2>2
<1>11. Fits(Mates(k), d)' <=> Fits(Mates(q), d) BY <1>10 DEF Fits, Bytes
<1>12. k # 0 OBVIOUS
<1>13. PackAfter(k, d)' = IF Fits(Mates(q), d) THEN p - 1 ELSE (p - 1) + 1
  BY <1>9, <1>11, <1>12 DEF PackAfter
<1>14. PackAfter(q, d) = IF Fits(Mates(q), d) THEN p ELSE p + 1
  BY <1>7, <1>8 DEF PackAfter
<1> QED BY <1>6, <1>13, <1>14

LEMMA FlushSavedStep ==
  ASSUME ScheduleInv, FlushSaved
  PROVE  ScheduleInv'
<1>1. ScheduleTypes /\ OrderInv /\ PacksInv /\ SavingInv /\ WaitInv BY DEF ScheduleInv
<1>2. /\ saving # {} /\ saving = Batch /\ saveLeft = 0 /\ saving' = {}
      /\ pendingCAS' = SubSeq(pendingCAS, Cardinality(saving \cap Objects) + 1,
                              Len(pendingCAS))
      /\ pendingActions' = pendingActions \ saving
      /\ cas' = cas \cup (saving \cap Objects)
      /\ pendingBytes' = pendingBytes - Bytes(saving)
      /\ age' = [x \in Items |-> IF x \in saving THEN 0 ELSE age[x]]
      /\ pack' = [d \in Objects |-> IF pack[d] = 0 THEN 0 ELSE pack[d] - 1]
      /\ packsAhead' = [x \in Items |-> IF x \in saving THEN 0 ELSE packsAhead[x]]
      /\ UNCHANGED <<flushRequest, tick, untilTick, saveLeft, failures>>
  BY <1>1 DEF FlushSaved, SavingInv
<1>3. PICK n \in 0..Len(pendingCAS) :
        /\ \A i \in 1..Len(pendingCAS) : pack[pendingCAS[i]] = 1 <=> i <= n
        /\ saving \cap Objects = {pendingCAS[i] : i \in 1..n}
        /\ Cardinality(saving \cap Objects) = n
        /\ saving \subseteq Pending
        /\ n = 0 => Len(pendingCAS) = 0
        /\ \A v \in pendingActions : Closure[v] \subseteq cas => v \in saving
  BY <1>1, <1>2, BatchIs
<1>4. PICK len \in Nat : len = Len(pendingCAS) BY <1>1, PendingIs
<1>5. PICK m \in Nat : n \in Nat /\ n <= len /\ len = n + m
  <2>1. len - n \in Nat /\ len = n + (len - n) /\ n \in Nat /\ n <= len BY <1>4
  <2> QED BY <2>1
<1>6. \A i \in 1..len : /\ pendingCAS[i] \in Objects
                        /\ pack[pendingCAS[i]] \in Nat /\ pack[pendingCAS[i]] >= 1
                        /\ pack[pendingCAS[i]] = 1 <=> i <= n
  BY <1>1, <1>3, <1>4, PendingIs DEF ScheduleTypes, PacksInv, PendingObjects
\* What is left of the order.
<1>7. /\ pendingCAS' \in Seq(Objects) /\ Len(pendingCAS') = m
      /\ \A i \in 1..m : pendingCAS'[i] = pendingCAS[i + n]
  <2>1. pendingCAS' = SubSeq(pendingCAS, n + 1, len) BY <1>2, <1>3, <1>4
  <2>2. \A i \in (n + 1)..len : pendingCAS[i] \in Objects BY <1>5, <1>6
  <2>3. n + 1 \in Int /\ len \in Int BY <1>5
  <2>4. /\ pendingCAS' \in Seq(Objects)
        /\ Len(pendingCAS') = IF n + 1 <= len THEN len - (n + 1) + 1 ELSE 0
        /\ \A i \in 1..(len - (n + 1) + 1) : pendingCAS'[i] = pendingCAS[(n + 1) + i - 1]
    BY <2>1, <2>2, <2>3, SubSeqProperties
  <2>5. Len(pendingCAS') = m BY <1>5, <2>4
  <2>6. ASSUME NEW i \in 1..m PROVE pendingCAS'[i] = pendingCAS[i + n]
    <3>1. i \in 1..(len - (n + 1) + 1) /\ (n + 1) + i - 1 = i + n BY <1>5
    <3> QED BY <2>4, <3>1
  <2> QED BY <2>4, <2>5, <2>6
<1>8. \A i \in 1..m : i + n \in 1..len /\ ~(i + n <= n) BY <1>5
<1>9. ASSUME NEW d
      PROVE  d \in PendingObjects' <=> d \in PendingObjects /\ d \notin saving
  <2>1. ASSUME NEW i \in 1..m
        PROVE  pendingCAS'[i] \in PendingObjects /\ pendingCAS'[i] \notin saving
    <3>1. PICK j \in 1..len : j = i + n /\ ~(j <= n) BY <1>8
    <3>2. pendingCAS'[i] = pendingCAS[j] BY <1>7, <3>1
    <3>3. ASSUME NEW k \in 1..n PROVE pendingCAS[k] # pendingCAS[j]
      <4>1. k \in 1..len /\ k # j BY <1>5, <3>1
      <4> QED BY <1>1, <1>4, <4>1 DEF OrderInv
    <3>4. pendingCAS[j] \in Objects BY <1>6
    <3> QED BY <1>3, <1>4, <3>2, <3>3, <3>4 DEF PendingObjects
  <2>2. ASSUME NEW j \in 1..len, pendingCAS[j] \notin saving
        PROVE  pendingCAS[j] \in PendingObjects'
    <3>1. ~(j <= n)
      <4>1. j <= n => j \in 1..n OBVIOUS
      <4> QED BY <1>3, <2>2, <4>1
    <3>2. j - n \in 1..m /\ (j - n) + n = j BY <1>5, <3>1
    <3> QED BY <1>7, <3>2 DEF PendingObjects
  <2>3. d \in PendingObjects' => \E i \in 1..m : d = pendingCAS'[i]
    BY <1>7 DEF PendingObjects
  <2>4. d \in PendingObjects => \E j \in 1..len : d = pendingCAS[j]
    BY <1>4 DEF PendingObjects
  <2> QED BY <2>1, <2>2, <2>3, <2>4
<1>10. Pending' = Pending \ saving
  <2>1. Pending' = PendingObjects' \cup pendingActions' BY DEF Pending, PendingObjects
  <2> QED BY <1>1, <1>2, <1>9, <2>1, PendingIs
<1>11. ASSUME NEW d \in PendingObjects, d \notin saving
       PROVE  pack[d] \in Nat /\ pack[d] >= 2 /\ pack'[d] = pack[d] - 1
  <2>1. PICK j \in 1..len : d = pendingCAS[j] BY <1>4, <1>11 DEF PendingObjects
  <2>2. j <= n => j \in 1..n OBVIOUS
  <2>3. ~(j <= n) BY <1>3, <1>11, <2>1, <2>2
  <2> QED BY <1>2, <1>6, <2>1, <2>3
<1>12. ASSUME NEW d \in Objects, d \notin PendingObjects'
       PROVE  pack'[d] = 0
  <2>1. CASE d \in PendingObjects
    <3>1. d \in saving BY <1>9, <1>12, <2>1
    <3>2. PICK j \in 1..n : d = pendingCAS[j] BY <1>3, <3>1
    <3>3. j \in 1..len /\ j <= n BY <1>5
    <3>4. pack[d] = 1 BY <1>6, <3>2, <3>3
    <3> QED BY <1>2, <3>4
  <2>2. CASE d \notin PendingObjects
    <3>1. pack[d] = 0 BY <1>1, <2>2 DEF PacksInv
    <3> QED BY <1>2, <3>1
  <2> QED BY <2>1, <2>2
<1>13. ScheduleTypes'
  <2>1. ASSUME NEW x \in Items PROVE age'[x] \in 0..MaxCount /\ packsAhead'[x] \in 0..MaxCount
    BY <1>1, <1>2, Constants DEF ScheduleTypes
  <2>2. age' \in [Items -> 0..MaxCount] /\ packsAhead' \in [Items -> 0..MaxCount]
    BY <1>2, <2>1
  <2>3. pack' \in [Objects -> Nat]
    <3>1. ASSUME NEW d \in Objects PROVE pack'[d] \in Nat
      <4>1. pack[d] \in Nat BY <1>1 DEF ScheduleTypes
      <4> QED BY <1>2, <4>1
    <3> QED BY <1>2, <3>1
  <2>4. cas' \subseteq Objects BY <1>1, <1>2 DEF ScheduleTypes
  <2> QED BY <1>1, <1>2, <2>2, <2>3, <2>4, Zenon DEF ScheduleTypes
<1>14. OrderInv'
  <2>1. ASSUME NEW i \in 1..m, NEW j \in 1..m, pendingCAS'[i] = pendingCAS'[j]
        PROVE  i = j
    <3>1. i + n \in 1..len /\ j + n \in 1..len BY <1>8
    <3>2. pendingCAS[i + n] = pendingCAS[j + n] BY <1>7, <2>1
    <3>3. i + n = j + n BY <1>1, <1>4, <3>1, <3>2 DEF OrderInv
    <3> QED BY <1>5, <3>3
  <2>2. IsFiniteSet(pendingActions \ saving) BY <1>1, FS_Difference DEF OrderInv
  <2>3. Bytes(Pending \ saving) = Bytes(Pending) - Bytes(saving)
    BY <1>1, <1>3, PendingIs, BytesOfTheRest
  <2>4. Bytes(Pending') = Bytes(Pending)' BY DEF Bytes
  <2>5. pendingBytes' = Bytes(Pending)' BY <1>1, <1>2, <1>10, <2>3, <2>4 DEF OrderInv
  <2>6. pendingActions' \subseteq Results BY <1>1, <1>2 DEF OrderInv
  <2> QED BY <1>2, <1>7, <2>1, <2>2, <2>5, <2>6 DEF OrderInv
<1>15. ASSUME NEW i \in 1..m
       PROVE  /\ pendingCAS'[i] = pendingCAS[i + n] /\ i + n \in 1..len
              /\ pack[pendingCAS[i + n]] \in Nat /\ pack[pendingCAS[i + n]] >= 2
              /\ pack'[pendingCAS'[i]] = pack[pendingCAS[i + n]] - 1
  <2>1. PICK j \in 1..len : j = i + n /\ ~(j <= n) BY <1>8
  <2>2. pendingCAS'[i] = pendingCAS[j] BY <1>7, <2>1
  <2>3. /\ pendingCAS[j] \in Objects /\ pack[pendingCAS[j]] \in Nat
        /\ pack[pendingCAS[j]] >= 1 /\ pack[pendingCAS[j]] # 1
    BY <1>6, <2>1
  <2>4. pack'[pendingCAS[j]] = pack[pendingCAS[j]] - 1 BY <1>2, <2>3
  <2> QED BY <2>1, <2>2, <2>3, <2>4
<1>16. PacksInv'
  <2>1. ASSUME NEW d \in Objects PROVE pack'[d] = 0 <=> d \notin PendingObjects'
    <3>1. CASE d \in PendingObjects'
      <4>1. d \in PendingObjects /\ d \notin saving BY <1>9, <3>1
      <4> QED BY <1>11, <3>1, <4>1
    <3> QED BY <1>12, <3>1
  <2>2. ASSUME NEW i \in 1..m, NEW j \in 1..m, i <= j
        PROVE  pack'[pendingCAS'[i]] <= pack'[pendingCAS'[j]]
    <3>1. PICK a \in 1..len, b \in 1..len : a = i + n /\ b = j + n BY <1>8
    <3>2. a <= b BY <1>5, <2>2, <3>1
    <3>3. pack[pendingCAS[a]] <= pack[pendingCAS[b]] BY <1>1, <1>4, <3>2 DEF PacksInv
    <3>4. PICK x \in Nat, y \in Nat : x = pack[pendingCAS[a]] /\ y = pack[pendingCAS[b]]
      BY <1>6
    <3>5. pack'[pendingCAS'[i]] = x - 1 /\ pack'[pendingCAS'[j]] = y - 1
      BY <1>15, <3>1, <3>4
    <3> QED BY <3>3, <3>4, <3>5
  <2>3. ASSUME NEW i \in 1..m
        PROVE  pack'[pendingCAS'[i]] = PackAfter(i - 1, pendingCAS[i])'
    <3>1. PICK d : d = pendingCAS'[i] OBVIOUS
    <3>2. PICK j \in 1..len : j = i + n BY <1>8
    <3>3. pack[d] = PackAfter(j - 1, d) BY <1>1, <1>4, <1>15, <3>1, <3>2 DEF PacksInv
    <3>4. PICK k \in 0..(m - 1) : k = i - 1 OBVIOUS
    <3>5. j - 1 = k + n BY <1>5, <3>2, <3>4
    <3>6. pack'[d] = pack[d] - 1 /\ pack[d] \in Nat /\ pack[d] >= 2 BY <1>15, <3>1
    <3>7. pack'[d] = PackAfter(k, d)'
      <4>1. CASE k = 0
        <5>1. PackAfter(k, d)' = 1 BY <4>1 DEF PackAfter
        <5>2. len # 0 /\ n # 0 BY <1>3, <1>4, <3>2
        <5>3. n \in 1..len /\ n <= n BY <1>5, <5>2
        <5>4. pack[pendingCAS[n]] = 1 BY <1>6, <5>3
        <5>5. j - 1 = n BY <1>5, <3>5, <4>1
        <5>6. pack[d] = 1 \/ pack[d] = 2 BY <3>3, <5>2, <5>4, <5>5 DEF PackAfter
        <5> QED BY <3>6, <5>1, <5>6
      <4>2. CASE k # 0
        <5>1. k \in 1..m BY <4>2
        <5>2. PackAfter(k, d)' = PackAfter(k + n, d) - 1
          BY <1>1, <1>3, <1>4, <1>5, <1>7, <1>15, <5>1, PackAfterSave
        <5> QED BY <3>3, <3>5, <3>6, <5>2
      <4> QED BY <4>1, <4>2
    <3>8. PackAfter(k, d)' = PackAfter(i - 1, pendingCAS[i])'
      BY <3>1, <3>4 DEF PackAfter, Mates
    <3> QED BY <3>1, <3>7, <3>8
  <2> QED BY <1>7, <2>1, <2>2, <2>3 DEF PacksInv
<1>17. SavingInv' BY <1>2 DEF SavingInv
<1>18. ASSUME NEW x \in Items, ~Ready(x)' PROVE age'[x] = 0
  <2>1. CASE x \in saving BY <1>2, <2>1
  <2>2. CASE x \notin saving
    <3>1. Ready(x) => Ready(x)' BY <1>2, <1>10, <2>2 DEF Ready
    <3> QED BY <1>1, <1>2, <1>18, <2>2, <3>1 DEF WaitInv
  <2> QED BY <2>1, <2>2
<1>19. ASSUME NEW x \in Pending' PROVE Waits(x)'
  <2>1. x \in Items /\ x \in Pending /\ x \notin saving BY <1>1, <1>10, <1>19, PendingIs
  <2>2. age'[x] = age[x] /\ packsAhead'[x] = packsAhead[x] BY <1>2, <2>1
  <2>3. PICK a \in Nat, l \in Nat, p \in Nat : a = age[x] /\ l = Left(x) /\ p = packsAhead[x]
    BY <1>1, <2>1, ItemTypes
  <2>. PICK r : r = Left(x)' OBVIOUS
  <2>4. SUFFICES ASSUME p < MaxCount
                 PROVE  r <= p /\ InTime(a, p + 1 - r)'
    BY <2>2, <2>3 DEF Waits, InTime
  <2>5. l <= p /\ InTime(a, p + 1 - l)
    BY <1>1, <2>1, <2>3, <2>4 DEF WaitInv, Waits
  <2>6. CASE x \in Objects
    <3>1. x \in PendingObjects
      BY <1>1, <2>1, <2>6, PendingIs, FlushScheduleAssumption DEF OrderInv
    <3>2. l = pack[x] /\ r = pack'[x] BY <2>3, <2>6 DEF Left
    <3>3. l >= 2 /\ r = l - 1 BY <1>11, <2>1, <2>3, <3>1, <3>2
    <3>4. PICK k \in Nat : k = p + 1 - l BY <2>3, <2>5
    <3>5. InTime(a, k + 1)' BY <1>1, <1>2, <2>3, <2>5, <3>4, SaveEnds
    <3>6. k + 1 = p + 1 - (l - 1) BY <3>4
    <3> QED BY <2>3, <2>5, <3>3, <3>5, <3>6
  \* A result that was not taken was not ready.
  <2>7. CASE x \notin Objects
    <3>1. x \in pendingActions BY <1>1, <2>1, <2>7, PendingIs
    <3>2. ~Ready(x)
      <4>1. x \in Results BY <2>1, <2>7 DEF Items
      <4> QED BY <1>3, <2>1, <3>1, <4>1 DEF Ready
    <3>3. a = 0 BY <1>1, <2>1, <2>3, <3>2 DEF WaitInv
    <3>4. l = 1 /\ r = 1 BY <2>3, <2>7 DEF Left
    <3>5. p + 1 - 1 = p /\ 1 <= p BY <2>3, <2>5, <3>4
    <3>6. Round <= Budget(p) /\ Budget(p) \in Nat BY <2>3, <3>5, OneRound, BudgetGrows, BudgetIs
    <3>7. untilTick \in Nat /\ untilTick <= Round BY <1>1, Constants DEF ScheduleTypes
    <3>8. a + (IF tick THEN 0 ELSE untilTick) <= Budget(p)
      BY <3>3, <3>6, <3>7, Constants
    <3>9. InTime(a, p)'
      <4>1. Budget(p)' = Budget(p) BY DEF Budget, Round
      <4> QED BY <1>2, <3>8, <4>1 DEF InTime
    <3> QED BY <3>4, <3>5, <3>9
  <2> QED BY <2>6, <2>7
<1>20. WaitInv' BY <1>18, <1>19 DEF WaitInv
<1> QED BY <1>13, <1>14, <1>16, <1>17, <1>20 DEF ScheduleInv

-----------------------------------------------------------------------------

LEMMA ScheduleInitially == ScheduleInit => ScheduleInv
<1> SUFFICES ASSUME ScheduleInit PROVE ScheduleInv OBVIOUS
<1>1. /\ pendingCAS = <<>> /\ pendingActions = {} /\ cas = {} /\ pendingBytes = 0
      /\ flushRequest = FALSE /\ tick = FALSE /\ untilTick = Interval
      /\ saving = {} /\ saveLeft = 0 /\ failures = 0
      /\ age = [x \in Items |-> 0] /\ pack = [d \in Objects |-> 0]
      /\ packsAhead = [x \in Items |-> 0]
  BY DEF ScheduleInit
<1>2. Len(pendingCAS) = 0 BY <1>1
<1>3. PendingObjects = {} /\ Pending = {} BY <1>1, <1>2 DEF PendingObjects, Pending
<1>4. ScheduleTypes
  <2>1. 0 \in 0..MaxCount /\ 0 \in 0..MaxSave /\ Interval \in 1..Interval /\ 0 \in 0..MaxFailures
    BY FlushScheduleAssumption
  <2>2. age \in [Items -> 0..MaxCount] /\ packsAhead \in [Items -> 0..MaxCount]
    BY <1>1, <2>1
  <2>3. pack \in [Objects -> Nat] BY <1>1
  <2> QED BY <1>1, <2>1, <2>2, <2>3 DEF ScheduleTypes
<1>5. OrderInv
  <2>1. ByteSet({}) = {} BY ByteSetIs
  <2>2. Bytes({}) = 0 BY <2>1, ByteSetIs, FS_EmptySet
  <2> QED BY <1>1, <1>2, <1>3, <2>2, FS_EmptySet DEF OrderInv
<1>6. PacksInv BY <1>1, <1>2, <1>3 DEF PacksInv
<1>7. SavingInv BY <1>1 DEF SavingInv
<1>8. WaitInv BY <1>1, <1>3 DEF WaitInv
<1> QED BY <1>4, <1>5, <1>6, <1>7, <1>8 DEF ScheduleInv

LEMMA ScheduleStep == ScheduleInv /\ [ScheduleNext]_scheduleVars => ScheduleInv'
<1> SUFFICES ASSUME ScheduleInv, [ScheduleNext]_scheduleVars PROVE ScheduleInv' OBVIOUS
<1>1. CASE \E d \in Objects : StageCAS(d) BY <1>1, StageCASStep
<1>2. CASE \E v \in Results : StageAction(v) BY <1>2, StageActionStep
<1>3. CASE BeginFlush BY <1>3, BeginFlushStep
<1>4. CASE FlushSaved BY <1>4, FlushSavedStep
<1>5. CASE FlushFails BY <1>5, FlushFailsStep
<1>6. CASE Clock BY <1>6, ClockStep
<1>7. CASE UNCHANGED scheduleVars
  <2>1. UNCHANGED storeVars
        /\ UNCHANGED <<flushRequest, tick, untilTick, saving, saveLeft, failures, age, packsAhead>>
    BY <1>7 DEF scheduleVars
  <2>2. ScheduleTypes' <=> ScheduleTypes BY <2>1 DEF ScheduleTypes, storeVars
  <2>3. /\ (OrderInv <=> OrderInv') /\ (PacksInv <=> PacksInv')
        /\ Pending' = Pending /\ Batch' = Batch
        /\ \A x : Left(x)' = Left(x) /\ (Ready(x)' <=> Ready(x))
    BY <2>1, StoreKept
  <2>4. SavingInv' <=> SavingInv BY <2>1, <2>3 DEF SavingInv
  <2>5. \A x : Waits(x) => Waits(x)' BY <2>1, <2>3 DEF Waits, InTime, Budget, Round
  <2>6. WaitInv => WaitInv' BY <2>1, <2>3, <2>5 DEF WaitInv
  <2> QED BY <2>2, <2>3, <2>4, <2>6 DEF ScheduleInv
<1> QED BY <1>1, <1>2, <1>3, <1>4, <1>5, <1>6, <1>7 DEF ScheduleNext

(* ScheduleInv is an invariant: the byte counter is exact, every pending    *)
(* object leaves with the pack that the ones before it determine, whatever  *)
(* is saved is what would be selected, and every item is in time            *)
(* (pack_store.go:109-122, 405-437, 542-560).                               *)
THEOREM ScheduleInvariant == ScheduleSpec => []ScheduleInv
<1> QED BY ScheduleInitially, ScheduleStep, PTL DEF ScheduleSpec

LEMMA InTimeIsBounded ==
  ASSUME ScheduleInv
  PROVE  DelayPerPack
<1>1. ScheduleTypes /\ OrderInv /\ PacksInv /\ SavingInv /\ WaitInv BY DEF ScheduleInv
<1>2. saving \subseteq Pending BY <1>1, BatchIs DEF SavingInv
<1>3. ScheduleTypeOK BY <1>1, <1>2, PendingIs DEF ScheduleTypes, OrderInv, ScheduleTypeOK
<1>4. ASSUME NEW x \in Pending PROVE age[x] <= packsAhead[x] * Round + MaxSave
  <2>1. x \in Items BY <1>1, PendingIs
  <2>2. PICK a \in Nat, l \in Nat, p \in Nat :
          a = age[x] /\ l = Left(x) /\ p = packsAhead[x] /\ p <= MaxCount /\ l >= 1
    BY <1>1, <2>1, ItemTypes
  <2>3. Budget(p) \in Nat BY BudgetIs
  <2>4. CASE p = MaxCount
    <3>1. a <= p BY <1>1, <2>1, <2>2, <2>4, Constants DEF ScheduleTypes
    <3>2. p <= Budget(p)
      <4>1. PICK k \in Nat : Round = k + 1
        <5>1. Round - 1 \in Nat /\ Round = (Round - 1) + 1 BY Constants
        <5> QED BY <5>1
      <4>2. p * (k + 1) = p * k + p /\ p * k \in Nat OBVIOUS
      <4> QED BY <4>1, <4>2 DEF Budget
    <3> QED BY <2>2, <2>3, <3>1, <3>2, Constants DEF Budget
  <2>5. CASE p < MaxCount
    <3>1. l <= p /\ InTime(a, p + 1 - l) BY <1>1, <2>2, <2>5 DEF WaitInv, Waits
    <3>2. PICK n \in Nat : n = p + 1 - l /\ n <= p BY <2>2, <3>1
    <3>3. Budget(n) \in Nat /\ Budget(n) <= Budget(p) BY <3>2, BudgetIs, BudgetGrows
    <3>4. untilTick \in Nat /\ saveLeft \in Nat BY <1>1, Constants DEF ScheduleTypes
    <3>5. a <= Budget(n) + MaxSave
      <4>1. CASE saving = {}
        <5>1. a + (IF tick THEN 0 ELSE untilTick) <= Budget(n) BY <3>1, <3>2, <4>1 DEF InTime
        <5>2. a <= Budget(n) BY <3>3, <3>4, <5>1
        <5> QED BY <3>3, <5>2, Constants
      <4>2. CASE saving # {}
        <5>1. a + saveLeft <= Budget(n) + MaxSave BY <3>1, <3>2, <4>2 DEF InTime
        <5> QED BY <3>3, <3>4, <5>1, Constants
      <4> QED BY <4>1, <4>2
    <3>6. a <= Budget(p) + MaxSave BY <2>3, <3>3, <3>5, Constants
    <3> QED BY <2>2, <3>6 DEF Budget
  <2> QED BY <2>2, <2>4, <2>5, Constants
<1> QED BY <1>3, <1>4 DEF DelayPerPack

(* An item waits at most one round for each pack that leaves before it and  *)
(* its own, one for each flush that failed meanwhile, and one save, for     *)
(* every size of packs, interval and duration of a save: the flush worker   *)
(* takes one pack per tick or request (pack_store.go:109-122).              *)
THEOREM DelayIsBounded == ScheduleSpec => []DelayPerPack
<1> QED BY ScheduleInvariant, InTimeIsBounded, PTL
=============================================================================
