------------------------------- MODULE Limiter -------------------------------
(***************************************************************************)
(* intervalLimiter (internal/server/limiter.go): callers of wait reserve   *)
(* slots, one interval apart, and sleep until their slot or until their    *)
(* context is done.  A slot that was reserved is never given back.         *)
(*                                                                         *)
(* A minute has Minute units of time, and the interval is an integer       *)
(* division, like that of time.Duration.  Timers are exact.                *)
(***************************************************************************)
EXTENDS Naturals, Sequences, FiniteSets

CONSTANTS
  Callers,
  Minute,
  PerMinute,  \* max-uploads-per-minute
  Limit,      \* the uploads per minute that GitHub documents
  MaxTime     \* bound of the clock and of the slots

ASSUME LimiterAssumption ==
  /\ Minute \in Nat \ {0}
  /\ PerMinute \in 1..Minute
  /\ Limit \in Nat /\ PerMinute < Limit  \* server.go:91
  /\ MaxTime \in Nat
  \* The division cuts off one interval of a minute at most: of 60 * 10^9
  \* nanoseconds, divided by 1 to 199, it cuts off less than 200 nanoseconds.
  /\ Minute <= (PerMinute + 1) * (Minute \div PerMinute)

VARIABLES
  now,
  next,    \* l.next: the first slot that is free
  caller,      \* "idle", "waiting" or "uploading"
  slot,    \* the last slot of a caller
  uploads  \* history: when the uploads began

limiterVars == <<now, next, caller, slot, uploads>>

\* Mutant: one unit too short.
intervalMutant == Minute \div PerMinute - 1

\* newIntervalLimiter
interval == Minute \div PerMinute

LimiterInit ==
  /\ now = 0
  /\ next = 0
  /\ caller = [c \in Callers |-> "idle"]
  /\ slot = [c \in Callers |-> 0]
  /\ uploads = <<>>

FreeSlot == IF next > now THEN next ELSE now

NextFree == FreeSlot + interval

Begin(c) ==
  /\ caller' = [caller EXCEPT ![c] = "uploading"]
  /\ uploads' = Append(uploads, now)

\* The critical section of wait; a slot that is due is taken without a timer.
Reserve(c) ==
  /\ caller[c] = "idle"
  /\ FreeSlot <= MaxTime
  /\ slot' = [slot EXCEPT ![c] = FreeSlot]
  /\ next' = NextFree
  /\ IF FreeSlot <= now
       THEN Begin(c)
       ELSE caller' = [caller EXCEPT ![c] = "waiting"] /\ UNCHANGED uploads
  /\ UNCHANGED now

Wake(c) ==
  /\ caller[c] = "waiting"
  /\ slot[c] = now
  /\ Begin(c)
  /\ UNCHANGED <<now, next, slot>>

Cancelled(c) ==
  /\ caller[c] = "waiting"
  /\ caller' = [caller EXCEPT ![c] = "idle"]
  /\ UNCHANGED <<now, next, slot, uploads>>

Uploaded(c) ==
  /\ caller[c] = "uploading"
  /\ caller' = [caller EXCEPT ![c] = "idle"]
  /\ UNCHANGED <<now, next, slot, uploads>>

\* A timer that is due fires before time goes on.
Tick ==
  /\ now < MaxTime
  /\ \A c \in Callers : caller[c] = "waiting" => slot[c] # now
  /\ now' = now + 1
  /\ UNCHANGED <<next, caller, slot, uploads>>

LimiterNext ==
  \/ \E c \in Callers : Reserve(c) \/ Wake(c) \/ Cancelled(c) \/ Uploaded(c)
  \/ Tick

LimiterSpec == LimiterInit /\ [][LimiterNext]_limiterVars

-----------------------------------------------------------------------------
(* Type invariant: a slot that was taken is not free.                       *)
LimiterTypeOK ==
  /\ now \in 0..MaxTime
  /\ next \in 0..(MaxTime + interval)
  /\ caller \in [Callers -> {"idle", "waiting", "uploading"}]
  /\ slot \in [Callers -> 0..MaxTime]
  /\ \A c \in Callers : caller[c] # "idle" => slot[c] < next
  /\ \A c \in Callers : caller[c] = "waiting" => now <= slot[c]

(* limiter.go:10: "It deliberately has no burst allowance": whatever waits, *)
(* is cancelled or comes after a pause, any n uploads in a row take n - 1   *)
(* intervals.                                                               *)
UploadsSpaced ==
  \A i, j \in 1..Len(uploads) :
    i < j => uploads[j] - uploads[i] >= (j - i) * interval

(* server.go:91 and README.md:176-177: at every setting below GitHub's      *)
(* limit, the highest included, no minute, wherever it begins, has more     *)
(* uploads than the limit: slots that nobody uses and the division of the   *)
(* minute (limiter.go:21) add one upload to the setting at most.            *)
RateIsKept ==
  \A t \in 0..now :
    Cardinality({i \in 1..Len(uploads) : uploads[i] \in t..(t + Minute - 1)}) <= PerMinute + 1

(* limiter.go:9: uploads are spaced "to stay below" the limit.  The highest *)
(* setting, PerMinute = Limit - 1, reaches it; RateStaysBelow says when     *)
(* the comment holds.                                                       *)
BelowLimit ==
  \A t \in 0..now :
    Cardinality({i \in 1..Len(uploads) : uploads[i] \in t..(t + Minute - 1)}) < Limit
=============================================================================
