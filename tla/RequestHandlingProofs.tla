------------------------- MODULE RequestHandlingProofs -------------------------
(***************************************************************************)
(* Theorems about the request handlers, for any finite number of requests  *)
(* that meet at the two keys, and every configuration: the spool, the      *)
(* failure policy, and the counters.                                       *)
(***************************************************************************)
EXTENDS RequestHandling, FiniteSetTheorems, TLAPS

\* TypeOK without the counters.
StateTypes ==
  /\ config \in Configs
  /\ pc \in [Requests -> {"new", "discard", "done"} \cup Reading \cup Writing]
  /\ kind \in [Requests -> Kinds]
  /\ trouble \in [Requests -> {"none"} \cup Troubles]
  /\ status \in [Requests -> {0, 200, 204, 400, 404, 405, 411, 413, 415, 422, 500, 502}]
  /\ \A q \in Requests : pc[q] = "done" <=> status[q] # 0
  /\ stored \in [Kinds -> Requests \cup {None}]
  /\ files \subseteq Requests

\* A request whose file has not been stored, but may be.
Unstored == {"new", "lookup", "load", "loaded", "put", "spooled"}

\* The file of a key was stored by a request for that key, which will not store
\* one again; and a request finds its own file until it has handed it over.
FilesKept ==
  /\ \A k \in Kinds : stored[k] # None =>
       /\ stored[k] \in files
       /\ kind[stored[k]] = k /\ pc[stored[k]] \notin Unstored
  /\ \A q \in Requests : pc[q] \in {"loaded"} \cup (Writing \ {"put"}) => q \in files
  /\ ~Packs =>
       \A q \in files : \/ \E k \in Kinds : stored[k] = q
                        \/ pc[q] \in {"loaded", "discard"} \cup Writing

\* Nothing has gone wrong for a request that was not answered.
NoTroubleYet == \A q \in Requests : pc[q] # "done" => trouble[q] = "none"

\* The two modes hand over an upload in different places.
Modes == ~Packs => \A q \in Requests : pc[q] # "stage"

Passed(places) == Cardinality({q \in Requests : pc[q] \in places})

\* The places behind which the validation of a request is counted.
Counted(c) == IF c = "validatedActionResults" THEN {"open", "publish", "done"} ELSE {"done"}

\* A request increments each counter at most once.
CountedOnce ==
  /\ stats \in [Counters -> Nat]
  /\ \A c \in Counters \ {"requests"} : stats[c] <= Passed(Counted(c))

\* The inductive invariant.
HandlingInv ==
  /\ StateTypes
  /\ FilesKept
  /\ NoTroubleYet
  /\ Modes
  /\ FailurePolicy
  /\ CountedOnce
  /\ AnswersAddUp
-----------------------------------------------------------------------------
(* Counting requests.                                                       *)

\* A set of requests is finite, and grows by one with a request that is new in it.
LEMMA CountRequests ==
  ASSUME NEW S \in SUBSET Requests, NEW q \in Requests
  PROVE  /\ IsFiniteSet(S) /\ Cardinality(S) \in Nat
         /\ Cardinality(S) <= Cardinality(Requests)
         /\ Cardinality(S \cup {q}) = IF q \in S THEN Cardinality(S) ELSE Cardinality(S) + 1
<1>1. IsFiniteSet(Requests) BY RequestHandlingAssumption
<1>2. IsFiniteSet(S) /\ Cardinality(S) <= Cardinality(Requests) BY <1>1, FS_Subset
<1> QED BY <1>2, FS_CardinalityType, FS_AddElement

\* Where a request goes, the number of requests behind a place follows.
LEMMA PassedAfter ==
  ASSUME StateTypes, NEW q \in Requests, NEW state, Goto(q, state),
         NEW CONSTANT places, pc[q] \in places => state \in places
  PROVE  /\ Passed(places) \in Nat
         /\ Passed(places)' = IF state \in places /\ pc[q] \notin places
                                THEN Passed(places) + 1 ELSE Passed(places)
<1> DEFINE S == {r \in Requests : pc[r] \in places}
<1>1. {r \in Requests : pc'[r] \in places} = IF state \in places THEN S \cup {q} ELSE S
  BY DEF Goto, StateTypes
<1>2. Cardinality(S) \in Nat
      /\ Cardinality(S \cup {q}) = IF q \in S THEN Cardinality(S) ELSE Cardinality(S) + 1
  BY CountRequests
<1> QED BY <1>1, <1>2 DEF Passed

\* The requests that have arrived.
LEMMA ArrivedAfter ==
  ASSUME StateTypes, NEW q \in Requests, NEW state, Goto(q, state), state # "new"
  PROVE  /\ Cardinality({r \in Requests : pc[r] # "new"}) \in Nat
         /\ Cardinality({r \in Requests : pc'[r] # "new"}) =
              Cardinality({r \in Requests : pc[r] # "new"})
              + (IF pc[q] = "new" THEN 1 ELSE 0)
<1> DEFINE S == {r \in Requests : pc[r] # "new"}
<1>1. {r \in Requests : pc'[r] # "new"} = S \cup {q} BY DEF Goto, StateTypes
<1>2. Cardinality(S) \in Nat
      /\ Cardinality(S \cup {q}) = IF q \in S THEN Cardinality(S) ELSE Cardinality(S) + 1
  BY CountRequests
<1> QED BY <1>1, <1>2

\* An answer is the first one to its request.
LEMMA AnsweredAfter ==
  ASSUME StateTypes, NEW q \in Requests, status[q] = 0, NEW code,
         status' = [status EXCEPT ![q] = code], NEW CONSTANT codes, 0 \notin codes
  PROVE  /\ Answered(codes) \in Nat
         /\ Answered(codes)' = Answered(codes) + (IF code \in codes THEN 1 ELSE 0)
<1> DEFINE S == {r \in Requests : status[r] \in codes}
<1>1. {r \in Requests : status'[r] \in codes} = IF code \in codes THEN S \cup {q} ELSE S
  BY DEF StateTypes
<1>2. Cardinality(S) \in Nat
      /\ Cardinality(S \cup {q}) = IF q \in S THEN Cardinality(S) ELSE Cardinality(S) + 1
  BY CountRequests
<1>3. q \notin S OBVIOUS
<1> QED BY <1>1, <1>2, <1>3 DEF Answered

\* The counters are bounded by the number of requests.
LEMMA CountersBounded ==
  ASSUME HandlingInv
  PROVE  stats \in [Counters -> 0..Cardinality(Requests)]
<1>1. ASSUME NEW c \in Counters PROVE stats[c] \in 0..Cardinality(Requests)
  <2>1. Cardinality(Requests) \in Nat BY RequestHandlingAssumption, FS_CardinalityType
  <2>2. \A S \in SUBSET Requests : Cardinality(S) \in Nat /\ Cardinality(S) <= Cardinality(Requests)
    BY RequestHandlingAssumption, FS_Subset, FS_CardinalityType
  <2>3. CASE c = "requests"
    BY <2>2, <2>3 DEF HandlingInv, AnswersAddUp, CountedOnce
  <2>4. CASE c # "requests"
    <3>1. stats[c] \in Nat /\ stats[c] <= Passed(Counted(c))
      BY <2>4 DEF HandlingInv, CountedOnce
    <3>2. {q \in Requests : pc[q] \in Counted(c)} \in SUBSET Requests OBVIOUS
    <3>3. Passed(Counted(c)) \in Nat /\ Passed(Counted(c)) <= Cardinality(Requests)
      BY <2>2, <3>2 DEF Passed
    <3> QED BY <2>1, <3>1, <3>3
  <2> QED BY <2>3, <2>4
<1> QED BY <1>1 DEF HandlingInv, CountedOnce
-----------------------------------------------------------------------------
(* Steps of one request, for all its actions at once.                       *)

Codes == {200, 204, 400, 404, 405, 411, 413, 415, 422, 500, 502}
OK == {200}
NotFound == {404}
NoContent == {204}
Rejections == {400, 405, 411, 413, 415, 422}

In(c, counters) == IF c \in counters THEN 1 ELSE 0

\* The counters that go with an answer.
Fits(q, code, counters) ==
  /\ counters \subseteq Counters
  /\ "requests" \in counters <=> pc[q] = "new"
  /\ "hits" \in counters <=> code = 200
  /\ "misses" \in counters <=> code = 404
  /\ "rejectedRequests" \in counters <=> code \in Rejections
  /\ "validatedActionResults" \in counters => pc[q] \notin {"open", "publish"}
  /\ ~Packs => (IF code = 204 THEN 1 ELSE 0)
                 = In("uploads", counters) + In("deduplicatedUploads", counters)
                   + In("discardedUploads", counters)
                   + In("skippedActionResultUploads", counters)
                   + (IF FailOpen THEN In("backendSaveErrors", counters) ELSE 0)

\* An answer with its counters keeps the sums.
LEMMA AnswerCounts ==
  ASSUME HandlingInv, NEW q \in Requests, pc[q] # "done", NEW code \in Codes,
         NEW counters, Answer(q, code, counters), Fits(q, code, counters)
  PROVE  CountedOnce' /\ AnswersAddUp'
<1> USE DEF HandlingInv
<1>1. /\ StateTypes /\ status[q] = 0 /\ Goto(q, "done") /\ UNCHANGED config
      /\ status' = [status EXCEPT ![q] = code]
      /\ stats \in [Counters -> Nat]
      /\ stats' = [c \in Counters |-> IF c \in counters THEN stats[c] + 1 ELSE stats[c]]
  BY DEF Answer, Count, StateTypes, CountedOnce
<1>2. \A c \in Counters : stats[c] \in Nat /\ stats'[c] = stats[c] + In(c, counters)
  BY <1>1 DEF In
<1>3. stats' \in [Counters -> Nat] BY <1>1
<1>4. ASSUME NEW c \in Counters \ {"requests"}
      PROVE  stats'[c] <= Passed(Counted(c))'
  <2>1. Passed(Counted(c)) \in Nat
        /\ Passed(Counted(c))' = IF pc[q] \notin Counted(c)
                                   THEN Passed(Counted(c)) + 1 ELSE Passed(Counted(c))
    BY <1>1, PassedAfter DEF Counted
  <2>2. stats[c] <= Passed(Counted(c)) BY DEF CountedOnce
  <2>3. c \in counters => pc[q] \notin Counted(c) BY DEF Fits, Counted
  <2> QED BY <1>2, <2>1, <2>2, <2>3 DEF In
<1>5. CountedOnce' BY <1>3, <1>4 DEF CountedOnce
<1>6. /\ {"requests", "hits", "misses", "rejectedRequests", "uploads", "deduplicatedUploads",
          "discardedUploads", "skippedActionResultUploads", "backendSaveErrors"} \subseteq Counters
  BY DEF Counters
<1>7. stats'["requests"] = Cardinality({r \in Requests : pc'[r] # "new"})
  BY <1>1, <1>2, <1>6, ArrivedAfter DEF Fits, In, AnswersAddUp
<1>8. /\ Answered(OK) \in Nat
      /\ Answered(OK)' = Answered(OK) + (IF code \in OK THEN 1 ELSE 0)
  <2>1. 0 \notin OK BY DEF OK
  <2> QED BY <1>1, <2>1, AnsweredAfter
<1>9. /\ Answered(NotFound) \in Nat
      /\ Answered(NotFound)' = Answered(NotFound) + (IF code \in NotFound THEN 1 ELSE 0)
  <2>1. 0 \notin NotFound BY DEF NotFound
  <2> QED BY <1>1, <2>1, AnsweredAfter
<1>10. /\ Answered(Rejections) \in Nat
       /\ Answered(Rejections)' = Answered(Rejections) + (IF code \in Rejections THEN 1 ELSE 0)
  <2>1. 0 \notin Rejections BY DEF Rejections
  <2> QED BY <1>1, <2>1, AnsweredAfter
<1>11. /\ Answered(NoContent) \in Nat
       /\ Answered(NoContent)' = Answered(NoContent) + (IF code \in NoContent THEN 1 ELSE 0)
  <2>1. 0 \notin NoContent BY DEF NoContent
  <2> QED BY <1>1, <2>1, AnsweredAfter
<1>12. stats'["hits"] = Answered(OK)' /\ stats'["misses"] = Answered(NotFound)'
       /\ stats'["rejectedRequests"] = Answered(Rejections)'
  BY <1>2, <1>6, <1>8, <1>9, <1>10 DEF Fits, In, AnswersAddUp, Rejections, OK, NotFound
<1>13. ASSUME ~Packs
       PROVE  Answered(NoContent)' = stats'["uploads"] + stats'["deduplicatedUploads"]
                + stats'["discardedUploads"] + stats'["skippedActionResultUploads"]
                + (IF FailOpen THEN stats'["backendSaveErrors"] ELSE 0)
  <2>1. Answered(NoContent) = stats["uploads"] + stats["deduplicatedUploads"]
         + stats["discardedUploads"] + stats["skippedActionResultUploads"]
         + (IF FailOpen THEN stats["backendSaveErrors"] ELSE 0)
    BY <1>13 DEF AnswersAddUp, NoContent
  <2>2. (IF code = 204 THEN 1 ELSE 0)
          = In("uploads", counters) + In("deduplicatedUploads", counters)
            + In("discardedUploads", counters) + In("skippedActionResultUploads", counters)
            + (IF FailOpen THEN In("backendSaveErrors", counters) ELSE 0)
    BY <1>13 DEF Fits
  <2>3. \A c : In(c, counters) \in Nat BY DEF In
  <2>4. \A c \in {"uploads", "deduplicatedUploads", "discardedUploads",
                   "skippedActionResultUploads", "backendSaveErrors"} :
          stats[c] \in Nat /\ stats'[c] = stats[c] + In(c, counters)
    BY <1>2, <1>6
  <2>5. Answered(NoContent)' = Answered(NoContent) + (IF code = 204 THEN 1 ELSE 0)
    BY <1>11 DEF NoContent
  <2>6. CASE FailOpen BY <1>11, <2>1, <2>2, <2>3, <2>4, <2>5, <2>6
  <2>7. CASE ~FailOpen BY <1>11, <2>1, <2>2, <2>3, <2>4, <2>5, <2>7
  <2> QED BY <2>6, <2>7
<1>14. AnswersAddUp'
  BY <1>1, <1>7, <1>12, <1>13 DEF AnswersAddUp, Packs, FailOpen, OK, NotFound, NoContent, Rejections
<1> QED BY <1>5, <1>14

\* A step that does not answer changes no sum but the arrivals.
LEMMA MoveCounts ==
  ASSUME HandlingInv, NEW q \in Requests, NEW state, state \notin {"new", "done"},
         pc[q] \notin {"done", "open", "publish"}, Goto(q, state),
         UNCHANGED <<config, status>>, NEW counters, Count(counters),
         counters \subseteq {"requests", "validatedActionResults"},
         "requests" \in counters <=> pc[q] = "new",
         "validatedActionResults" \in counters => state \in {"open", "publish"}
  PROVE  CountedOnce' /\ AnswersAddUp'
<1> USE DEF HandlingInv
<1>1. /\ stats \in [Counters -> Nat]
      /\ stats' = [c \in Counters |-> IF c \in counters THEN stats[c] + 1 ELSE stats[c]]
  BY DEF Count, CountedOnce
<1>2. \A c \in Counters : stats[c] \in Nat /\ stats'[c] = stats[c] + In(c, counters)
  BY <1>1 DEF In
<1>3. ASSUME NEW c \in Counters \ {"requests"}
      PROVE  stats'[c] <= Passed(Counted(c))'
  <2>1. pc[q] \notin Counted(c) BY DEF Counted
  <2>2. Passed(Counted(c)) \in Nat
        /\ Passed(Counted(c))' = IF state \in Counted(c) /\ pc[q] \notin Counted(c)
                                   THEN Passed(Counted(c)) + 1 ELSE Passed(Counted(c))
    BY <2>1, PassedAfter
  <2>3. stats[c] <= Passed(Counted(c)) BY DEF CountedOnce
  <2>4. c \in counters => state \in Counted(c) BY DEF Counted
  <2> QED BY <1>2, <2>1, <2>2, <2>3, <2>4 DEF In
<1>4. CountedOnce' BY <1>1, <1>3 DEF CountedOnce
<1>5. stats'["requests"] = Cardinality({r \in Requests : pc'[r] # "new"})
  BY <1>2, ArrivedAfter DEF In, AnswersAddUp, Counters
<1>6. \A c \in Counters \ {"requests", "validatedActionResults"} : stats'[c] = stats[c]
  <2>1. \A c \in Counters \ {"requests", "validatedActionResults"} : c \notin counters OBVIOUS
  <2> QED BY <1>1, <2>1
<1>7. \A codes : Answered(codes)' = Answered(codes) BY DEF Answered
<1>8. AnswersAddUp'
  BY <1>5, <1>6, <1>7 DEF AnswersAddUp, Counters, Packs, FailOpen
<1> QED BY <1>4, <1>8
\* An answer whose status is in line with the policy keeps the invariant: the
\* deferred removal takes only the request's own file, and only an unstored one.
LEMMA AnswerStep ==
  ASSUME HandlingInv, NEW q \in Requests, pc[q] # "done", NEW code \in Codes,
         NEW counters, Answer(q, code, counters), Fits(q, code, counters),
         UNCHANGED trouble \/ \E why \in Troubles : Fails(q, why),
         IF FailOpen THEN code \in {500, 502} => trouble'[q] = "disk"
                     ELSE trouble'[q] = "service" => code = 502
  PROVE  HandlingInv'
<1> USE DEF HandlingInv
<1>1. /\ pc' = [pc EXCEPT ![q] = "done"] /\ status' = [status EXCEPT ![q] = code]
      /\ files' = LeftBehind(q) /\ UNCHANGED <<config, kind, stored>>
      /\ pc \in [Requests -> {"new", "discard", "done"} \cup Reading \cup Writing]
      /\ trouble \in [Requests -> {"none"} \cup Troubles]
  BY DEF Answer, Goto, StateTypes
<1>2. trouble' \in [Requests -> {"none"} \cup Troubles]
      /\ \A r \in Requests \ {q} : trouble'[r] = trouble[r]
  BY <1>1 DEF Fails
<1>3. /\ \A r \in Requests \ {q} : pc'[r] = pc[r] /\ status'[r] = status[r]
      /\ pc'[q] = "done" /\ status'[q] = code /\ code # 0
  BY <1>1 DEF StateTypes, Codes
<1>4. files' \subseteq files /\ files \ {q} \subseteq files' BY <1>1 DEF LeftBehind
<1>5. StateTypes'
  <2>1. pc' \in [Requests -> {"new", "discard", "done"} \cup Reading \cup Writing] BY <1>1
  <2>2. status' \in [Requests -> {0, 200, 204, 400, 404, 405, 411, 413, 415, 422, 500, 502}]
    BY <1>1 DEF StateTypes, Codes
  <2>3. \A r \in Requests : pc'[r] = "done" <=> status'[r] # 0 BY <1>3 DEF StateTypes
  <2> QED BY <1>1, <1>2, <1>4, <2>1, <2>2, <2>3 DEF StateTypes
<1>6. FilesKept'
  <2>1. ASSUME NEW k \in Kinds, stored[k] # None
        PROVE  stored[k] \in files' /\ kind[stored[k]] = k /\ pc'[stored[k]] \notin Unstored
    <3>1. /\ stored[k] \in files /\ kind[stored[k]] = k /\ pc[stored[k]] \notin Unstored
          /\ stored[k] \in Requests
      BY <2>1 DEF FilesKept, StateTypes
    <3>2. stored[k] \in files' BY <1>1, <1>4, <3>1 DEF LeftBehind
    <3> QED BY <1>3, <3>1, <3>2 DEF Unstored
  <2>2. \A r \in Requests : pc'[r] \in {"loaded"} \cup (Writing \ {"put"}) => r \in files'
    BY <1>3, <1>4 DEF FilesKept, Writing
  <2>3. ASSUME ~Packs, NEW r \in files'
        PROVE  \/ \E k \in Kinds : stored[k] = r
               \/ pc'[r] \in {"loaded", "discard"} \cup Writing
    <3>1. CASE r = q
      <4>1. stored[kind[q]] = q /\ kind[q] \in Kinds
        BY <1>1, <2>3, <3>1 DEF LeftBehind, StateTypes
      <4> QED BY <3>1, <4>1
    <3>2. CASE r # q BY <1>3, <1>4, <2>3, <3>2 DEF FilesKept, StateTypes
    <3> QED BY <3>1, <3>2
  <2> QED BY <1>1, <2>1, <2>2, <2>3 DEF FilesKept, Packs
<1>7. NoTroubleYet' /\ Modes'
  BY <1>1, <1>2, <1>3 DEF NoTroubleYet, Modes, Packs
<1>8. FailurePolicy'
  BY <1>1, <1>2, <1>3 DEF FailurePolicy, FailOpen
<1> QED BY <1>5, <1>6, <1>7, <1>8, AnswerCounts

\* A request that goes on keeps the invariant, if it handles the files well.
LEMMA MoveStep ==
  ASSUME HandlingInv, NEW q \in Requests,
         NEW state \in {"discard"} \cup Reading \cup Writing,
         pc[q] \notin {"done", "open", "publish"}, Goto(q, state),
         UNCHANGED <<config, trouble, status>>,
         kind' \in [Requests -> Kinds], stored' \in [Kinds -> Requests \cup {None}],
         files' \subseteq Requests, FilesKept', state = "stage" => Packs,
         NEW counters, Count(counters),
         counters \subseteq {"requests", "validatedActionResults"},
         "requests" \in counters <=> pc[q] = "new",
         "validatedActionResults" \in counters => state \in {"open", "publish"}
  PROVE  HandlingInv'
<1> USE DEF HandlingInv
<1>1. /\ pc' = [pc EXCEPT ![q] = state] /\ state \notin {"new", "done"}
      /\ pc \in [Requests -> {"new", "discard", "done"} \cup Reading \cup Writing]
  BY DEF Goto, StateTypes, Reading, Writing
<1>2. /\ \A r \in Requests \ {q} : pc'[r] = pc[r]
      /\ pc'[q] = state
      /\ pc' \in [Requests -> {"new", "discard", "done"} \cup Reading \cup Writing]
  BY <1>1
<1>3. StateTypes' BY <1>1, <1>2 DEF StateTypes
<1>4. NoTroubleYet' /\ Modes' BY <1>1, <1>2 DEF NoTroubleYet, Modes, Packs
<1>5. FailurePolicy' BY <1>1, <1>2 DEF FailurePolicy, FailOpen
<1>6. CountedOnce' /\ AnswersAddUp' BY <1>1, MoveCounts
<1> QED BY <1>3, <1>4, <1>5, <1>6
-----------------------------------------------------------------------------
(* The handlers.                                                            *)

\* Nothing was handled yet.
LEMMA HandlingInit == Init => HandlingInv
<1> SUFFICES ASSUME Init PROVE HandlingInv OBVIOUS
<1>1. StateTypes BY DEF Init, StateTypes, Kinds
<1>2. FilesKept BY DEF Init, FilesKept, Writing
<1>3. NoTroubleYet /\ Modes /\ FailurePolicy
  BY DEF Init, NoTroubleYet, Modes, FailurePolicy
<1>4. \A S : S = {} => Cardinality(S) = 0 BY FS_EmptySet
<1>5. {q \in Requests : pc[q] # "new"} = {} BY DEF Init
<1>6. \A codes : 0 \notin codes => Answered(codes) = 0
  <2> SUFFICES ASSUME NEW codes, 0 \notin codes PROVE Answered(codes) = 0 OBVIOUS
  <2>1. {q \in Requests : status[q] \in codes} = {} BY DEF Init
  <2> QED BY <1>4, <2>1 DEF Answered
<1>7. \A c \in Counters : stats[c] = 0 BY DEF Init
<1>8. CountedOnce
  <2>1. \A c \in Counters : Passed(Counted(c)) = 0
    <3> SUFFICES ASSUME NEW c \in Counters PROVE Passed(Counted(c)) = 0 OBVIOUS
    <3>1. {q \in Requests : pc[q] \in Counted(c)} = {} BY DEF Init, Counted
    <3> QED BY <1>4, <3>1 DEF Passed
  <2> QED BY <1>7, <2>1 DEF Init, CountedOnce
<1>9. AnswersAddUp
  <2>1. 0 \notin OK /\ 0 \notin NotFound /\ 0 \notin NoContent /\ 0 \notin Rejections
    BY DEF OK, NotFound, NoContent, Rejections
  <2>2. Answered(OK) = 0 /\ Answered(NotFound) = 0 /\ Answered(NoContent) = 0
        /\ Answered(Rejections) = 0
    BY <1>6, <2>1
  <2>3. Cardinality({q \in Requests : pc[q] # "new"}) = 0 BY <1>4, <1>5
  <2>4. stats["requests"] = 0 /\ stats["hits"] = 0 /\ stats["misses"] = 0
        /\ stats["rejectedRequests"] = 0 /\ stats["uploads"] = 0
        /\ stats["deduplicatedUploads"] = 0 /\ stats["discardedUploads"] = 0
        /\ stats["skippedActionResultUploads"] = 0 /\ stats["backendSaveErrors"] = 0
    BY <1>7 DEF Counters
  <2> QED BY <2>2, <2>3, <2>4
          DEF AnswersAddUp, OK, NotFound, NoContent, Rejections
<1> QED BY <1>1, <1>2, <1>3, <1>8, <1>9 DEF HandlingInv

\* serveHTTP: a request arrives, is rejected, or reads the empty blob.
LEMMA ArrivalSteps ==
  ASSUME HandlingInv, NEW q \in Requests,
         \/ \E k \in Kinds, state \in {"lookup", "put"} : Arrive(q, k, state)
         \/ Reject(q) \/ ReadEmpty(q)
  PROVE  HandlingInv'
<1>1. pc[q] = "new" /\ pc \in [Requests -> {"new", "discard", "done"} \cup Reading \cup Writing]
  BY DEF Arrive, Reject, ReadEmpty, HandlingInv, StateTypes
<1>2. ASSUME NEW k \in Kinds, NEW state \in {"lookup", "put"}, Arrive(q, k, state)
      PROVE  HandlingInv'
  <2>1. /\ Goto(q, state) /\ Count({"requests"})
        /\ kind' = [kind EXCEPT ![q] = k]
        /\ UNCHANGED <<config, trouble, status, stored, files>>
    BY <1>2 DEF Arrive
  <2>2. state \in {"discard"} \cup Reading \cup Writing /\ state # "stage"
    BY DEF Reading, Writing
  <2>3. \A r \in Requests \ {q} : pc'[r] = pc[r] /\ kind'[r] = kind[r]
    BY <1>1, <2>1 DEF Goto, HandlingInv, StateTypes
  <2>4. pc'[q] = state BY <1>1, <2>1 DEF Goto
  <2>5. FilesKept'
    <3>1. \A k2 \in Kinds : stored[k2] # q
      BY <1>1, RequestHandlingAssumption DEF HandlingInv, FilesKept, Unstored, StateTypes
    <3>2. ASSUME NEW k2 \in Kinds, stored'[k2] # None
          PROVE  stored'[k2] \in files' /\ kind'[stored'[k2]] = k2
                 /\ pc'[stored'[k2]] \notin Unstored
      BY <2>1, <2>3, <3>1, <3>2 DEF HandlingInv, FilesKept, StateTypes
    <3>3. \A r \in Requests : pc'[r] \in {"loaded"} \cup (Writing \ {"put"}) => r \in files'
      BY <2>1, <2>3, <2>4 DEF HandlingInv, FilesKept, Writing
    <3>4. ~Packs => \A r \in files' : \/ \E k2 \in Kinds : stored'[k2] = r
                                      \/ pc'[r] \in {"loaded", "discard"} \cup Writing
      BY <1>1, <2>1, <2>3, <2>4, <3>1 DEF HandlingInv, FilesKept, StateTypes, Writing
    <3> QED BY <2>1, <3>2, <3>3, <3>4 DEF FilesKept, Packs
  <2>6. kind' \in [Requests -> Kinds] /\ stored' \in [Kinds -> Requests \cup {None}]
        /\ files' \subseteq Requests
    BY <2>1 DEF HandlingInv, StateTypes
  <2> QED BY <1>1, <2>1, <2>2, <2>5, <2>6, MoveStep
<1>3. CASE Reject(q)
  <2>1. PICK code \in {400, 405, 411, 413, 415} :
          Answer(q, code, {"requests", "rejectedRequests"})
    BY <1>3 DEF Reject
  <2>2. Fits(q, code, {"requests", "rejectedRequests"})
    BY <1>1 DEF Fits, In, Counters, Rejections
  <2>3. IF FailOpen THEN code \in {500, 502} => trouble'[q] = "disk"
                    ELSE trouble'[q] = "service" => code = 502
    BY <1>1, <1>3 DEF Reject, HandlingInv, NoTroubleYet
  <2> QED BY <1>1, <1>3, <2>1, <2>2, <2>3, AnswerStep DEF Reject, Codes
<1>4. CASE ReadEmpty(q)
  <2>1. Fits(q, 200, {"requests", "hits"})
    BY <1>1 DEF Fits, In, Counters, Rejections
  <2>2. trouble'[q] = "none" BY <1>1, <1>4 DEF ReadEmpty, HandlingInv, NoTroubleYet
  <2> QED BY <1>1, <1>4, <2>1, <2>2, AnswerStep DEF ReadEmpty, Codes
<1> QED BY <1>2, <1>3, <1>4
\* How far a failed read may reach the client.
LEMMA ReadFailsStep ==
  ASSUME HandlingInv, NEW q \in Requests, pc[q] \in {"load", "validate"},
         NEW why \in Troubles, ReadFails(q, why)
  PROVE  HandlingInv'
<1>1. pc[q] \notin {"new", "done", "open", "publish"} /\ trouble'[q] = why
  BY DEF ReadFails, Fails, HandlingInv, StateTypes
<1>2. CASE FailOpen
  <2>1. Answer(q, 404, {"backendLoadErrors", "misses"}) BY <1>2 DEF ReadFails
  <2>2. Fits(q, 404, {"backendLoadErrors", "misses"})
    BY <1>1 DEF Fits, In, Counters, Rejections
  <2> QED BY <1>1, <1>2, <2>1, <2>2, AnswerStep DEF ReadFails, Codes
<1>3. CASE ~FailOpen
  <2>1. Answer(q, 502, {"backendLoadErrors"}) BY <1>3 DEF ReadFails
  <2>2. Fits(q, 502, {"backendLoadErrors"})
    BY <1>1 DEF Fits, In, Counters, Rejections
  <2> QED BY <1>1, <1>3, <2>1, <2>2, AnswerStep DEF ReadFails, Codes
<1> QED BY <1>2, <1>3

\* The answers of handleRead, whatever the lookup, the load and the validation
\* bring.
LEMMA ReadAnswers ==
  ASSUME HandlingInv, NEW q \in Requests,
         \/ Miss(q) \/ LoadFails(q) \/ NotServed(q) \/ ValidationFails(q) \/ Serve(q)
         \/ OpenFails(q)
  PROVE  HandlingInv'
<1>0. pc[q] # "done" => trouble[q] = "none" BY DEF HandlingInv, NoTroubleYet
<1>1. CASE Miss(q)
  <2>1. pc[q] = "load" /\ Answer(q, 404, {"misses"}) /\ UNCHANGED trouble BY <1>1 DEF Miss
  <2>2. Fits(q, 404, {"misses"}) BY <2>1 DEF Fits, In, Counters, Rejections
  <2> QED BY <1>0, <2>1, <2>2, AnswerStep DEF Codes
<1>2. CASE LoadFails(q)
  <2>1. PICK why \in Troubles : ReadFails(q, why) BY <1>2 DEF LoadFails
  <2> QED BY <1>2, <2>1, ReadFailsStep DEF LoadFails
<1>3. CASE NotServed(q)
  <2>1. PICK c \in {"incompleteActionResults", "invalidActionResults"} :
          Answer(q, 404, {c, "misses"})
    BY <1>3 DEF NotServed
  <2>2. pc[q] = "validate" /\ UNCHANGED trouble BY <1>3 DEF NotServed
  <2>3. Fits(q, 404, {c, "misses"}) BY <2>2 DEF Fits, In, Counters, Rejections
  <2> QED BY <1>0, <2>1, <2>2, <2>3, AnswerStep DEF Codes
<1>4. CASE ValidationFails(q)
  <2>1. PICK why \in Troubles : ReadFails(q, why) BY <1>4 DEF ValidationFails
  <2> QED BY <1>4, <2>1, ReadFailsStep DEF ValidationFails
<1>5. CASE Serve(q)
  <2>1. pc[q] = "open" /\ Answer(q, 200, {"hits"}) /\ UNCHANGED trouble BY <1>5 DEF Serve
  <2>2. Fits(q, 200, {"hits"}) BY <2>1 DEF Fits, In, Counters, Rejections
  <2> QED BY <1>0, <2>1, <2>2, AnswerStep DEF Codes
<1>6. CASE OpenFails(q)
  <2>1. pc[q] = "open" /\ Fails(q, "disk") /\ "disk" \in Troubles /\ trouble'[q] = "disk"
    BY <1>6 DEF OpenFails, Fails, Troubles, HandlingInv, StateTypes
  <2>2. CASE FailOpen
    <3>1. Answer(q, 404, {"backendLoadErrors", "misses"}) BY <1>6, <2>2 DEF OpenFails
    <3>2. Fits(q, 404, {"backendLoadErrors", "misses"})
      BY <2>1 DEF Fits, In, Counters, Rejections
    <3> QED BY <2>1, <2>2, <3>1, <3>2, AnswerStep DEF Codes
  <2>3. CASE ~FailOpen
    <3>1. Answer(q, 500, {"backendLoadErrors"}) BY <1>6, <2>3 DEF OpenFails
    <3>2. Fits(q, 500, {"backendLoadErrors"})
      BY <2>1 DEF Fits, In, Counters, Rejections
    <3> QED BY <2>1, <2>3, <3>1, <3>2, AnswerStep DEF Codes
  <2> QED BY <2>2, <2>3
<1> QED BY <1>1, <1>2, <1>3, <1>4, <1>5, <1>6

\* The answers of handlePut.  What the client may not see as an error is counted
\* as skipped or as a save error.
LEMMA PutAnswers ==
  ASSUME HandlingInv, NEW q \in Requests,
         \/ SpoolFails(q) \/ RejectBody(q) \/ Discard(q) \/ NotPublished(q)
         \/ PutValidationFails(q) \/ Stage(q) \/ StageFails(q) \/ Publish(q) \/ PublishFails(q)
  PROVE  HandlingInv'
<1>0. /\ pc[q] # "done" => trouble[q] = "none"
      /\ trouble \in [Requests -> {"none"} \cup Troubles]
  BY DEF HandlingInv, NoTroubleYet, StateTypes
<1>1. CASE SpoolFails(q)
  <2>1. /\ pc[q] \in {"put", "spooled"} /\ Fails(q, "disk") /\ Answer(q, 500, {})
        /\ "disk" \in Troubles /\ trouble'[q] = "disk"
    BY <1>0, <1>1 DEF SpoolFails, Fails, Troubles
  <2>2. Fits(q, 500, {}) BY <2>1 DEF Fits, In, Counters, Rejections
  <2> QED BY <2>1, <2>2, AnswerStep DEF Codes
<1>2. CASE RejectBody(q)
  <2>1. PICK code \in {400, 422} : Answer(q, code, {"rejectedRequests"})
    BY <1>2 DEF RejectBody
  <2>2. pc[q] = "spooled" /\ UNCHANGED trouble BY <1>2 DEF RejectBody
  <2>3. Fits(q, code, {"rejectedRequests"}) BY <2>2 DEF Fits, In, Counters, Rejections
  <2> QED BY <1>0, <2>1, <2>2, <2>3, AnswerStep DEF Codes
<1>3. CASE Discard(q)
  <2>1. pc[q] = "discard" /\ Answer(q, 204, {"discardedUploads"}) /\ UNCHANGED trouble
    BY <1>3 DEF Discard
  <2>2. Fits(q, 204, {"discardedUploads"}) BY <2>1 DEF Fits, In, Counters, Rejections
  <2> QED BY <1>0, <2>1, <2>2, AnswerStep DEF Codes
<1>4. CASE NotPublished(q)
  <2>1. PICK c \in {"incompleteActionResults", "invalidActionResults"} :
          Answer(q, 204, {c, "skippedActionResultUploads"})
    BY <1>4 DEF NotPublished
  <2>2. pc[q] = "validatePut" /\ UNCHANGED trouble BY <1>4 DEF NotPublished
  <2>3. Fits(q, 204, {c, "skippedActionResultUploads"})
    BY <2>2 DEF Fits, In, Counters, Rejections
  <2> QED BY <1>0, <2>1, <2>2, <2>3, AnswerStep DEF Codes
<1>5. CASE PutValidationFails(q)
  <2>1. PICK why \in Troubles : Fails(q, why) BY <1>5 DEF PutValidationFails
  <2>2. pc[q] = "validatePut" BY <1>5 DEF PutValidationFails
  <2>3. CASE FailOpen
    <3>1. Answer(q, 204, {"backendLoadErrors", "skippedActionResultUploads"})
      BY <1>5, <2>3 DEF PutValidationFails
    <3>2. Fits(q, 204, {"backendLoadErrors", "skippedActionResultUploads"})
      BY <2>2 DEF Fits, In, Counters, Rejections
    <3> QED BY <2>1, <2>2, <2>3, <3>1, <3>2, AnswerStep DEF Codes
  <2>4. CASE ~FailOpen
    <3>1. Answer(q, 502, {"backendLoadErrors"}) BY <1>5, <2>4 DEF PutValidationFails
    <3>2. Fits(q, 502, {"backendLoadErrors"}) BY <2>2 DEF Fits, In, Counters, Rejections
    <3> QED BY <2>1, <2>2, <2>4, <3>1, <3>2, AnswerStep DEF Codes
  <2> QED BY <2>3, <2>4
<1>6. CASE Stage(q)
  <2>1. pc[q] = "stage" /\ UNCHANGED trouble /\ Packs
    BY <1>6 DEF Stage, HandlingInv, Modes
  <2> DEFINE counters == IF kind[q] = "ac" THEN {"validatedActionResults"} ELSE {}
  <2>2. Answer(q, 204, counters) BY <1>6 DEF Stage
  <2>3. Fits(q, 204, counters) BY <2>1 DEF Fits, In, Counters, Rejections
  <2> HIDE DEF counters
  <2> QED BY <1>0, <2>1, <2>2, <2>3, AnswerStep DEF Codes
<1>7. ASSUME NEW why \in Troubles, SaveFails(q, why), pc[q] \in {"stage", "publish"},
             pc[q] = "stage" => Packs
      PROVE  HandlingInv'
  <2>1. Fails(q, why) BY <1>7 DEF SaveFails
  <2>2. CASE FailOpen
    <3>1. Answer(q, 204, {"backendSaveErrors"}) BY <1>7, <2>2 DEF SaveFails, SoftSave
    <3>2. Fits(q, 204, {"backendSaveErrors"}) BY <1>7, <2>2 DEF Fits, In, Counters, Rejections
    <3> QED BY <1>7, <2>1, <2>2, <3>1, <3>2, AnswerStep DEF Codes
  <2>3. CASE ~FailOpen
    <3>1. Answer(q, 502, {"backendSaveErrors"}) BY <1>7, <2>3 DEF SaveFails, SoftSave
    <3>2. Fits(q, 502, {"backendSaveErrors"}) BY <1>7, <2>3 DEF Fits, In, Counters, Rejections
    <3> QED BY <1>7, <2>1, <2>3, <3>1, <3>2, AnswerStep DEF Codes
  <2> QED BY <2>2, <2>3
<1>8. CASE StageFails(q)
  BY <1>7, <1>8 DEF StageFails, Troubles, HandlingInv, Modes
<1>9. CASE Publish(q)
  <2>1. PICK c \in {"uploads", "deduplicatedUploads"} : Answer(q, 204, {c})
    BY <1>9 DEF Publish
  <2>2. pc[q] = "publish" /\ UNCHANGED trouble BY <1>9 DEF Publish
  <2>3. Fits(q, 204, {c}) BY <2>2 DEF Fits, In, Counters, Rejections
  <2> QED BY <1>0, <2>1, <2>2, <2>3, AnswerStep DEF Codes
<1>10. CASE PublishFails(q)
  BY <1>7, <1>10 DEF PublishFails, Troubles
<1> QED BY <1>1, <1>2, <1>3, <1>4, <1>5, <1>6, <1>8, <1>9, <1>10
\* A file that is handed over: the first file of a key stays, and belongs to a
\* request that has it.
LEMMA StoreKeeps ==
  ASSUME HandlingInv, NEW q \in Requests, pc[q] \in {"loaded", "spooled"}, Store(q),
         NEW state \in {"discard"} \cup Reading \cup Writing, state \notin Unstored,
         Goto(q, state), UNCHANGED <<config, kind>>, files' \subseteq files,
         files \ {q} \subseteq files', q \notin files' => stored'[kind[q]] # q,
         state \in Writing => q \in files',
         ~Packs /\ q \in files' => stored'[kind[q]] = q \/ state \in {"discard"} \cup Writing
  PROVE  stored' \in [Kinds -> Requests \cup {None}] /\ FilesKept'
<1> USE DEF HandlingInv
<1>1. /\ stored \in [Kinds -> Requests \cup {None}] /\ kind[q] \in Kinds
      /\ stored' = [stored EXCEPT ![kind[q]] = IF stored[kind[q]] = None THEN q
                                                                         ELSE stored[kind[q]]]
      /\ None \notin Requests
  BY RequestHandlingAssumption DEF StateTypes, Store
<1>2. stored' \in [Kinds -> Requests \cup {None}] BY <1>1
<1>3. /\ \A r \in Requests \ {q} : pc'[r] = pc[r]
      /\ pc'[q] = state
  BY DEF Goto, StateTypes
<1>4. \A k \in Kinds : stored[k] # q BY <1>1 DEF FilesKept, Unstored, StateTypes
<1>5. \A k \in Kinds : stored'[k] \in {stored[k], q} /\ (stored'[k] = q => k = kind[q])
                       /\ (stored[k] # None => stored'[k] = stored[k])
  BY <1>1, <1>4
<1>6. ASSUME NEW k \in Kinds, stored'[k] # None
      PROVE  stored'[k] \in files' /\ kind[stored'[k]] = k /\ pc'[stored'[k]] \notin Unstored
  <2>1. CASE stored'[k] = q
    <3>1. k = kind[q] BY <1>5, <2>1
    <3> QED BY <1>3, <2>1, <3>1
  <2>2. CASE stored'[k] # q
    <3>1. stored'[k] = stored[k] BY <1>5, <2>2
    <3> QED BY <1>3, <1>6, <2>2, <3>1 DEF FilesKept, StateTypes
  <2> QED BY <2>1, <2>2
<1>7. state # "loaded" BY DEF Unstored
<1>8. \A r \in Requests : pc'[r] \in {"loaded"} \cup (Writing \ {"put"}) => r \in files'
  BY <1>3, <1>7 DEF FilesKept
<1>9. ASSUME ~Packs, NEW r \in files'
      PROVE  \/ \E k \in Kinds : stored'[k] = r
             \/ pc'[r] \in {"loaded", "discard"} \cup Writing
  <2>1. CASE r = q BY <1>1, <1>3, <1>9, <2>1
  <2>2. CASE r # q
    <3>1. r \in files /\ r \in Requests BY DEF StateTypes
    <3>2. \/ \E k \in Kinds : stored[k] = r
          \/ pc[r] \in {"loaded", "discard"} \cup Writing
      BY <1>9, <3>1 DEF FilesKept
    <3> QED BY <1>1, <1>3, <1>5, <2>2, <3>1, <3>2
  <2> QED BY <2>1, <2>2
<1> QED BY <1>2, <1>6, <1>8, <1>9 DEF FilesKept, Packs

\* A request that moves on without touching the spool.
LEMMA FilesFrame ==
  ASSUME HandlingInv, NEW q \in Requests, NEW state, Goto(q, state),
         UNCHANGED <<config, kind, stored, files>>, state \notin Unstored \/ pc[q] = "lookup",
         state \notin {"loaded"},
         state \in Writing => state = pc[q] \/ pc[q] \in Writing \ {"put"},
         pc[q] \in {"loaded", "discard"} \cup Writing =>
           state \in {"loaded", "discard"} \cup Writing
  PROVE  FilesKept'
<1> USE DEF HandlingInv
<1>1. /\ \A r \in Requests \ {q} : pc'[r] = pc[r]
      /\ pc'[q] = state
  BY DEF Goto, StateTypes
<1>2. ASSUME NEW k \in Kinds, stored[k] # None
      PROVE  stored[k] \in files /\ kind[stored[k]] = k /\ pc'[stored[k]] \notin Unstored
  BY <1>1, <1>2 DEF FilesKept, StateTypes, Unstored
<1>3. \A r \in Requests : pc'[r] \in {"loaded"} \cup (Writing \ {"put"}) => r \in files
  BY <1>1 DEF FilesKept
<1>4. ~Packs => \A r \in files : \/ \E k \in Kinds : stored[k] = r
                                 \/ pc'[r] \in {"loaded", "discard"} \cup Writing
  BY <1>1 DEF FilesKept, StateTypes
<1> QED BY <1>2, <1>3, <1>4 DEF FilesKept, Packs
\* The steps of handleRead that do not answer.
LEMMA ReadMoves ==
  ASSUME HandlingInv, NEW q \in Requests,
         Lookup(q) \/ Load(q) \/ StoreLoaded(q) \/ Validated(q)
  PROVE  HandlingInv'
<1> USE DEF HandlingInv
<1>1. /\ pc \in [Requests -> {"new", "discard", "done"} \cup Reading \cup Writing]
      /\ kind \in [Requests -> Kinds] /\ stored \in [Kinds -> Requests \cup {None}]
      /\ files \subseteq Requests /\ stats \in [Counters -> Nat]
  BY DEF StateTypes, CountedOnce
<1>2. UNCHANGED stats => Count({}) BY <1>1 DEF Count
<1>3. ASSUME Found(q) PROVE \E state \in {"validate", "open"} : Goto(q, state)
  BY <1>3 DEF Found
<1>4. CASE Lookup(q)
  <2>1. /\ pc[q] = "lookup" /\ UNCHANGED <<config, kind, trouble, status, stored, files, stats>>
        /\ \E state \in {"validate", "open", "load"} : Goto(q, state)
    BY <1>3, <1>4 DEF Lookup
  <2>2. PICK state \in {"validate", "open", "load"} : Goto(q, state) BY <2>1
  <2>3. FilesKept' BY <2>1, <2>2, FilesFrame DEF Writing
  <2> QED BY <1>1, <1>2, <2>1, <2>2, <2>3, MoveStep DEF Reading
<1>5. CASE Load(q)
  <2>1. /\ pc[q] = "load" /\ UNCHANGED <<config, kind, trouble, status, stored, stats>>
    BY <1>5 DEF Load
  <2>2. CASE stored[kind[q]] # None
    <3>1. UNCHANGED files /\ Found(q) BY <1>5, <2>2 DEF Load
    <3>2. PICK state \in {"validate", "open"} : Goto(q, state) BY <1>3, <3>1
    <3>3. FilesKept' BY <2>1, <3>1, <3>2, FilesFrame DEF Writing, Unstored
    <3> QED BY <1>1, <1>2, <2>1, <3>1, <3>2, <3>3, MoveStep DEF Reading
  <2>3. CASE stored[kind[q]] = None
    <3>1. Goto(q, "loaded") /\ files' = files \cup {q} BY <1>5, <2>3 DEF Load
    <3>2. (\A r \in Requests \ {q} : pc'[r] = pc[r]) /\ pc'[q] = "loaded"
      BY <1>1, <3>1 DEF Goto
    <3>3. FilesKept'
      <4>1. \A k \in Kinds : stored[k] # q
        BY <1>1, <2>1, RequestHandlingAssumption DEF FilesKept, Unstored
      <4>2. \A k \in Kinds : stored[k] # None =>
              stored[k] \in files' /\ kind[stored[k]] = k /\ pc'[stored[k]] \notin Unstored
        BY <1>1, <3>1, <3>2, <4>1 DEF FilesKept
      <4>3. \A r \in Requests : pc'[r] \in {"loaded"} \cup (Writing \ {"put"}) => r \in files'
        BY <3>1, <3>2 DEF FilesKept
      <4>4. ~Packs => \A r \in files' : \/ \E k \in Kinds : stored[k] = r
                                        \/ pc'[r] \in {"loaded", "discard"} \cup Writing
        BY <1>1, <3>1, <3>2 DEF FilesKept
      <4> QED BY <2>1, <4>2, <4>3, <4>4 DEF FilesKept, Packs
    <3> QED BY <1>1, <1>2, <2>1, <3>1, <3>3, MoveStep DEF Reading
  <2> QED BY <2>2, <2>3
<1>6. CASE StoreLoaded(q)
  <2>1. /\ pc[q] = "loaded" /\ UNCHANGED <<config, kind, trouble, status, stats>>
        /\ Store(q) /\ Found(q)
        /\ files' = IF Packs \/ stored'[kind[q]] = q THEN files ELSE files \ {q}
    BY <1>6 DEF StoreLoaded
  <2>2. PICK state \in {"validate", "open"} : Goto(q, state) BY <1>3, <2>1
  <2>3. /\ files' \subseteq files /\ files \ {q} \subseteq files'
        /\ ~Packs /\ q \in files' => stored'[kind[q]] = q
        /\ q \notin files' => stored'[kind[q]] # q
    BY <2>1 DEF FilesKept
  <2>4. state \in Reading /\ state \notin Unstored /\ state \notin Writing
    BY DEF Reading, Writing, Unstored
  <2>5. stored' \in [Kinds -> Requests \cup {None}] /\ FilesKept'
    BY <2>1, <2>2, <2>3, <2>4, StoreKeeps
  <2> QED BY <1>1, <1>2, <2>1, <2>2, <2>3, <2>4, <2>5, MoveStep
<1>7. CASE Validated(q)
  <2>1. /\ pc[q] = "validate" /\ Goto(q, "open") /\ Count({"validatedActionResults"})
        /\ UNCHANGED <<config, kind, trouble, status, stored, files>>
    BY <1>7 DEF Validated
  <2>2. FilesKept' BY <2>1, FilesFrame DEF Writing, Unstored
  <2> QED BY <1>1, <2>1, <2>2, MoveStep DEF Reading
<1> QED BY <1>4, <1>5, <1>6, <1>7

\* The steps of handlePut that do not answer.
LEMMA PutMoves ==
  ASSUME HandlingInv, NEW q \in Requests, Spool(q) \/ StoreUpload(q) \/ ValidatedPut(q)
  PROVE  HandlingInv'
<1> USE DEF HandlingInv
<1>1. /\ pc \in [Requests -> {"new", "discard", "done"} \cup Reading \cup Writing]
      /\ kind \in [Requests -> Kinds] /\ stored \in [Kinds -> Requests \cup {None}]
      /\ files \subseteq Requests /\ stats \in [Counters -> Nat]
  BY DEF StateTypes, CountedOnce
<1>2. UNCHANGED stats => Count({}) BY <1>1 DEF Count
<1>3. CASE Spool(q)
  <2>1. /\ pc[q] = "put" /\ Goto(q, "spooled") /\ files' = files \cup {q}
        /\ UNCHANGED <<config, kind, trouble, status, stored, stats>>
    BY <1>3 DEF Spool
  <2>2. (\A r \in Requests \ {q} : pc'[r] = pc[r]) /\ pc'[q] = "spooled"
    BY <1>1, <2>1 DEF Goto
  <2>3. FilesKept'
    <3>1. \A k \in Kinds : stored[k] # q
      BY <1>1, <2>1, RequestHandlingAssumption DEF FilesKept, Unstored
    <3>2. \A k \in Kinds : stored[k] # None =>
            stored[k] \in files' /\ kind[stored[k]] = k /\ pc'[stored[k]] \notin Unstored
      BY <1>1, <2>1, <2>2, <3>1 DEF FilesKept
    <3>3. \A r \in Requests : pc'[r] \in {"loaded"} \cup (Writing \ {"put"}) => r \in files'
      BY <2>1, <2>2 DEF FilesKept
    <3>4. ~Packs => \A r \in files' : \/ \E k \in Kinds : stored[k] = r
                                      \/ pc'[r] \in {"loaded", "discard"} \cup Writing
      BY <1>1, <2>1, <2>2 DEF FilesKept, Writing
    <3> QED BY <2>1, <3>2, <3>3, <3>4 DEF FilesKept, Packs
  <2> QED BY <1>1, <1>2, <2>1, <2>3, MoveStep DEF Writing
<1>4. CASE StoreUpload(q)
  <2>1. /\ pc[q] = "spooled" /\ Store(q) /\ Goto(q, AfterStore(q))
        /\ UNCHANGED <<config, kind, trouble, status, files, stats>>
    BY <1>4 DEF StoreUpload
  <2>2. /\ AfterStore(q) \in {"discard", "validatePut", "stage", "publish"}
        /\ AfterStore(q) = "stage" => Packs
    BY DEF AfterStore
  <2>3. q \in files BY <2>1 DEF FilesKept, Writing
  <2>4. AfterStore(q) \in {"discard"} \cup Writing /\ AfterStore(q) \notin Unstored
    BY <2>2 DEF Writing, Unstored
  <2>5. stored' \in [Kinds -> Requests \cup {None}] /\ FilesKept'
    BY <2>1, <2>3, <2>4, StoreKeeps
  <2> QED BY <1>1, <1>2, <2>1, <2>2, <2>4, <2>5, MoveStep
<1>5. CASE ValidatedPut(q)
  <2>1. /\ pc[q] = "validatePut" /\ Goto(q, IF Packs THEN "stage" ELSE "publish")
        /\ Count(IF Packs THEN {} ELSE {"validatedActionResults"})
        /\ UNCHANGED <<config, kind, trouble, status, stored, files>>
    BY <1>5 DEF ValidatedPut
  <2>2. CASE Packs
    <3>1. Goto(q, "stage") /\ Count({}) BY <2>1, <2>2
    <3>2. FilesKept' BY <2>1, <3>1, FilesFrame DEF Writing, Unstored
    <3> QED BY <1>1, <2>1, <2>2, <3>1, <3>2, MoveStep DEF Writing
  <2>3. CASE ~Packs
    <3>1. Goto(q, "publish") /\ Count({"validatedActionResults"}) BY <2>1, <2>3
    <3>2. FilesKept' BY <2>1, <3>1, FilesFrame DEF Writing, Unstored
    <3> QED BY <1>1, <2>1, <3>1, <3>2, MoveStep DEF Writing
  <2> QED BY <2>2, <2>3
<1> QED BY <1>3, <1>4, <1>5

\* Every step preserves the invariant.
LEMMA HandlingStep == HandlingInv /\ [Next]_vars => HandlingInv'
<1> SUFFICES ASSUME HandlingInv, [Next]_vars PROVE HandlingInv' OBVIOUS
<1>1. CASE UNCHANGED vars
  BY <1>1 DEF vars, HandlingInv, StateTypes, FilesKept, NoTroubleYet, Modes, FailurePolicy,
              CountedOnce, Passed, AnswersAddUp, Answered, Packs, FailOpen
<1>2. ASSUME NEW q \in Requests,
             \/ \E k \in Kinds, state \in {"lookup", "put"} : Arrive(q, k, state)
             \/ Reject(q) \/ ReadEmpty(q) \/ Read(q) \/ Put(q)
      PROVE  HandlingInv'
  BY <1>2, ArrivalSteps, ReadAnswers, ReadMoves, PutAnswers, PutMoves DEF Read, Put
<1> QED BY <1>1, <1>2 DEF Next

-----------------------------------------------------------------------------

\* The invariant holds, whatever requests run concurrently.
THEOREM HandlingInvariant == Spec => []HandlingInv
BY HandlingInit, HandlingStep, PTL DEF Spec

\* server.go, resolve and handlePut: the object of a key stays readable for
\* good, an upload is readable until it was published, and in the objects mode
\* no path of a handler leaves a file behind.
THEOREM SpoolStaysExact == Spec => []SpoolIsExact
<1>1. HandlingInv => SpoolIsExact
  <2> SUFFICES ASSUME HandlingInv PROVE SpoolIsExact OBVIOUS
  <2>1. TypeOK BY CountersBounded DEF HandlingInv, StateTypes, TypeOK
  <2> QED BY <2>1 DEF HandlingInv, FilesKept, SpoolIsExact
<1> QED BY <1>1, HandlingInvariant, PTL

\* handleBackendError and handleSaveError: a server that fails open hides every
\* failure of the cache service, the other kind hides none.
THEOREM FailuresFollowPolicy == Spec => []FailurePolicy
<1>1. HandlingInv => FailurePolicy BY DEF HandlingInv
<1> QED BY <1>1, HandlingInvariant, PTL

\* stats.go: each answer is counted once and under the right name, for any
\* number of concurrent requests.
THEOREM CountersAddUp == Spec => []AnswersAddUp
<1>1. HandlingInv => AnswersAddUp BY DEF HandlingInv
<1> QED BY <1>1, HandlingInvariant, PTL
=============================================================================
