-------------------------- MODULE ObjectStoreProofs --------------------------
(***************************************************************************)
(* The objects storage mode keeps its promises for any number of jobs,     *)
(* handlers, objects and results.                                          *)
(***************************************************************************)
EXTENDS ObjectStore, TLAPS

\* The history contains the present.
SavedBefore ==
  /\ backendCAS \subseteq savedCAS
  /\ \A a \in Actions : backendAC[a] # None => <<a, backendAC[a]>> \in savedAC

\* What a job has served is still stored under the key.
ServedIsStored ==
  \A j \in Jobs : \A x \in served[j] : acObjects[j][x[1]] = x[2]

\* A request, given the objects in the cache, those ever saved, and the spool
\* of its job.  What the validation of an upload has passed is in the cache or
\* was evicted meanwhile; what the validation of a read has passed may be in
\* the spool only.  A read serves what the spool has under the key.
Good(req, present, saved, spool, stored) ==
  /\ req.op = "publish cas" => req.cas \in CAS
  /\ req.op \in {"load", "loaded", "get", "put"} => req.action \in Actions
  /\ req.op \in {"loaded", "get", "put"} => req.value \in Results
  /\ req.lost \subseteq saved
  /\ req.op = "put" => Closure[req.value] \ req.todo \subseteq present \cup req.lost
  /\ req.op = "get" =>
       /\ Closure[req.value] \ req.todo \subseteq spool \cup present \cup req.lost
       /\ stored[req.action] = req.value

GoodIn(h) ==
  Good(request[h], backendCAS, savedCAS, casObjects[JobOf[h]], acObjects[JobOf[h]])

RequestsGood ==
  /\ request \in [Handlers -> Requests]
  /\ \A h \in Handlers : GoodIn(h)

ObjectInv ==
  /\ StoreTypes
  /\ SavedBefore
  /\ ServedIsStored
  /\ DeduplicatedWasSaved
  /\ RequestsGood

-----------------------------------------------------------------------------
(* Requests.                                                                *)

\* A handler that does nothing.
LEMMA IdleGood ==
  /\ Idle \in Requests
  /\ \A present, saved, spool, stored : Good(Idle, present, saved, spool, stored)
BY ObjectStoreAssumption DEF Idle, Request, Requests, Ops, Good

\* An upload of an object that is about to be published.
LEMMA UploadGood ==
  ASSUME NEW c \in CAS
  PROVE  /\ Request("publish cas", c, None, None, {}) \in Requests
         /\ \A present, saved, spool, stored :
              Good(Request("publish cas", c, None, None, {}), present, saved, spool, stored)
BY DEF Request, Requests, Ops, Good

\* A read that missed the spool, and one that has loaded a result.
LEMMA LoadGood ==
  ASSUME NEW a \in Actions
  PROVE  /\ Request("load", None, a, None, {}) \in Requests
         /\ \A v \in Results : Request("loaded", None, a, v, {}) \in Requests
         /\ \A present, saved, spool, stored :
              /\ Good(Request("load", None, a, None, {}), present, saved, spool, stored)
              /\ \A v \in Results :
                   Good(Request("loaded", None, a, v, {}), present, saved, spool, stored)
BY DEF Request, Requests, Ops, Good

\* A validation that begins has passed nothing.
LEMMA ValidatingGood ==
  ASSUME NEW a \in Actions, NEW v \in Results
  PROVE  /\ Validating("put", a, v) \in Requests
         /\ Validating("get", a, v) \in Requests
         /\ \A present, saved, spool, stored :
              /\ Good(Validating("put", a, v), present, saved, spool, stored)
              /\ stored[a] = v =>
                   Good(Validating("get", a, v), present, saved, spool, stored)
BY ObjectStoreAssumption DEF Validating, Request, Requests, Ops, Good

\* A request stays good while the cache and the spool grow.
LEMMA GoodKept ==
  ASSUME NEW req,
         NEW present, NEW saved, NEW spool, NEW stored,
         NEW present2, NEW saved2, NEW spool2, NEW stored2,
         present \subseteq present2, saved \subseteq saved2, spool \subseteq spool2,
         \A a \in Actions : stored[a] \in Results => stored2[a] = stored[a],
         Good(req, present, saved, spool, stored)
  PROVE  Good(req, present2, saved2, spool2, stored2)
BY DEF Good

\* The cache and the spools grow.
Grows ==
  /\ backendCAS \subseteq backendCAS' /\ savedCAS \subseteq savedCAS'
  /\ \A j \in Jobs :
       /\ casObjects[j] \subseteq casObjects'[j]
       /\ \A a \in Actions : acObjects[j][a] \in Results =>
            acObjects'[j][a] = acObjects[j][a]

\* A step of one handler, whose own request is good after it.
LEMMA OneHandler ==
  ASSUME RequestsGood, Grows, NEW h \in Handlers, NEW STATE req, req \in Requests,
         request' = [request EXCEPT ![h] = req],
         GoodIn(h)'
  PROVE  RequestsGood'
<1>1. request' \in [Handlers -> Requests] BY DEF RequestsGood
<1>2. ASSUME NEW g \in Handlers, g # h PROVE GoodIn(g)'
  <2>1. request'[g] = request[g] BY <1>2 DEF RequestsGood
  <2>2. JobOf[g] \in Jobs BY ObjectStoreAssumption
  <2>3. GoodIn(g) BY DEF RequestsGood
  <2> QED BY <2>1, <2>2, <2>3, GoodKept DEF GoodIn, Grows
<1> QED BY <1>1, <1>2 DEF RequestsGood

-----------------------------------------------------------------------------
(* Preservation.                                                            *)

\* The initial state satisfies the invariant.
LEMMA ObjectInvInit == Init => ObjectInv
<1> SUFFICES ASSUME Init PROVE ObjectInv OBVIOUS
<1>1. StoreTypes BY DEF Init, StoreTypes
<1>2. SavedBefore /\ ServedIsStored /\ DeduplicatedWasSaved
  BY DEF Init, SavedBefore, ServedIsStored, DeduplicatedWasSaved
<1>3. RequestsGood BY IdleGood DEF Init, RequestsGood, GoodIn
<1> QED BY <1>1, <1>2, <1>3 DEF ObjectInv

\* Handling of CAS objects preserves the invariant.
LEMMA CasSteps ==
  ASSUME ObjectInv,
         \/ \E j \in Jobs, c \in CAS : GetCAS(j, c)
         \/ \E h \in Handlers, c \in CAS : PutCAS(h, c)
         \/ \E h \in Handlers : PublishCAS(h) \/ PublishCASFails(h)
  PROVE  ObjectInv'
<1> USE DEF ObjectInv, casVars, acVars, spoolVars, publishedVars, Begin, Become
<1>1. ASSUME NEW j \in Jobs, NEW c \in CAS, GetCAS(j, c) PROVE ObjectInv'
  <2>1. StoreTypes' BY <1>1 DEF GetCAS, StoreTypes
  <2>2. Grows BY <1>1 DEF GetCAS, StoreTypes, Grows
  <2>3. ASSUME NEW g \in Handlers PROVE GoodIn(g)'
    <3>1. JobOf[g] \in Jobs BY ObjectStoreAssumption
    <3>2. GoodIn(g) /\ request'[g] = request[g] BY <1>1 DEF GetCAS, RequestsGood
    <3> QED BY <2>2, <3>1, <3>2, GoodKept DEF GoodIn, Grows
  <2>4. RequestsGood' BY <1>1, <2>3 DEF GetCAS, RequestsGood
  <2> QED BY <1>1, <2>1, <2>4
          DEF GetCAS, SavedBefore, ServedIsStored, DeduplicatedWasSaved
<1>2. ASSUME NEW h \in Handlers, NEW c \in CAS, PutCAS(h, c) PROVE ObjectInv'
  <2> DEFINE req == IF JobOf[h] \in Writers
                      THEN Request("publish cas", c, None, None, {}) ELSE Idle
  <2>1. StoreTypes' BY <1>2, ObjectStoreAssumption DEF PutCAS, StoreTypes
  <2>2. Grows BY <1>2, ObjectStoreAssumption DEF PutCAS, StoreTypes, Grows
  <2>3. request' = [request EXCEPT ![h] = req] BY <1>2 DEF PutCAS
  <2>4. req \in Requests /\ request'[h] = req
    BY <2>3, IdleGood, UploadGood DEF RequestsGood
  <2>5. GoodIn(h)' BY <2>4, IdleGood, UploadGood DEF GoodIn
  <2>6. RequestsGood' BY <2>2, <2>3, <2>4, <2>5, OneHandler
  <2> QED BY <1>2, <2>1, <2>6
          DEF PutCAS, SavedBefore, ServedIsStored, DeduplicatedWasSaved
<1>3. ASSUME NEW h \in Handlers, PublishCAS(h) \/ PublishCASFails(h) PROVE ObjectInv'
  <2> DEFINE d == request[h].cas
  <2>1. d \in CAS BY <1>3 DEF PublishCAS, PublishCASFails, RequestsGood, GoodIn, Good
  <2>2. UNCHANGED casVars \/ SaveCAS(d)
    BY <1>3 DEF PublishCAS, PublishCASFails
  <2>3. /\ backendCAS \subseteq backendCAS' /\ savedCAS \subseteq savedCAS'
        /\ backendCAS' \subseteq savedCAS' /\ savedCAS' \in SUBSET CAS
    BY <2>1, <2>2 DEF SaveCAS, StoreTypes, SavedBefore
  <2>4. /\ publishedCAS' \in [Jobs -> SUBSET CAS]
        /\ \A i \in Jobs : publishedCAS'[i] \subseteq savedCAS'
    <3>1. CASE PublishCAS(h)
      <4>1. d \in savedCAS'
        BY <2>1, <3>1, ObjectStoreAssumption
        DEF PublishCAS, SaveCAS, DeduplicatedWasSaved
      <4> QED BY <2>1, <2>3, <3>1, <4>1 DEF PublishCAS, StoreTypes, DeduplicatedWasSaved
    <3>2. CASE PublishCASFails(h)
      BY <2>3, <3>2 DEF PublishCASFails, AfterFailure, StoreTypes, DeduplicatedWasSaved
    <3> QED BY <1>3, <3>1, <3>2
  <2>5. /\ UNCHANGED <<backendAC, savedAC, casObjects, acObjects, publishedAC, served>>
        /\ request' = [request EXCEPT ![h] = Idle]
    BY <1>3 DEF PublishCAS, PublishCASFails
  <2>6. Grows BY <2>3, <2>5 DEF Grows
  <2>7. GoodIn(h)' BY <2>5, IdleGood DEF GoodIn, RequestsGood
  <2>8. RequestsGood' BY <2>5, <2>6, <2>7, IdleGood, OneHandler
  <2>9. StoreTypes' BY <2>3, <2>4, <2>5 DEF StoreTypes
  <2> QED BY <2>3, <2>4, <2>5, <2>8, <2>9
          DEF SavedBefore, ServedIsStored, DeduplicatedWasSaved
<1> QED BY <1>1, <1>2, <1>3

\* Storing a result keeps the one that is there.
LEMMA StoreKeeps ==
  ASSUME StoreTypes, NEW j \in Jobs, NEW a \in Actions, NEW v \in Results, Store(j, a, v)
  PROVE  /\ acObjects' \in [Jobs -> [Actions -> Results \cup {None}]]
         /\ acObjects'[j][a] \in Results
         /\ \A i \in Jobs, b \in Actions :
              acObjects[i][b] \in Results => acObjects'[i][b] = acObjects[i][b]
BY ObjectStoreAssumption DEF StoreTypes, Store

\* Uploads and reads of action results, up to their validation.
LEMMA AcBegins ==
  ASSUME ObjectInv, NEW h \in Handlers,
         \/ \E a \in Actions, v \in Results : PutAC(h, a, v)
         \/ \E a \in Actions : GetAC(h, a)
         \/ LoadAC(h) \/ StoreLoaded(h) \/ Abandon(h)
  PROVE  ObjectInv'
<1> USE DEF ObjectInv, casVars, acVars, spoolVars, publishedVars, Begin, Become
<1> DEFINE j == JobOf[h]
<1>0. j \in Jobs BY ObjectStoreAssumption
<1>1. ASSUME NEW b \in Actions, NEW w \in Results, Store(j, b, w),
             UNCHANGED <<casVars, acVars, casObjects, publishedVars, served>>,
             NEW STATE req, req \in Requests, request' = [request EXCEPT ![h] = req],
             GoodIn(h)'
      PROVE  ObjectInv'
  <2>1. /\ acObjects' \in [Jobs -> [Actions -> Results \cup {None}]]
        /\ \A i \in Jobs, e \in Actions :
             acObjects[i][e] \in Results => acObjects'[i][e] = acObjects[i][e]
    BY <1>0, <1>1, StoreKeeps
  <2>2. StoreTypes' BY <1>1, <2>1 DEF StoreTypes
  <2>3. Grows BY <1>1, <2>1 DEF Grows
  <2>4. RequestsGood' BY <1>1, <2>3, OneHandler
  <2>5. ServedIsStored'
    <3>1. ASSUME NEW i \in Jobs, NEW x \in served[i] PROVE acObjects'[i][x[1]] = x[2]
      <4>1. x \in Actions \X Results BY <3>1 DEF StoreTypes
      <4>2. acObjects[i][x[1]] = x[2] BY <3>1 DEF ServedIsStored
      <4> QED BY <2>1, <4>1, <4>2
    <3> QED BY <1>1, <3>1 DEF ServedIsStored
  <2> QED BY <1>1, <2>2, <2>4, <2>5 DEF SavedBefore, DeduplicatedWasSaved
<1>2. ASSUME UNCHANGED <<casVars, acVars, spoolVars, publishedVars, served>>,
             NEW STATE req, req \in Requests, request' = [request EXCEPT ![h] = req],
             GoodIn(h)'
      PROVE  ObjectInv'
  <2>1. Grows BY <1>2 DEF Grows
  <2>2. RequestsGood' BY <1>2, <2>1, OneHandler
  <2> QED BY <1>2, <2>2
          DEF StoreTypes, SavedBefore, ServedIsStored, DeduplicatedWasSaved
<1>3. ASSUME NEW a \in Actions, NEW v \in Results, PutAC(h, a, v) PROVE ObjectInv'
  <2> DEFINE req == IF j \in Writers THEN Validating("put", a, v) ELSE Idle
  <2>1. request' = [request EXCEPT ![h] = req] BY <1>3 DEF PutAC
  <2>2. req \in Requests /\ request'[h] = req
    BY <2>1, IdleGood, ValidatingGood DEF RequestsGood
  <2>3. GoodIn(h)' BY <2>2, IdleGood, ValidatingGood DEF GoodIn
  <2> QED BY <1>1, <1>3, <2>1, <2>2, <2>3 DEF PutAC
<1>4. ASSUME NEW a \in Actions, GetAC(h, a) PROVE ObjectInv'
  <2> DEFINE w == acObjects[j][a]
             req == IF w # None THEN Validating("get", a, w)
                                ELSE Request("load", None, a, None, {})
  <2>1. w \in Results \cup {None} BY <1>0 DEF StoreTypes
  <2>2. request' = [request EXCEPT ![h] = req] /\ acObjects'[j] = acObjects[j]
    BY <1>4 DEF GetAC
  <2>3. req \in Requests /\ request'[h] = req
    BY <2>1, <2>2, LoadGood, ValidatingGood DEF RequestsGood
  <2>4. GoodIn(h)'
    <3>1. CASE w # None BY <2>1, <2>2, <2>3, <3>1, ValidatingGood DEF GoodIn
    <3>2. CASE w = None BY <2>3, <3>2, LoadGood DEF GoodIn
    <3> QED BY <3>1, <3>2
  <2> HIDE DEF req
  <2> QED BY <1>2, <1>4, <2>2, <2>3, <2>4 DEF GetAC
<1>5. CASE LoadAC(h)
  <2> DEFINE b == request[h].action  w == acObjects[j][b]
             req == IF w # None THEN Validating("get", b, w)
                                ELSE Request("loaded", None, b, backendAC[b], {})
  <2>1. b \in Actions BY <1>5 DEF LoadAC, RequestsGood, GoodIn, Good
  <2>2. w \in Results \cup {None} /\ (w = None => backendAC[b] \in Results)
    BY <1>0, <1>5, <2>1 DEF LoadAC, Hit, StoreTypes
  <2>3. request' = [request EXCEPT ![h] = req] /\ acObjects'[j] = acObjects[j]
    BY <1>5 DEF LoadAC
  <2>4. req \in Requests /\ request'[h] = req
    BY <2>1, <2>2, <2>3, LoadGood, ValidatingGood DEF RequestsGood
  <2>5. GoodIn(h)'
    <3>1. CASE w # None BY <2>1, <2>2, <2>3, <2>4, <3>1, ValidatingGood DEF GoodIn
    <3>2. CASE w = None BY <2>1, <2>2, <2>4, <3>2, LoadGood DEF GoodIn
    <3> QED BY <3>1, <3>2
  <2> HIDE DEF req
  <2> QED BY <1>2, <1>5, <2>3, <2>4, <2>5 DEF LoadAC
<1>6. CASE StoreLoaded(h)
  <2> DEFINE b == request[h].action  w == acObjects'[j][b]
  <2>1. b \in Actions /\ request[h].value \in Results
    BY <1>6 DEF StoreLoaded, RequestsGood, GoodIn, Good
  <2>2. w \in Results BY <1>0, <1>6, <2>1, StoreKeeps DEF StoreLoaded
  <2>3. PICK u \in Results : u = w BY <2>2
  <2>4. request' = [request EXCEPT ![h] = Validating("get", b, u)]
    BY <1>6, <2>3 DEF StoreLoaded
  <2>5. Validating("get", b, u) \in Requests /\ request'[h] = Validating("get", b, u)
    BY <2>1, <2>4, ValidatingGood DEF RequestsGood
  <2>6. GoodIn(h)' BY <2>1, <2>3, <2>5, ValidatingGood DEF GoodIn
  <2> QED BY <1>1, <1>6, <2>1, <2>4, <2>5, <2>6 DEF StoreLoaded
<1>7. CASE Abandon(h)
  <2>1. request' = [request EXCEPT ![h] = Idle] BY <1>7 DEF Abandon
  <2>2. GoodIn(h)' BY <2>1, IdleGood DEF GoodIn, RequestsGood
  <2> QED BY <1>2, <1>7, <2>1, <2>2, IdleGood DEF Abandon
<1> QED BY <1>3, <1>4, <1>5, <1>6, <1>7

\* The validation of one reference, and the answer to a read.
LEMMA AcValidates ==
  ASSUME ObjectInv, NEW h \in Handlers, Serve(h) \/ \E c \in CAS : CheckRef(h, c)
  PROVE  ObjectInv'
<1> USE DEF ObjectInv, casVars, acVars, spoolVars, publishedVars, Become
<1> DEFINE j == JobOf[h]
<1>0. j \in Jobs /\ GoodIn(h) /\ request[h] \in Requests
  BY ObjectStoreAssumption DEF RequestsGood
<1>1. ASSUME NEW c \in CAS, CheckRef(h, c) PROVE ObjectInv'
  <2> DEFINE req == [request[h] EXCEPT !.todo = @ \ {c}]
  <2>1. /\ req \in Requests /\ req.op = request[h].op /\ req.cas = request[h].cas
        /\ req.action = request[h].action /\ req.value = request[h].value
        /\ req.todo = request[h].todo \ {c} /\ req.lost = request[h].lost
    BY <1>0 DEF Requests
  <2>2. request' = [request EXCEPT ![h] = req] /\ request'[h] = req
    BY <1>1 DEF CheckRef, RequestsGood
  <2> HIDE DEF req
  <2>3. StoreTypes' BY <1>0, <1>1 DEF CheckRef, StoreTypes
  <2>4. Grows BY <1>0, <1>1 DEF CheckRef, StoreTypes, Grows
  <2>5. GoodIn(h)'
    <3>1. /\ request[h].op = "put" => c \in backendCAS
          /\ request[h].op = "get" => c \in casObjects[j] \cup backendCAS
      BY <1>1 DEF CheckRef, Available
    <3>2. Good(req, backendCAS, savedCAS, casObjects[j], acObjects[j])
      BY <1>0, <2>1, <3>1 DEF GoodIn, Good
    <3> QED BY <1>0, <2>2, <2>4, <3>2, GoodKept DEF GoodIn, Grows
  <2>6. RequestsGood' BY <2>1, <2>2, <2>4, <2>5, OneHandler
  <2> QED BY <1>1, <2>3, <2>6
          DEF CheckRef, SavedBefore, ServedIsStored, DeduplicatedWasSaved
<1>2. CASE Serve(h)
  <2> DEFINE x == <<request[h].action, request[h].value>>
  <2>1. x \in Actions \X Results /\ acObjects[j][x[1]] = x[2]
    BY <1>0, <1>2 DEF Serve, GoodIn, Good
  <2>2. served' = [served EXCEPT ![j] = @ \cup {x}] BY <1>2 DEF Serve
  <2> HIDE DEF x
  <2>3. StoreTypes' BY <1>0, <1>2, <2>1, <2>2 DEF Serve, StoreTypes
  <2>4. ServedIsStored'
    BY <1>0, <1>2, <2>1, <2>2 DEF Serve, StoreTypes, ServedIsStored
  <2>5. Grows BY <1>2 DEF Serve, Grows
  <2>6. request' = [request EXCEPT ![h] = Idle] BY <1>2 DEF Serve
  <2>7. GoodIn(h)' BY <2>6, IdleGood DEF GoodIn, RequestsGood
  <2>8. RequestsGood' BY <2>5, <2>6, <2>7, IdleGood, OneHandler
  <2> QED BY <1>2, <2>3, <2>4, <2>8 DEF Serve, SavedBefore, DeduplicatedWasSaved
<1> QED BY <1>1, <1>2

\* The publication of a result.
LEMMA AcPublishes ==
  ASSUME ObjectInv, NEW h \in Handlers, PublishAC(h) \/ PublishACFails(h)
  PROVE  ObjectInv'
<1> USE DEF ObjectInv, casVars, acVars, spoolVars, publishedVars, Become
<1> DEFINE a == request[h].action  v == request[h].value
<1>1. a \in Actions /\ v \in Results
  BY DEF PublishAC, PublishACFails, RequestsGood, GoodIn, Good
<1>2. UNCHANGED acVars \/ SaveAC(a, v) BY DEF PublishAC, PublishACFails
<1>3. /\ UNCHANGED <<backendCAS, savedCAS, casObjects, acObjects, publishedCAS, served>>
      /\ request' = [request EXCEPT ![h] = Idle]
  BY DEF PublishAC, PublishACFails
<1>4. /\ backendAC' \in [Actions -> Results \cup {None}]
      /\ savedAC' \in SUBSET (Actions \X Results)
      /\ savedAC \subseteq savedAC'
      /\ \A b \in Actions : backendAC'[b] # None => <<b, backendAC'[b]>> \in savedAC'
  BY <1>1, <1>2 DEF SaveAC, StoreTypes, SavedBefore
<1>5. /\ publishedAC' \in [Jobs -> SUBSET Actions]
      /\ \A j \in Jobs : \A b \in publishedAC'[j] : \E w \in Results : <<b, w>> \in savedAC'
  <2>1. CASE PublishACFails(h)
    BY <1>4, <2>1 DEF PublishACFails, AfterFailure, StoreTypes, DeduplicatedWasSaved
  <2>2. CASE PublishAC(h)
    <3>1. \E w \in Results : <<a, w>> \in savedAC'
      <4>1. CASE a \in publishedAC[JobOf[h]]
        BY <1>4, <4>1, ObjectStoreAssumption DEF DeduplicatedWasSaved
      <4>2. CASE a \notin publishedAC[JobOf[h]]
        <5>1. backendAC'[a] \in Results
          BY <1>1, <2>2, <4>2, ObjectStoreAssumption DEF PublishAC, SaveAC, StoreTypes
        <5> QED BY <1>1, <1>4, <5>1, ObjectStoreAssumption
      <4> QED BY <4>1, <4>2
    <3>2. publishedAC' = [publishedAC EXCEPT ![JobOf[h]] = @ \cup {a}]
      BY <2>2 DEF PublishAC
    <3> QED BY <1>1, <1>4, <3>1, <3>2 DEF StoreTypes, DeduplicatedWasSaved
  <2> QED BY <2>1, <2>2
<1>6. Grows BY <1>3 DEF Grows
<1>7. GoodIn(h)' BY <1>3, IdleGood DEF GoodIn, RequestsGood
<1>8. RequestsGood' BY <1>3, <1>6, <1>7, IdleGood, OneHandler
<1>9. StoreTypes' BY <1>3, <1>4, <1>5 DEF StoreTypes
<1> QED BY <1>3, <1>4, <1>5, <1>8, <1>9
        DEF SavedBefore, ServedIsStored, DeduplicatedWasSaved

\* Eviction and the end of a job.
LEMMA OutsideSteps ==
  ASSUME ObjectInv,
         \/ \E c \in CAS : EvictCAS(c)
         \/ \E a \in Actions : EvictAC(a)
         \/ \E j \in Jobs : Restart(j)
  PROVE  ObjectInv'
<1> USE DEF ObjectInv, casVars, acVars, spoolVars, publishedVars
<1>1. ASSUME NEW c \in CAS, EvictCAS(c) PROVE ObjectInv'
  <2>1. ASSUME NEW h \in Handlers PROVE request'[h] \in Requests /\ GoodIn(h)'
    <3> DEFINE req == request[h]  late == [req EXCEPT !.lost = @ \cup {c}]
               spool == casObjects[JobOf[h]]  stored == acObjects[JobOf[h]]
    <3>1. req \in Requests /\ Good(req, backendCAS, savedCAS, spool, stored)
      BY DEF RequestsGood, GoodIn
    <3>2. c \in savedCAS BY <1>1 DEF EvictCAS, SavedBefore
    <3>3. /\ late \in Requests /\ late.op = req.op /\ late.cas = req.cas
          /\ late.action = req.action /\ late.value = req.value
          /\ late.todo = req.todo /\ late.lost = req.lost \cup {c}
      BY <3>1 DEF Requests
    <3>4. request'[h] = IF req.op \in {"get", "put"} THEN late ELSE req
      BY <1>1 DEF EvictCAS
    <3>5. /\ backendCAS' = backendCAS \ {c} /\ savedCAS' = savedCAS
          /\ casObjects'[JobOf[h]] = spool /\ acObjects'[JobOf[h]] = stored
      BY <1>1 DEF EvictCAS
    <3> HIDE DEF req, late, spool, stored
    <3>6. Good(request'[h], backendCAS \ {c}, savedCAS, spool, stored)
      BY <3>1, <3>2, <3>3, <3>4 DEF Good
    <3> QED BY <3>1, <3>3, <3>4, <3>5, <3>6 DEF GoodIn
  <2>2. RequestsGood' BY <1>1, <2>1 DEF EvictCAS, RequestsGood
  <2>3. StoreTypes' BY <1>1 DEF EvictCAS, StoreTypes
  <2> QED BY <1>1, <2>2, <2>3
          DEF EvictCAS, SavedBefore, ServedIsStored, DeduplicatedWasSaved
<1>2. ASSUME NEW a \in Actions, EvictAC(a) PROVE ObjectInv'
  <2>1. RequestsGood' BY <1>2 DEF EvictAC, RequestsGood, GoodIn
  <2>2. StoreTypes' BY <1>2 DEF EvictAC, StoreTypes
  <2> QED BY <1>2, <2>1, <2>2
          DEF EvictAC, StoreTypes, SavedBefore, ServedIsStored, DeduplicatedWasSaved
<1>3. ASSUME NEW j \in Jobs, Restart(j) PROVE ObjectInv'
  <2>1. ASSUME NEW h \in Handlers PROVE request'[h] \in Requests /\ GoodIn(h)'
    <3>1. CASE JobOf[h] = j
      BY <1>3, <3>1, IdleGood DEF Restart, GoodIn
    <3>2. CASE JobOf[h] # j
      <4>1. /\ request'[h] = request[h] /\ backendCAS' = backendCAS /\ savedCAS' = savedCAS
            /\ casObjects'[JobOf[h]] = casObjects[JobOf[h]]
            /\ acObjects'[JobOf[h]] = acObjects[JobOf[h]]
        BY <1>3, <3>2, ObjectStoreAssumption DEF Restart, StoreTypes
      <4> QED BY <4>1 DEF GoodIn, RequestsGood
    <3> QED BY <3>1, <3>2
  <2>2. RequestsGood' BY <1>3, <2>1 DEF Restart, RequestsGood
  <2>3. StoreTypes' BY <1>3 DEF Restart, StoreTypes
  <2>4. SavedBefore' /\ DeduplicatedWasSaved'
    BY <1>3 DEF Restart, SavedBefore, DeduplicatedWasSaved, StoreTypes
  <2>5. ServedIsStored'
    <3>1. ASSUME NEW i \in Jobs, NEW x \in served'[i] PROVE acObjects'[i][x[1]] = x[2]
      <4>1. i # j /\ x \in served[i] BY <1>3, <3>1 DEF Restart, StoreTypes
      <4>2. acObjects'[i] = acObjects[i] BY <1>3, <4>1 DEF Restart, StoreTypes
      <4> QED BY <4>1, <4>2 DEF ServedIsStored
    <3> QED BY <3>1 DEF ServedIsStored
  <2> QED BY <2>2, <2>3, <2>4, <2>5
<1> QED BY <1>1, <1>2, <1>3

\* Stuttering.
LEMMA ObjectStutter == ObjectInv /\ UNCHANGED vars => ObjectInv'
BY DEF vars, casVars, acVars, spoolVars, publishedVars, ObjectInv, StoreTypes,
       SavedBefore, ServedIsStored, DeduplicatedWasSaved, RequestsGood, GoodIn

\* Every step preserves the invariant.
LEMMA ObjectStep == ObjectInv /\ [Next]_vars => ObjectInv'
<1> SUFFICES ASSUME ObjectInv, [Next]_vars PROVE ObjectInv' OBVIOUS
<1>1. ASSUME NEW h \in Handlers, Step(h) PROVE ObjectInv'
  BY <1>1, CasSteps, AcBegins, AcValidates, AcPublishes DEF Step
<1> QED BY <1>1, CasSteps, AcBegins, OutsideSteps, ObjectStutter DEF Next

\* The history of saved objects only grows.
LEMMA SavedGrows ==
  ASSUME [Next]_vars PROVE savedCAS \subseteq savedCAS'
BY DEF Next, Step, vars, casVars, SaveCAS, GetCAS, PutCAS, PublishCAS, PublishCASFails,
       GetAC, PutAC, LoadAC, StoreLoaded, CheckRef, Abandon, Serve, PublishAC,
       PublishACFails, EvictCAS, EvictAC, Restart

\* The inductive invariant of the objects mode.
THEOREM ObjectInvariant == Spec => []ObjectInv
BY ObjectStep, ObjectInvInit, PTL DEF Spec

-----------------------------------------------------------------------------
(* What follows from the invariant.                                         *)

\* Every variable keeps its type.
THEOREM ObjectTypes == Spec => []TypeOK
<1>1. ObjectInv => TypeOK
  BY DEF ObjectInv, TypeOK, HandlerTypes, RequestsGood, GoodIn, Good
<1> QED BY <1>1, ObjectInvariant, PTL

\* A job serves one result per action, for any overlap of reads and uploads.
THEOREM OneResultServed == Spec => []ServedStable
<1>1. ObjectInv => ServedStable BY DEF ObjectInv, ServedIsStored, ServedStable
<1> QED BY <1>1, ObjectInvariant, PTL

\* A deduplicated upload was saved before.
THEOREM SkippedWasSaved == Spec => []DeduplicatedWasSaved
BY ObjectInvariant, PTL DEF ObjectInv

\* Which steps make a result appear in the cache.
LEMMA NewResult ==
  ASSUME ObjectInv, [Next]_vars, savedAC' # savedAC \/ backendAC' # backendAC
  PROVE  \/ \E a \in Actions : EvictAC(a)
         \/ \E h \in Handlers :
              /\ request[h].op = "put" /\ request[h].todo = {}
              /\ SaveAC(request[h].action, request[h].value)
              /\ UNCHANGED casVars
<1> USE DEF casVars, acVars, vars, spoolVars, publishedVars
<1>1. ~ UNCHANGED vars OBVIOUS
<1>2. \A j \in Jobs, c \in CAS : ~ GetCAS(j, c) BY DEF GetCAS
<1>3. \A c \in CAS : ~ EvictCAS(c) BY DEF EvictCAS
<1>4. \A j \in Jobs : ~ Restart(j) BY DEF Restart
<1>5. \A h \in Handlers, c \in CAS : ~ PutCAS(h, c) /\ ~ CheckRef(h, c)
  BY DEF PutCAS, CheckRef
<1>6. \A h \in Handlers, a \in Actions : ~ GetAC(h, a) BY DEF GetAC
<1>7. \A h \in Handlers, a \in Actions, v \in Results : ~ PutAC(h, a, v) BY DEF PutAC
<1>8. \A h \in Handlers : /\ ~ PublishCAS(h) /\ ~ PublishCASFails(h) /\ ~ LoadAC(h)
                         /\ ~ StoreLoaded(h) /\ ~ Abandon(h) /\ ~ Serve(h)
  BY DEF PublishCAS, PublishCASFails, LoadAC, StoreLoaded, Abandon, Serve
<1>9. ASSUME NEW h \in Handlers, PublishAC(h) \/ PublishACFails(h)
      PROVE  /\ request[h].op = "put" /\ request[h].todo = {}
             /\ SaveAC(request[h].action, request[h].value)
             /\ UNCHANGED casVars
  BY <1>9 DEF PublishAC, PublishACFails
<1> QED BY <1>1, <1>2, <1>3, <1>4, <1>5, <1>6, <1>7, <1>8, <1>9 DEF Next, Step

\* The closure of an upload that was validated.
LEMMA ValidatedClosure ==
  ASSUME ObjectInv, NEW h \in Handlers, request[h].op = "put", request[h].todo = {}
  PROVE  /\ request[h].action \in Actions /\ request[h].value \in Results
         /\ Closure[request[h].value] \subseteq backendCAS \cup request[h].lost
         /\ Closure[request[h].value] \subseteq savedCAS
<1>1. Good(request[h], backendCAS, savedCAS, casObjects[JobOf[h]], acObjects[JobOf[h]])
  BY DEF ObjectInv, RequestsGood, GoodIn
<1>2. backendCAS \subseteq savedCAS BY DEF ObjectInv, SavedBefore
<1> QED BY <1>1, <1>2 DEF Good

\* A result appears in the cache only when every object it refers to is there
\* or was evicted since its check, for any number of jobs.
THEOREM PublishedIsPersistent == Spec => SavedWhilePersistent
<1> DEFINE Appears ==
      \A a \in Actions :
        backendAC'[a] \notin {backendAC[a], None} =>
          \E h \in Handlers :
            /\ request[h].op = "put" /\ request[h].action = a
            /\ request[h].value = backendAC'[a]
            /\ Closure[backendAC'[a]] \subseteq backendCAS \cup request[h].lost
<1>1. ObjectInv /\ [Next]_vars => [Appears]_vars
  <2> SUFFICES ASSUME ObjectInv, [Next]_vars, NEW a \in Actions,
                      backendAC'[a] \notin {backendAC[a], None}
               PROVE  \E h \in Handlers :
                        /\ request[h].op = "put" /\ request[h].action = a
                        /\ request[h].value = backendAC'[a]
                        /\ Closure[backendAC'[a]] \subseteq backendCAS \cup request[h].lost
    OBVIOUS
  <2>0. backendAC \in [Actions -> Results \cup {None}] BY DEF ObjectInv, StoreTypes
  <2>1. CASE \E b \in Actions : EvictAC(b) BY <2>0, <2>1 DEF EvictAC
  <2>2. ASSUME NEW h \in Handlers, request[h].op = "put", request[h].todo = {},
               SaveAC(request[h].action, request[h].value)
        PROVE  /\ request[h].action = a /\ request[h].value = backendAC'[a]
               /\ Closure[backendAC'[a]] \subseteq backendCAS \cup request[h].lost
    BY <2>0, <2>2, ValidatedClosure DEF SaveAC, acVars
  <2> QED BY <2>1, <2>2, NewResult
<1> QED BY <1>1, ObjectInvariant, PTL DEF Spec, SavedWhilePersistent

\* A result is served only when every object it refers to is in the spool, in
\* the cache, or was evicted since its check.
THEOREM ServedCanBeRead == Spec => ServedClosureExists
<1> DEFINE Answers ==
      \A j \in Jobs : \A x \in served'[j] \ served[j] :
        \E h \in Handlers :
          /\ JobOf[h] = j /\ request[h].op = "get"
          /\ Closure[x[2]] \subseteq casObjects[j] \cup backendCAS \cup request[h].lost
<1>1. ObjectInv /\ [Next]_vars => [Answers]_vars
  <2> SUFFICES ASSUME ObjectInv, [Next]_vars, NEW j \in Jobs,
                      NEW x \in served'[j] \ served[j]
               PROVE  \E h \in Handlers :
                        /\ JobOf[h] = j /\ request[h].op = "get"
                        /\ Closure[x[2]] \subseteq casObjects[j] \cup backendCAS
                                                     \cup request[h].lost
    OBVIOUS
  <2>0. served \in [Jobs -> SUBSET (Actions \X Results)] BY DEF ObjectInv, StoreTypes
  <2>1. ASSUME NEW h \in Handlers, Serve(h)
        PROVE  /\ JobOf[h] = j /\ request[h].op = "get"
               /\ Closure[x[2]] \subseteq casObjects[j] \cup backendCAS \cup request[h].lost
    <3>1. JobOf[h] = j /\ x = <<request[h].action, request[h].value>>
          /\ request[h].op = "get" /\ request[h].todo = {}
      BY <2>0, <2>1, ObjectStoreAssumption DEF Serve
    <3>2. Good(request[h], backendCAS, savedCAS, casObjects[j], acObjects[j])
      BY <3>1 DEF ObjectInv, RequestsGood, GoodIn
    <3> QED BY <3>1, <3>2 DEF Good
  <2>2. CASE UNCHANGED served BY <2>2
  <2>3. CASE \E i \in Jobs : Restart(i) BY <2>0, <2>3 DEF Restart
  <2>4. ASSUME NEW h \in Handlers, Step(h) PROVE Serve(h) \/ UNCHANGED served
    BY <2>4 DEF Step, PublishCAS, PublishCASFails, LoadAC, StoreLoaded, Abandon,
                PublishAC, PublishACFails, CheckRef
  <2>5. CASE \/ \E j2 \in Jobs, c \in CAS : GetCAS(j2, c)
             \/ \E h \in Handlers, c \in CAS : PutCAS(h, c)
             \/ \E h \in Handlers, a \in Actions : GetAC(h, a)
             \/ \E h \in Handlers, a \in Actions, v \in Results : PutAC(h, a, v)
             \/ \E c \in CAS : EvictCAS(c)
             \/ \E a \in Actions : EvictAC(a)
             \/ UNCHANGED vars
    BY <2>2, <2>5 DEF GetCAS, PutCAS, GetAC, PutAC, EvictCAS, EvictAC, vars
  <2> QED BY <2>1, <2>2, <2>3, <2>4, <2>5 DEF Next
<1> QED BY <1>1, ObjectInvariant, PTL DEF Spec, ServedClosureExists

\* The objects mode implements the durable cache, with jobs that save the
\* parts of a closure, die, evictions and answers that get lost.
THEOREM ObjectStoreImplementsDurableCache == Spec => ImplementsDurableCache
<1>1. Init => Durable!Init BY DEF Init, Durable!Init
<1>2. ObjectInv /\ [Next]_vars => [Durable!Next]_<<savedCAS, savedAC>>
  <2> SUFFICES ASSUME ObjectInv, ObjectInv', [Next]_vars
               PROVE  Durable!Next \/ UNCHANGED <<savedCAS, savedAC>>
    BY ObjectStep
  <2>1. savedCAS' \in SUBSET CAS /\ savedCAS \in SUBSET CAS BY DEF ObjectInv, StoreTypes
  <2>2. CASE savedAC' # savedAC
    <3>1. PICK h \in Handlers :
            /\ request[h].op = "put" /\ request[h].todo = {}
            /\ SaveAC(request[h].action, request[h].value)
            /\ UNCHANGED casVars
      BY <2>2, NewResult DEF EvictAC
    <3> DEFINE x == <<request[h].action, request[h].value>>
    <3>2. x \in Actions \X Results /\ Closure[x[2]] \subseteq savedCAS
      BY <3>1, ValidatedClosure
    <3>3. savedAC' = savedAC \cup {x} /\ savedCAS' = savedCAS \cup {}
      BY <2>2, <3>1 DEF SaveAC, acVars, casVars
    <3>4. Durable!Commit({}, {x}) BY <3>2, <3>3 DEF Durable!Commit
    <3> QED BY <3>2, <3>4 DEF Durable!Next
  <2>3. CASE savedAC' = savedAC
    <3>1. savedCAS \subseteq savedCAS' BY SavedGrows
    <3>2. savedCAS' = savedCAS \cup savedCAS' /\ savedAC' = savedAC \cup {}
      BY <2>3, <3>1
    <3>3. Durable!Commit(savedCAS', {}) BY <3>2 DEF Durable!Commit
    <3> QED BY <2>1, <3>3 DEF Durable!Next
  <2> QED BY <2>2, <2>3
<1> QED BY <1>1, <1>2, ObjectInvariant, PTL DEF Spec, ImplementsDurableCache, Durable!Spec
=============================================================================
