------------------------ MODULE ResultValidationProofs ------------------------
(***************************************************************************)
(* What the validation of an action result establishes, for any action     *)
(* result, any closure of trees and directories (cyclic ones included),    *)
(* any limit, and any uploads and evictions while it runs: first for the   *)
(* traversal alone; then what the parsers return for any message, visitor  *)
(* by visitor; then for the call, parsers and traversal.                   *)
(*                                                                         *)
(* A visitor is a loop over the fields of a message.  What is made of the  *)
(* fields that were read is stated by an operator ...SoFar, and shown for  *)
(* all messages with ReadInduction of an instance of ReadingProofs.        *)
(***************************************************************************)
EXTENDS ResultValidation, Integers, FiniteSetTheorems, SequenceTheorems, TLAPS

\* The validation has not failed.
Running == answer \in {"none", "ok"}

\* References of kind k that need no visit.
Free(k) == IF k = "blob" THEN {r \in Refs : Implicit(r)} ELSE {}

\* References of kind k that were visited, wait, or need no visit.
Covered(k) == pending[k] \cup validated[k] \cup Free(k)

\* While the validation runs, nothing that was met is forgotten.
NothingForgotten ==
  Running =>
    /\ \A k \in Kinds : input.refs[k] \subseteq Covered(k)
    /\ \A k, x \in Kinds : \A ref \in validated[k] :
         References(k, ref.hash)[x] \subseteq Covered(x)

\* What was visited is in the closure, and was found.
VisitedIsFound ==
  Running =>
    \A k \in Kinds : \A ref \in validated[k] :
      /\ Implicit(ref) \/ ref.hash \in closure
      /\ ref.hash \in backend \cup lost \cup (IF RequirePersisted THEN {} ELSE spool)

\* Only a validation with nothing left to visit accepts.
AcceptedAtEnd == answer = "ok" => \A k \in Kinds : pending[k] = {}

\* The counter stays within the limit while the validation runs.
LimitKept == Running => validatedObjects \in 0..MaxObjects

\* A validation visits finitely many objects.
VisitedIsFinite == \A k \in Kinds : IsFiniteSet(validated[k])

\* The inductive invariant of the traversal.
ValidationInv ==
  /\ TypeOK
  /\ NothingForgotten
  /\ VisitedIsFound
  /\ AcceptedAtEnd
  /\ LimitKept
  /\ OnlyReferences
  /\ VisitedIsFinite
  /\ OncePerObject

-----------------------------------------------------------------------------

\* The three kinds.
LEMMA KindsAre == "blob" \in Kinds /\ "tree" \in Kinds /\ "directory" \in Kinds
BY DEF Kinds

\* What an object refers to are references.
LEMMA ReferenceTypes ==
  ASSUME TypeOK, NEW k \in Kinds, NEW x \in Kinds, NEW h \in Hashes
  PROVE  /\ References(k, h)[x] \in SUBSET Refs
         /\ input.files[h] \in SUBSET Refs
         /\ input.directories[h] \in SUBSET Refs
         /\ input.refs \in [Kinds -> SUBSET Refs]
<1>1. input \in Inputs BY DEF TypeOK
<1> QED BY <1>1 DEF Inputs, References

\* A visit counts what it remembers.
LEMMA RememberCounts ==
  ASSUME ValidationInv, NEW k \in Kinds, NEW ref \in pending[k], Remember(k, ref)
  PROVE  /\ validatedObjects' \in 0..(MaxObjects + 1)
         /\ WithinLimit => LimitKept'
         /\ validated' \in [Kinds -> SUBSET Refs]
         /\ VisitedIsFinite'
         /\ OncePerObject'
<1>1. ref \in Refs /\ validated \in [Kinds -> SUBSET Refs] /\ MaxObjects \in Nat
  BY ValidationAssumption DEF ValidationInv, TypeOK
<1>2. validated' \in [Kinds -> SUBSET Refs] BY <1>1 DEF Remember
<1>3. \A x \in Kinds : validated'[x] = IF x = k THEN validated[k] \cup {ref} ELSE validated[x]
  BY <1>1 DEF Remember
<1>4. ref \notin validated[k] BY DEF Remember, Seen
<1>5. \A x \in Kinds : IsFiniteSet(validated[x])
  BY DEF ValidationInv, VisitedIsFinite
<1>6. /\ IsFiniteSet(validated[k] \cup {ref})
      /\ Cardinality(validated[k] \cup {ref}) = Cardinality(validated[k]) + 1
  BY <1>4, <1>5, FS_AddElement
<1>7. \A x \in Kinds : Cardinality(validated[x]) \in Nat BY <1>5, FS_CardinalityType
<1>8. VisitedIsFinite' BY <1>3, <1>5, <1>6 DEF VisitedIsFinite
<1>9. \A x \in Kinds : \A r, s \in validated'[x] : r.hash = s.hash => r = s
  <2> SUFFICES ASSUME NEW x \in Kinds, NEW r \in validated'[x], NEW s \in validated'[x],
                      r.hash = s.hash
               PROVE  r = s
    OBVIOUS
  <2>1. \A a, b \in validated[x] : a.hash = b.hash => a = b
    BY DEF ValidationInv, OncePerObject
  <2>2. \A a \in validated[k] : a.hash = ref.hash => a.size = ref.size
    BY DEF Remember, Conflict
  <2>3. \A a, b \in Refs : a.hash = b.hash /\ a.size = b.size => a = b BY DEF Refs
  <2>4. \A a \in validated[k] : a.hash = ref.hash => a = ref
    BY <1>1, <2>2, <2>3
  <2> QED BY <1>3, <2>1, <2>4
<1>10. validatedObjects = Cardinality(validated["blob"]) + Cardinality(validated["tree"])
                          + Cardinality(validated["directory"])
  BY DEF ValidationInv, OncePerObject
<1>11. validatedObjects' = validatedObjects + 1 BY DEF Remember
<1>12. \A x \in Kinds : Cardinality(validated'[x]) =
         IF x = k THEN Cardinality(validated[x]) + 1 ELSE Cardinality(validated[x])
  BY <1>3, <1>6
<1>13. k = "blob" \/ k = "tree" \/ k = "directory" BY DEF Kinds
<1>14. validatedObjects' = Cardinality(validated'["blob"]) + Cardinality(validated'["tree"])
                           + Cardinality(validated'["directory"])
  BY <1>7, <1>10, <1>11, <1>12, <1>13, KindsAre
<1>15. OncePerObject' BY <1>9, <1>14 DEF OncePerObject
<1>16. validatedObjects \in 0..MaxObjects
  BY DEF ValidationInv, LimitKept, Running, Remember, Turn
<1>17. validatedObjects' \in 0..(MaxObjects + 1) /\ (WithinLimit => LimitKept')
  BY <1>1, <1>11, <1>16 DEF WithinLimit, LimitKept
<1> QED BY <1>2, <1>8, <1>15, <1>17

\* Nothing is pending or remembered that was not before, but for references of
\* the object of kind k that is visited now.
LEMMA OnlyReferencesKept ==
  ASSUME ValidationInv, UNCHANGED input,
         \A k \in Kinds : validated[k] \subseteq validated'[k],
         \A x \in Kinds : \A ref \in pending'[x] \cup validated'[x] :
           \/ ref \in pending[x] \cup validated[x]
           \/ \E k \in Kinds : \E r \in validated'[k] : ref \in References(k, r.hash)[x],
         \A h \in missing' : h \in missing \/ \E k \in Kinds : \E r \in validated'[k] : r.hash = h
  PROVE  OnlyReferences'
<1>0. \A h \in missing' : \E k \in Kinds : \E r \in validated'[k] : r.hash = h
  BY DEF ValidationInv, OnlyReferences
<1> SUFFICES ASSUME NEW x \in Kinds, NEW ref \in pending'[x] \cup validated'[x]
             PROVE  \/ ref \in input'.refs[x]
                    \/ \E k \in Kinds : \E r \in validated'[k] :
                         ref \in References(k, r.hash)'[x]
  BY <1>0 DEF OnlyReferences
<1>1. \A k, h : References(k, h)' = References(k, h) BY DEF References
<1>2. CASE ref \in pending[x] \cup validated[x]
  <2>1. \/ ref \in input.refs[x]
        \/ \E k \in Kinds : \E r \in validated[k] : ref \in References(k, r.hash)[x]
    BY <1>2 DEF ValidationInv, OnlyReferences
  <2> QED BY <2>1, <1>1
<1>3. CASE \E k \in Kinds : \E r \in validated'[k] : ref \in References(k, r.hash)[x]
  BY <1>1, <1>3
<1> QED BY <1>2, <1>3

-----------------------------------------------------------------------------
(* Preservation, one lemma for each kind of step.                           *)

\* A validation begins with every reference pending.
LEMMA ValidationInit == Init => ValidationInv
<1> SUFFICES ASSUME Init PROVE ValidationInv OBVIOUS
<1>1. input \in Inputs BY DEF Init
<1>2. TypeOK BY <1>1, ValidationAssumption DEF Init, TypeOK, Inputs
<1>3. \A k \in Kinds : validated[k] = {} BY DEF Init
<1>4. NothingForgotten /\ VisitedIsFound /\ AcceptedAtEnd /\ LimitKept
  BY <1>3, ValidationAssumption
  DEF Init, NothingForgotten, Covered, VisitedIsFound, AcceptedAtEnd, LimitKept
<1>5. OnlyReferences BY <1>3 DEF Init, OnlyReferences
<1>6. IsFiniteSet({}) /\ Cardinality({}) = 0 BY FS_EmptySet
<1>7. VisitedIsFinite BY <1>3, <1>6 DEF VisitedIsFinite
<1>8. OncePerObject BY <1>3, <1>6, KindsAre DEF Init, OncePerObject
<1> QED BY <1>2, <1>4, <1>5, <1>7, <1>8 DEF ValidationInv

\* A reference that needs no visit is dropped.
LEMMA SkipStep ==
  ASSUME ValidationInv, NEW k \in Kinds, NEW ref \in pending[k], Skip(k, ref)
  PROVE  ValidationInv'
<1> USE DEF ValidationInv
<1>1. /\ ref \in Refs /\ answer = "none" /\ answer' = answer /\ UNCHANGED <<input, validated>>
      /\ pending' = [pending EXCEPT ![k] = @ \ {ref}]
      /\ ref \in validated[k] \/ ref \in Free(k)
  BY DEF Skip, Turn, Done, Seen, Free, TypeOK
<1>2. TypeOK' BY <1>1 DEF Skip, TypeOK
<1>3. \A x \in Kinds : Covered(x) \subseteq Covered(x)' /\ pending'[x] \subseteq pending[x]
  BY <1>1 DEF Covered, Free, TypeOK, Implicit
<1>4. NothingForgotten'
  BY <1>1, <1>3 DEF NothingForgotten, Running, References
<1>5. VisitedIsFound' BY DEF Skip, VisitedIsFound, Running, Implicit, RequirePersisted
<1>6. AcceptedAtEnd' BY <1>1 DEF AcceptedAtEnd
<1>7. OnlyReferences' BY <1>1, <1>3, OnlyReferencesKept DEF Skip
<1>8. VisitedIsFinite' /\ OncePerObject' /\ LimitKept'
  BY DEF Skip, VisitedIsFinite, OncePerObject, LimitKept, Running
<1> QED BY <1>2, <1>4, <1>5, <1>6, <1>7, <1>8

\* A step that ends the validation with an error.
LEMMA FailureStep ==
  ASSUME ValidationInv, NEW k \in Kinds, NEW ref \in pending[k],
         \/ Refuse(k, ref) \/ LimitExceeded(k, ref) \/ Incomplete(k, ref)
         \/ BackendError(k, ref) \/ Malformed(k, ref)
  PROVE  ValidationInv'
<1> USE DEF ValidationInv
<1>1. /\ ref \in Refs /\ ref.hash \in Hashes /\ UNCHANGED input /\ pending' = pending
      /\ answer' \in {"invalid", "incomplete", "error"}
  BY DEF Refuse, LimitExceeded, Incomplete, BackendError, Malformed, Load, Finish, Refs, TypeOK
<1>2. NothingForgotten' /\ VisitedIsFound' /\ AcceptedAtEnd' /\ LimitKept'
  BY <1>1 DEF NothingForgotten, VisitedIsFound, AcceptedAtEnd, LimitKept, Running
<1>3. CASE Refuse(k, ref)
  <2>1. TypeOK' BY <1>1, <1>3 DEF Refuse, TypeOK
  <2>2. OnlyReferences' BY <1>1, <1>3, OnlyReferencesKept DEF Refuse
  <2>3. VisitedIsFinite' /\ OncePerObject'
    BY <1>3 DEF Refuse, VisitedIsFinite, OncePerObject
  <2> QED BY <1>2, <2>1, <2>2, <2>3
<1>4. CASE Remember(k, ref)
  <2>1. validatedObjects' \in 0..(MaxObjects + 1) /\ validated' \in [Kinds -> SUBSET Refs]
        /\ VisitedIsFinite' /\ OncePerObject'
    BY <1>4, RememberCounts
  <2>2. closure' \in SUBSET Hashes /\ missing' \in SUBSET Hashes /\ spool' \in SUBSET Hashes
        /\ UNCHANGED <<backend, lost>>
    BY <1>1, <1>4 DEF Refuse, LimitExceeded, Incomplete, BackendError, Malformed, Load, Collect,
                      TypeOK
  <2>3. TypeOK' BY <1>1, <2>1, <2>2 DEF TypeOK
  <2>4. OnlyReferences'
    <3>1. validated' = [validated EXCEPT ![k] = @ \cup {ref}] BY <1>4 DEF Remember
    <3>2. validated \in [Kinds -> SUBSET Refs] BY DEF TypeOK
    <3>3. missing' \in {missing, {ref.hash}}
      BY <1>4 DEF Refuse, LimitExceeded, Incomplete, BackendError, Malformed, Load
    <3> QED BY <1>1, <3>1, <3>2, <3>3, OnlyReferencesKept
  <2> QED BY <1>2, <2>1, <2>3, <2>4
<1> QED BY <1>3, <1>4 DEF LimitExceeded, Incomplete, BackendError, Malformed, Load

\* A blob is found.
LEMMA BlobStep ==
  ASSUME ValidationInv, NEW ref \in pending["blob"], VisitBlob(ref)
  PROVE  ValidationInv'
<1> USE DEF ValidationInv
<1>1. /\ ref \in Refs /\ ref.hash \in Hashes /\ answer = "none"
      /\ UNCHANGED <<input, missing, answer, spool, backend, lost>>
      /\ pending' = [pending EXCEPT !["blob"] = @ \ {ref}]
      /\ validated' = [validated EXCEPT !["blob"] = @ \cup {ref}]
      /\ pending \in [Kinds -> SUBSET Refs] /\ validated \in [Kinds -> SUBSET Refs]
  BY KindsAre DEF VisitBlob, Remember, Turn, Done, Refs, TypeOK
<1>2. /\ validatedObjects' \in 0..(MaxObjects + 1) /\ LimitKept'
      /\ validated' \in [Kinds -> SUBSET Refs] /\ VisitedIsFinite' /\ OncePerObject'
  BY RememberCounts, KindsAre DEF VisitBlob
<1>3. TypeOK' BY <1>1, <1>2 DEF VisitBlob, Collect, TypeOK
<1>4. \A x \in Kinds : Covered(x) \subseteq Covered(x)' BY <1>1 DEF Covered, Free, Implicit
<1>5. \A k, h : References(k, h)' = References(k, h) BY <1>1 DEF References
<1>6. \A x \in Kinds : References("blob", ref.hash)[x] = {} BY DEF References
<1>7. NothingForgotten'
  BY <1>1, <1>4, <1>5, <1>6, KindsAre DEF NothingForgotten, Running
<1>8. VisitedIsFound'
  BY <1>1, KindsAre DEF VisitBlob, Collect, Found, VisitedIsFound, Running, Implicit,
                            RequirePersisted
<1>9. AcceptedAtEnd' BY <1>1 DEF AcceptedAtEnd
<1>10. OnlyReferences' BY <1>1, KindsAre, OnlyReferencesKept
<1> QED BY <1>2, <1>3, <1>7, <1>8, <1>9, <1>10

\* A tree or a directory is loaded; what it refers to is pending now.
LEMMA ContainerStep ==
  ASSUME ValidationInv, NEW k \in Kinds, NEW ref \in pending[k], VisitContainer(k, ref)
  PROVE  ValidationInv'
<1> USE DEF ValidationInv
<1>0. k \in Kinds \ {"blob"} BY DEF VisitContainer
<1>1. /\ ref \in Refs /\ ref.hash \in Hashes /\ answer = "none" /\ pending["blob"] = {}
      /\ UNCHANGED <<input, missing, answer, backend, lost>>
      /\ validated' = [validated EXCEPT ![k] = @ \cup {ref}]
      /\ pending \in [Kinds -> SUBSET Refs] /\ validated \in [Kinds -> SUBSET Refs]
  BY <1>0, KindsAre DEF VisitContainer, Load, Remember, Turn, Refs, TypeOK, Kinds
<1>2. /\ validatedObjects' \in 0..(MaxObjects + 1) /\ LimitKept'
      /\ validated' \in [Kinds -> SUBSET Refs] /\ VisitedIsFinite' /\ OncePerObject'
  BY RememberCounts DEF VisitContainer, Load
<1>3. /\ pending' \in [Kinds -> SUBSET Refs]
      /\ pending'["blob"] = input.files[ref.hash]
      /\ pending'["tree"] = pending["tree"] \ IF k = "tree" THEN {ref} ELSE {}
      /\ pending'["directory"] = (pending["directory"] \ IF k = "directory" THEN {ref} ELSE {})
                                 \cup Queued(k, ref.hash)
  <2>1. input.files[ref.hash] \in SUBSET Refs /\ Queued(k, ref.hash) \in SUBSET Refs
    BY <1>1, ReferenceTypes DEF Queued
  <2>2. pending' = [[pending EXCEPT ![k] = @ \ {ref}]
                      EXCEPT !["blob"] = input.files[ref.hash],
                             !["directory"] = @ \cup Queued(k, ref.hash)]
    BY DEF VisitContainer, Done
  <2> QED BY <1>0, <1>1, <2>1, <2>2, KindsAre DEF Kinds
<1>4. TypeOK' BY <1>1, <1>2, <1>3 DEF VisitContainer, Load, Collect, TypeOK
<1>5. \A x \in Kinds : Covered(x) \subseteq Covered(x)'
  BY <1>0, <1>1, <1>3 DEF Covered, Free, Implicit, Kinds
<1>6. \A kk, h : References(kk, h)' = References(kk, h) BY <1>1 DEF References
<1>7. \A x \in Kinds : References(k, ref.hash)[x] \subseteq pending'[x]
  BY <1>0, <1>3 DEF References, Queued, Kinds
<1>8. NothingForgotten'
  <2>1. \A x \in Kinds : References(k, ref.hash)[x] \subseteq Covered(x)'
    BY <1>7 DEF Covered
  <2> QED BY <1>1, <1>5, <1>6, <2>1 DEF NothingForgotten, Running
<1>9. VisitedIsFound'
  BY <1>1 DEF VisitContainer, Load, Collect, Found, VisitedIsFound, Running, Implicit,
              RequirePersisted
<1>10. AcceptedAtEnd' BY <1>1 DEF AcceptedAtEnd
<1>11. OnlyReferences'
  <2>1. ref \in validated'[k] BY <1>1
  <2>2. \A x \in Kinds : pending'[x] \subseteq pending[x] \cup References(k, ref.hash)[x]
    BY <1>0, <1>3 DEF References, Queued, Kinds
  <2>3. \A x \in Kinds : validated'[x] \subseteq validated[x] \cup (IF x = k THEN {ref} ELSE {})
    BY <1>1
  <2> QED BY <1>1, <2>1, <2>2, <2>3, OnlyReferencesKept
<1> QED BY <1>2, <1>4, <1>8, <1>9, <1>10, <1>11

\* The end of the validation, and steps of others.
LEMMA OtherSteps ==
  ASSUME ValidationInv, Accept \/ (\E h \in Hashes : Upload(h) \/ Save(h) \/ Evict(h))
  PROVE  ValidationInv'
<1> USE DEF ValidationInv
<1>1. UNCHANGED <<input, pending, validated, validatedObjects, closure, missing>>
  BY DEF Accept, Finish, Upload, Save, Evict, progress
<1>2. TypeOK' BY <1>1 DEF TypeOK, Accept, Finish, Upload, Save, Evict, progress
<1>3. /\ answer = "none" /\ (answer' = answer \/ Accept)
  BY DEF Accept, Upload, Save, Evict, progress
<1>4. NothingForgotten' /\ LimitKept'
  BY <1>1, <1>3 DEF NothingForgotten, LimitKept, Running, Covered, Free, References, Implicit
<1>5. \A h \in Hashes : h \in backend \cup lost => h \in backend' \cup lost'
  BY DEF Accept, Upload, Save, Evict
<1>6. spool \subseteq spool' BY DEF Accept, Upload, Save, Evict
<1>7. VisitedIsFound'
  <2>1. \A k \in Kinds : \A ref \in validated[k] : ref.hash \in Hashes BY DEF TypeOK, Refs
  <2> QED BY <1>1, <1>3, <1>5, <1>6, <2>1 DEF VisitedIsFound, Running, Implicit, RequirePersisted
<1>8. AcceptedAtEnd' BY <1>1, <1>3 DEF AcceptedAtEnd, Accept
<1>9. OnlyReferences' BY <1>1, OnlyReferencesKept
<1>10. VisitedIsFinite' /\ OncePerObject' BY <1>1 DEF VisitedIsFinite, OncePerObject
<1> QED BY <1>2, <1>4, <1>7, <1>8, <1>9, <1>10

\* Every step preserves the invariant.
LEMMA ValidationStep == ValidationInv /\ [Next]_vars => ValidationInv'
<1> SUFFICES ASSUME ValidationInv, [Next]_vars PROVE ValidationInv' OBVIOUS
<1>1. CASE UNCHANGED vars
  BY <1>1 DEF vars, progress, ValidationInv, TypeOK, NothingForgotten, VisitedIsFound,
              AcceptedAtEnd, LimitKept, OnlyReferences, VisitedIsFinite, OncePerObject, Running,
              Covered, Free, Implicit, References, RequirePersisted
<1>2. CASE Validate
  BY <1>2, SkipStep, FailureStep, BlobStep, ContainerStep, OtherSteps DEF Validate
<1>3. CASE \E h \in Changing : Upload(h) \/ Save(h) \/ Evict(h)
  BY <1>3, OtherSteps, ValidationAssumption
<1> QED BY <1>1, <1>2, <1>3 DEF Next

-----------------------------------------------------------------------------

\* The invariant holds throughout every validation.
THEOREM ValidationInvariant == Spec => []ValidationInv
BY ValidationInit, ValidationStep, PTL DEF Spec

\* The state has its types; the limit is exceeded by one at most.
THEOREM ValidationTypes == Spec => []TypeOK
<1>1. ValidationInv => TypeOK BY DEF ValidationInv
<1> QED BY <1>1, ValidationInvariant, PTL

\* With nothing left to visit, what was met was visited.
LEMMA NothingLeftMeansComplete == ValidationInv => AcceptedIsComplete
<1> SUFFICES ASSUME ValidationInv, answer = "ok" PROVE AcceptedIsComplete
  BY DEF AcceptedIsComplete
<1>1. \A k \in Kinds : Covered(k) = validated[k] \cup Free(k)
  BY DEF ValidationInv, AcceptedAtEnd, Covered
<1>2. \A k \in Kinds : input.refs[k] \subseteq validated[k] \cup Free(k)
  BY <1>1 DEF ValidationInv, NothingForgotten, Running
<1>3. \A k, x \in Kinds : \A ref \in validated[k] :
        References(k, ref.hash)[x] \subseteq validated[x] \cup Free(x)
  BY <1>1 DEF ValidationInv, NothingForgotten, Running
<1>4. \A x \in Kinds : \A ref \in Free("blob") : References("blob", ref.hash)[x] = {}
  BY DEF References
<1> DEFINE visited == [k \in Kinds |-> IF k = "blob"
                                       THEN validated[k] \cup {r \in Refs : Implicit(r)}
                                       ELSE validated[k]]
<1>5. \A k \in Kinds : visited[k] = validated[k] \cup Free(k) BY DEF Free
<1> HIDE DEF visited
<1>6. Closed(visited)
  <2>1. \A k \in Kinds : input.refs[k] \subseteq visited[k] BY <1>2, <1>5
  <2>2. ASSUME NEW k \in Kinds, NEW x \in Kinds, NEW ref \in visited[k]
        PROVE  References(k, ref.hash)[x] \subseteq visited[x]
    <3>1. CASE ref \in validated[k] BY <3>1, <1>3, <1>5
    <3>2. CASE ref \in Free(k)
      <4>1. k = "blob" BY <3>2 DEF Free
      <4> QED BY <3>2, <4>1, <1>4
    <3> QED BY <1>5, <3>1, <3>2
  <2> QED BY <2>1, <2>2 DEF Closed
<1>7. \A k \in Kinds : \A ref \in validated[k] : Implicit(ref) \/ ref.hash \in closure
  BY DEF ValidationInv, VisitedIsFound, Running
<1> QED BY <1>6, <1>7 DEF AcceptedIsComplete, visited

\* validateActionResultClosure accepts a result only after it has visited
\* everything the result refers to, directly or through trees and directories.
THEOREM AcceptedResultsAreComplete == Spec => []AcceptedIsComplete
BY NothingLeftMeansComplete, ValidationInvariant, PTL

\* What an accepted result refers to was in the cache, or in the spool for a
\* read, and can only be gone if it was evicted meanwhile.
THEOREM AcceptedResultsAreAvailable == Spec => []AcceptedIsAvailable
<1>1. ValidationInv => AcceptedIsAvailable
  BY DEF ValidationInv, AcceptedIsAvailable, VisitedIsFound, Running
<1> QED BY <1>1, ValidationInvariant, PTL

\* Nothing is demanded that the result does not refer to.
THEOREM NothingElseIsDemanded == Spec => []OnlyReferences
<1>1. ValidationInv => OnlyReferences BY DEF ValidationInv
<1> QED BY <1>1, ValidationInvariant, PTL

\* rememberDigest lets an object be visited once in each role, with one size,
\* and reserveObject counts it once.
THEOREM EveryObjectOnce == Spec => []OncePerObject
<1>1. ValidationInv => OncePerObject BY DEF ValidationInv
<1> QED BY <1>1, ValidationInvariant, PTL

-----------------------------------------------------------------------------
(* The fields of a message.                                                 *)

\* new is data with one more field, at position last.
AddedAt(new, data, field, last) ==
  /\ last \in Nat /\ last \notin DOMAIN data /\ new[last] = field
  /\ DOMAIN new = DOMAIN data \cup {last}
  /\ \A i \in DOMAIN data : i \in Nat /\ i < last /\ new[i] = data[i]
  /\ \A n : Messages!At(data, n) \subseteq DOMAIN data
  /\ \A n : Messages!At(new, n) =
              IF field.number = n THEN Messages!At(data, n) \cup {last} ELSE Messages!At(data, n)

\* A field more has a position of its own, after the others.
LEMMA OneMoreField ==
  ASSUME NEW data \in Seq(Fields), NEW field \in Fields
  PROVE  \E last : AddedAt(Append(data, field), data, field, last)
<1>0. PICK new : new = Append(data, field) OBVIOUS
<1>1. Len(data) \in Nat /\ DOMAIN data = 1..Len(data) BY LenProperties
<1>2. PICK last : last = Len(data) + 1 OBVIOUS
<1>3. /\ new \in Seq(Fields) /\ Len(new) = last /\ new[last] = field
      /\ \A i \in 1..Len(data) : new[i] = data[i]
  BY <1>0, <1>2, AppendProperties
<1>4. DOMAIN new = 1..last BY <1>3, LenProperties
<1>5. last \in Nat /\ last \notin 1..Len(data) /\ 1..last = (1..Len(data)) \cup {last}
  BY <1>1, <1>2
<1>6. \A i \in 1..Len(data) : i \in Nat /\ i < last BY <1>1, <1>2
<1>7. ASSUME NEW n
      PROVE  /\ Messages!At(data, n) \subseteq DOMAIN data
             /\ Messages!At(new, n) =
                  IF field.number = n THEN Messages!At(data, n) \cup {last} ELSE Messages!At(data, n)
  BY <1>1, <1>3, <1>4, <1>5 DEF Messages!At
<1>8. AddedAt(new, data, field, last) BY <1>1, <1>3, <1>4, <1>5, <1>6, <1>7 DEF AddedAt
<1> QED BY <1>0, <1>8

\* What that means for the fields of each number.
Extends(new, data, field) ==
  /\ Messages!Wellformed(new) <=> Messages!Wellformed(data) /\ Messages!Consumed(field)
  /\ \A n : Messages!BytesAt(new, n) <=>
              Messages!BytesAt(data, n) /\ (field.number = n => field.type = "bytes")
  /\ \A n : Messages!Once(new, n) <=>
              Messages!Once(data, n) /\ (field.number = n => Messages!At(data, n) = {})
  /\ \A n : Messages!At(new, n) = {} <=> Messages!At(data, n) = {} /\ field.number # n

\* What a field more changes in what the visitors ask of every number.
LEMMA FieldsOfNumber ==
  ASSUME NEW data \in Seq(Fields), NEW field \in Fields
  PROVE  Extends(Append(data, field), data, field)
<1>0. PICK new : new = Append(data, field) OBVIOUS
<1>1. PICK last : AddedAt(new, data, field, last) BY <1>0, OneMoreField
<1>2. Messages!Wellformed(new) <=> Messages!Wellformed(data) /\ Messages!Consumed(field)
  BY <1>1 DEF AddedAt, Messages!Wellformed, Messages!Consumed
<1>3. ASSUME NEW n
      PROVE  /\ Messages!BytesAt(new, n) <=>
                  Messages!BytesAt(data, n) /\ (field.number = n => field.type = "bytes")
             /\ Messages!Once(new, n) <=>
                  Messages!Once(data, n) /\ (field.number = n => Messages!At(data, n) = {})
             /\ Messages!At(new, n) = {} <=> Messages!At(data, n) = {} /\ field.number # n
  <2>1. PICK old : old = Messages!At(data, n) OBVIOUS
  <2>2. last \notin old /\ new[last] = field /\ \A i \in old : new[i] = data[i]
    BY <1>1, <2>1 DEF AddedAt
  <2>3. PICK at : at = Messages!At(new, n) OBVIOUS
  <2>4. at = IF field.number = n THEN old \cup {last} ELSE old BY <1>1, <2>1, <2>3 DEF AddedAt
  <2>5. Messages!BytesAt(new, n) <=>
                  Messages!BytesAt(data, n) /\ (field.number = n => field.type = "bytes")
    BY <2>1, <2>2, <2>3, <2>4 DEF Messages!BytesAt
  <2>6. Messages!Once(new, n) <=>
                  Messages!Once(data, n) /\ (field.number = n => old = {})
    BY <2>1, <2>2, <2>3, <2>4 DEF Messages!Once
  <2> QED BY <2>1, <2>3, <2>4, <2>5, <2>6
<1>4. Extends(new, data, field) BY <1>2, <1>3 DEF Extends
<1> QED BY <1>0, <1>4

\* The empty message.
LEMMA NoFields ==
  ASSUME NEW data, data = <<>>
  PROVE  /\ Messages!Wellformed(data)
         /\ \A n : Messages!At(data, n) = {} /\ Messages!BytesAt(data, n) /\ Messages!Once(data, n)
<1>1. DOMAIN data = {} OBVIOUS
<1> QED BY <1>1 DEF Messages!Wellformed, Messages!At, Messages!BytesAt, Messages!Once

-----------------------------------------------------------------------------

\* What parseDigest makes of one field.
DigestStep(acc, field) == IF Messages!Consumed(field) THEN Messages!DigestField(acc, field) ELSE {}

\* The values of the fields of one number.
Texts(data, n) == {data[i].text : i \in Messages!At(data, n)}
Varints(data, n) == {data[i].varint : i \in Messages!At(data, n)}

\* A size that is accepted.
IsSize(field) == field.type = "varint" /\ Messages!SizeFits(field.varint)

\* What the visitor of digests requires of the fields.
DigestFields(data) ==
  /\ Messages!Wellformed(data) /\ Messages!BytesAt(data, 1)
  /\ Messages!Once(data, 1) /\ Messages!Once(data, 2)
  /\ \A i \in Messages!At(data, 2) : IsSize(data[i])

\* What was made of the fields that were read.
DigestSoFar(data, read) ==
  /\ read # {} <=> DigestFields(data)
  /\ \A acc \in read : acc = [hash |-> Texts(data, 1), size |-> Varints(data, 2)]

Digests == INSTANCE ReadingProofs WITH Read <- DigestStep, ReadSoFar <- DigestSoFar

\* One more field of a digest.
DigestExtends(new, data, field) ==
  /\ \A n : Texts(new, n) = IF field.number = n THEN Texts(data, n) \cup {field.text}
                                                ELSE Texts(data, n)
  /\ \A n : Varints(new, n) = IF field.number = n THEN Varints(data, n) \cup {field.varint}
                                                  ELSE Varints(data, n)
  /\ DigestFields(new) <=>
       /\ DigestFields(data) /\ Messages!Consumed(field)
       /\ field.number = 1 => field.type = "bytes" /\ Texts(data, 1) = {}
       /\ field.number = 2 => IsSize(field) /\ Varints(data, 2) = {}

\* What a field more changes in the message of a digest.
LEMMA DigestExtended ==
  ASSUME NEW data \in Seq(Fields), NEW field \in Fields
  PROVE  DigestExtends(Append(data, field), data, field)
<1>0. PICK new : new = Append(data, field) OBVIOUS
<1>1. PICK last : AddedAt(new, data, field, last) BY <1>0, OneMoreField
<1>2. Extends(new, data, field) BY <1>0, FieldsOfNumber
<1>3. \A n : \A i \in Messages!At(data, n) : new[i] = data[i] BY <1>1 DEF AddedAt
<1>4. ASSUME NEW n
      PROVE  /\ Texts(new, n) = IF field.number = n THEN Texts(data, n) \cup {field.text}
                                                    ELSE Texts(data, n)
             /\ Varints(new, n) = IF field.number = n THEN Varints(data, n) \cup {field.varint}
                                                      ELSE Varints(data, n)
  <2>1. PICK old : old = Messages!At(data, n) OBVIOUS
  <2>2. PICK at : at = Messages!At(new, n) OBVIOUS
  <2>3. at = IF field.number = n THEN old \cup {last} ELSE old BY <1>1, <2>1, <2>2 DEF AddedAt
  <2>4. new[last] = field /\ \A i \in old : new[i] = data[i] BY <1>1, <1>3, <2>1 DEF AddedAt
  <2>5. {new[i].text : i \in at} = IF field.number = n THEN {data[i].text : i \in old} \cup {field.text}
                                                       ELSE {data[i].text : i \in old}
    BY <2>3, <2>4
  <2>6. {new[i].varint : i \in at} =
          IF field.number = n THEN {data[i].varint : i \in old} \cup {field.varint}
                              ELSE {data[i].varint : i \in old}
    BY <2>3, <2>4
  <2> QED BY <2>1, <2>2, <2>5, <2>6 DEF Texts, Varints
<1>5. (\A i \in Messages!At(new, 2) : IsSize(new[i])) <=>
        (\A i \in Messages!At(data, 2) : IsSize(data[i])) /\ (field.number = 2 => IsSize(field))
  <2>1. PICK old : old = Messages!At(data, 2) OBVIOUS
  <2>2. PICK at : at = Messages!At(new, 2) OBVIOUS
  <2>3. at = IF field.number = 2 THEN old \cup {last} ELSE old BY <1>1, <2>1, <2>2 DEF AddedAt
  <2>4. new[last] = field /\ \A i \in old : new[i] = data[i] BY <1>1, <1>3, <2>1 DEF AddedAt
  <2> QED BY <2>1, <2>2, <2>3, <2>4
<1>6. (Texts(data, 1) = {} <=> Messages!At(data, 1) = {})
      /\ (Varints(data, 2) = {} <=> Messages!At(data, 2) = {})
  BY DEF Texts, Varints
<1>7. DigestFields(new) <=>
       /\ DigestFields(data) /\ Messages!Consumed(field)
       /\ field.number = 1 => field.type = "bytes" /\ Texts(data, 1) = {}
       /\ field.number = 2 => IsSize(field) /\ Varints(data, 2) = {}
  BY <1>2, <1>5, <1>6 DEF DigestFields, Extends
<1>8. DigestExtends(new, data, field) BY <1>4, <1>7 DEF DigestExtends
<1> QED BY <1>0, <1>8

\* What the visitor of digests reads.
LEMMA DigestReading ==
  ASSUME NEW data \in Seq(Fields)
  PROVE  DigestSoFar(data, Messages!visitWireFields(data, [hash |-> {}, size |-> {}],
                                                    Messages!DigestField))
<1> DEFINE start == [hash |-> {}, size |-> {}]
<1>1. DigestSoFar(<<>>, {start})
  <2>1. PICK empty : empty = <<>> OBVIOUS
  <2>2. Texts(empty, 1) = {} /\ Varints(empty, 2) = {} /\ DigestFields(empty)
    BY <2>1, NoFields DEF Texts, Varints, DigestFields
  <2> QED BY <2>1, <2>2 DEF DigestSoFar
<1>2. ASSUME NEW read \in Seq(Fields), NEW field \in Fields, NEW before, DigestSoFar(read, before)
      PROVE  DigestSoFar(Append(read, field), UNION {DigestStep(acc, field) : acc \in before})
  <2>1. PICK new : new = Append(read, field) OBVIOUS
  <2>2. PICK after : after = UNION {DigestStep(acc, field) : acc \in before} OBVIOUS
  <2>3. DigestExtends(new, read, field) BY <2>1, DigestExtended
  <2>4. PICK texts, varints : texts = Texts(read, 1) /\ varints = Varints(read, 2) OBVIOUS
  <2>5. ASSUME NEW acc \in before
        PROVE  /\ DigestStep(acc, field) =
                    IF DigestFields(new) THEN {[hash |-> Texts(new, 1), size |-> Varints(new, 2)]}
                    ELSE {}
    <3>1. acc = [hash |-> texts, size |-> varints] /\ DigestFields(read)
      BY <1>2, <2>4 DEF DigestSoFar
    <3>2. CASE ~Messages!Consumed(field) BY <2>3, <3>2 DEF DigestStep, DigestExtends
    <3>3. CASE Messages!Consumed(field) /\ field.number = 1
      <4>1. DigestStep(acc, field) =
              IF field.type = "bytes" /\ texts = {} THEN {[acc EXCEPT !.hash = {field.text}]} ELSE {}
        BY <3>1, <3>3 DEF DigestStep, Messages!DigestField
      <4>2. \A h : [[hash |-> texts, size |-> varints] EXCEPT !.hash = h] = [hash |-> h, size |-> varints]
        OBVIOUS
      <4>2a. [acc EXCEPT !.hash = {field.text}] = [hash |-> {field.text}, size |-> varints] BY <3>1, <4>2
      <4>3. Texts(new, 1) = texts \cup {field.text} /\ Varints(new, 2) = varints
        BY <2>3, <2>4, <3>3 DEF DigestExtends
      <4>4. DigestFields(new) <=> field.type = "bytes" /\ texts = {}
        BY <2>3, <2>4, <3>1, <3>3 DEF DigestExtends
      <4> QED BY <4>1, <4>2a, <4>3, <4>4
    <3>4. CASE Messages!Consumed(field) /\ field.number = 2
      <4>1. DigestStep(acc, field) =
              IF IsSize(field) /\ varints = {} THEN {[acc EXCEPT !.size = {field.varint}]} ELSE {}
        BY <3>1, <3>4 DEF DigestStep, Messages!DigestField, IsSize
      <4>2. \A h : [[hash |-> texts, size |-> varints] EXCEPT !.size = h] = [hash |-> texts, size |-> h]
        OBVIOUS
      <4>2a. [acc EXCEPT !.size = {field.varint}] = [hash |-> texts, size |-> {field.varint}] BY <3>1, <4>2
      <4>3. Texts(new, 1) = texts /\ Varints(new, 2) = varints \cup {field.varint}
        BY <2>3, <2>4, <3>4 DEF DigestExtends
      <4>4. DigestFields(new) <=> IsSize(field) /\ varints = {}
        BY <2>3, <2>4, <3>1, <3>4 DEF DigestExtends
      <4> QED BY <4>1, <4>2a, <4>3, <4>4
    <3>5. CASE Messages!Consumed(field) /\ field.number # 1 /\ field.number # 2
      <4>1. DigestStep(acc, field) = {acc} BY <3>5 DEF DigestStep, Messages!DigestField
      <4>2. Texts(new, 1) = texts /\ Varints(new, 2) = varints /\ DigestFields(new)
        BY <2>3, <2>4, <3>1, <3>5 DEF DigestExtends
      <4> QED BY <3>1, <4>1, <4>2
    <3> QED BY <3>2, <3>3, <3>4, <3>5
  <2>6. before = {} => ~DigestFields(new) BY <1>2, <2>3 DEF DigestSoFar, DigestExtends
  <2>7. DigestSoFar(new, after) BY <2>2, <2>5, <2>6 DEF DigestSoFar
  <2> QED BY <2>1, <2>2, <2>7
<1>3. DigestSoFar(data, Digests!ReadEach(data, start, DigestStep))
  BY <1>1, <1>2, Digests!ReadInduction
<1>4. Messages!visitWireFields(data, start, Messages!DigestField)
        = Digests!ReadEach(data, start, DigestStep)
  BY DEF Messages!visitWireFields, Messages!ReadEach, Digests!ReadEach, DigestStep
<1> QED BY <1>3, <1>4

\* The references that a message denotes as a digest: at most one.
Denoted(data) == {ref \in Messages!Refs : Messages!Denotes(data, ref)}

\* The visitor accepts every message that denotes something.
LEMMA DenotedFields ==
  ASSUME NEW data, NEW ref \in Denoted(data)
  PROVE  /\ DigestFields(data) /\ \E i \in Messages!At(data, 1) : data[i].text = ref.hash
         /\ \A i \in Messages!At(data, 2) : data[i].varint = ref.size
         /\ Messages!At(data, 2) = {} => ref.size = 0
<1>1. ref.size \in 0..MaxInt64 BY DEF Denoted, Messages!Refs
<1>2. Messages!Denotes(data, ref) BY DEF Denoted
<1>3. \A i \in Messages!At(data, 2) : data[i].type = "varint" /\ data[i].varint = ref.size
  BY <1>2 DEF Messages!Denotes, Messages!Once
<1>4. \A i \in Messages!At(data, 2) : IsSize(data[i])
  BY <1>1, <1>3, FieldsAssumption DEF IsSize, Messages!SizeFits
<1> QED BY <1>2, <1>3, <1>4 DEF Messages!Denotes, DigestFields

\* parseDigest returns the reference that a message denotes.
LEMMA ParsedDigest ==
  ASSUME NEW data \in Seq(Fields)
  PROVE  Messages!parseDigest(data) = Denoted(data) /\ \A r, s \in Denoted(data) : r = s
<1>0. PICK read : read = Messages!visitWireFields(data, [hash |-> {}, size |-> {}],
                                                  Messages!DigestField)
  OBVIOUS
<1>1. /\ read # {} <=> DigestFields(data)
      /\ \A acc \in read : acc = [hash |-> Texts(data, 1), size |-> Varints(data, 2)]
  BY <1>0, DigestReading DEF DigestSoFar
<1>2. Messages!parseDigest(data) =
        {[hash |-> Messages!The(digest.hash),
          size |-> IF digest.size = {} THEN 0 ELSE Messages!The(digest.size)] :
           digest \in {d \in read : d.hash # {} /\ d.hash \subseteq Hashes}}
  BY <1>0 DEF Messages!parseDigest
<1>3. \A i \in Messages!At(data, 1) \cup Messages!At(data, 2) : data[i] \in Fields
  BY LenProperties, ElementOfSeq DEF Messages!At
<1>4. CASE ~DigestFields(data)
  <2>1. read = {} BY <1>1, <1>4
  <2>2. Messages!parseDigest(data) = {} BY <1>2, <2>1
  <2>3. Denoted(data) = {} BY <1>4, DenotedFields
  <2> QED BY <2>2, <2>3
<1>5. CASE DigestFields(data) /\ Messages!At(data, 1) = {}
  <2>1. Texts(data, 1) = {} BY <1>5 DEF Texts
  <2>2. \A d \in read : d.hash = {} BY <1>1, <2>1
  <2>3. Messages!parseDigest(data) = {} BY <1>2, <2>2
  <2>4. Denoted(data) = {} BY <1>5, DenotedFields
  <2> QED BY <2>3, <2>4
<1>6. CASE DigestFields(data) /\ Messages!At(data, 1) # {}
  <2>1. PICK first \in Messages!At(data, 1) : TRUE BY <1>6
  <2>2. \A i \in Messages!At(data, 1) : i = first
    BY <1>6, <2>1 DEF DigestFields, Messages!Once
  <2>3. PICK text : text = data[first].text OBVIOUS
  <2>4. Texts(data, 1) = {text} BY <2>1, <2>2, <2>3 DEF Texts
  <2>5. PICK size : size = IF Varints(data, 2) = {} THEN 0 ELSE Messages!The(Varints(data, 2))
    OBVIOUS
  <2>6. /\ \A i \in Messages!At(data, 2) : data[i].varint = size
        /\ Messages!At(data, 2) = {} => size = 0
        /\ size \in 0..MaxInt64
    <3>1. CASE Messages!At(data, 2) = {}
      <4>1. Varints(data, 2) = {} BY <3>1 DEF Varints
      <4>2. size = 0 BY <2>5, <4>1
      <4> QED BY <3>1, <4>2, FieldsAssumption
    <3>2. CASE Messages!At(data, 2) # {}
      <4>1. PICK second \in Messages!At(data, 2) : TRUE BY <3>2
      <4>2. \A i \in Messages!At(data, 2) : i = second
        BY <1>6, <4>1 DEF DigestFields, Messages!Once
      <4>3. PICK varint : varint = data[second].varint OBVIOUS
      <4>4. Varints(data, 2) = {varint} BY <4>1, <4>2, <4>3 DEF Varints
      <4>5. Messages!The({varint}) = varint BY DEF Messages!The
      <4>6. size = varint BY <2>5, <4>4, <4>5
      <4>7. IsSize(data[second]) /\ data[second] \in Fields
        BY <1>3, <1>6, <4>1 DEF DigestFields
      <4>8. varint \in Nat /\ varint <= MaxInt64
        BY <4>3, <4>7, FieldsAssumption DEF IsSize, Messages!SizeFits
      <4>9. size \in 0..MaxInt64 BY <4>6, <4>8, FieldsAssumption
      <4> QED BY <3>2, <4>2, <4>3, <4>6, <4>9
    <3> QED BY <3>1, <3>2
  <2>7. PICK ref : ref = [hash |-> text, size |-> size] OBVIOUS
  <2>8. Messages!parseDigest(data) = IF text \in Hashes THEN {ref} ELSE {}
    <3>1. PICK acc : acc = [hash |-> Texts(data, 1), size |-> Varints(data, 2)] OBVIOUS
    <3>2. read = {acc} BY <1>1, <1>6, <3>1
    <3>3. acc.hash = {text} /\ acc.size = Varints(data, 2) BY <2>4, <3>1
    <3>4. Messages!The({text}) = text BY DEF Messages!The
    <3>5. {d \in read : d.hash # {} /\ d.hash \subseteq Hashes} = IF text \in Hashes THEN {acc} ELSE {}
      BY <3>2, <3>3
    <3>6. [hash |-> Messages!The(acc.hash),
           size |-> IF acc.size = {} THEN 0 ELSE Messages!The(acc.size)] = ref
      BY <2>5, <2>7, <3>3, <3>4
    <3> QED BY <1>2, <3>5, <3>6
  <2>9. \A r \in Denoted(data) : r = ref /\ text \in Hashes
    <3>1. SUFFICES ASSUME NEW r \in Denoted(data) PROVE r = ref /\ text \in Hashes OBVIOUS
    <3>2. r \in [hash : Hashes, size : 0..MaxInt64] BY DEF Denoted, Messages!Refs
    <3>3. r.hash = text BY <2>2, <2>3, DenotedFields
    <3>4. r.size = size
      <4>1. CASE Messages!At(data, 2) = {} BY <2>6, <4>1, DenotedFields
      <4>2. CASE Messages!At(data, 2) # {}
        <5>1. PICK i \in Messages!At(data, 2) : TRUE BY <4>2
        <5> QED BY <2>6, <5>1, DenotedFields
      <4> QED BY <4>1, <4>2
    <3> QED BY <2>7, <3>2, <3>3, <3>4
  <2>10. text \in Hashes => ref \in Denoted(data)
    <3> SUFFICES ASSUME text \in Hashes PROVE ref \in Denoted(data) OBVIOUS
    <3>1. ref \in Messages!Refs /\ ref.hash = text /\ ref.size = size
      BY <2>6, <2>7 DEF Messages!Refs
    <3>2. \A i \in Messages!At(data, 2) : data[i].type = "varint" BY <1>6 DEF DigestFields, IsSize
    <3>3. Messages!Denotes(data, ref)
      BY <1>6, <2>1, <2>3, <2>6, <3>1, <3>2 DEF DigestFields, Messages!Denotes
    <3> QED BY <3>1, <3>3 DEF Denoted
  <2> QED BY <2>8, <2>9, <2>10
<1> QED BY <1>4, <1>5, <1>6

-----------------------------------------------------------------------------

\* The value of the field is a digest.
IsDigest(field) == field.type = "bytes" /\ Denoted(field.message) # {}

\* What is parsed of the digest in a field.
LEMMA EmbeddedDigest ==
  ASSUME NEW field \in Fields
  PROVE  UNION {Messages!parseDigest(m) : m \in Messages!messageOf(field)} =
           IF IsDigest(field) THEN Denoted(field.message) ELSE {}
<1>1. Messages!parseDigest(field.message) = Denoted(field.message)
  BY FieldsAssumption, ParsedDigest
<1> QED BY <1>1 DEF Messages!messageOf, IsDigest

\* A slot gets the reference that the field denotes.
LEMMA TakenDigest ==
  ASSUME NEW acc, NEW slot, NEW field \in Fields
  PROVE  Messages!TakeDigest(acc, slot, field) =
           IF IsDigest(field) THEN {[acc EXCEPT ![slot] = Denoted(field.message)]} ELSE {}
<1>1. PICK refs : refs = UNION {Messages!parseDigest(m) : m \in Messages!messageOf(field)} OBVIOUS
<1>2. Messages!TakeDigest(acc, slot, field) = {[acc EXCEPT ![slot] = {ref}] : ref \in refs}
  BY <1>1 DEF Messages!TakeDigest
<1>3. CASE ~IsDigest(field)
  <2>1. refs = {} BY <1>1, <1>3, EmbeddedDigest
  <2> QED BY <1>2, <1>3, <2>1
<1>4. CASE IsDigest(field)
  <2>1. refs = Denoted(field.message) BY <1>1, <1>4, EmbeddedDigest
  <2>2. PICK ref \in refs : TRUE BY <1>4, <2>1 DEF IsDigest
  <2>3. refs = {ref} BY <2>1, <2>2, FieldsAssumption, ParsedDigest
  <2>4. Messages!TakeDigest(acc, slot, field) = {[acc EXCEPT ![slot] = {ref}]} BY <1>2, <2>3
  <2> QED BY <1>4, <2>1, <2>3, <2>4
<1> QED BY <1>3, <1>4

\* The digests in a message with one more field.
DigestsExtend(new, data, field) ==
  /\ \A n : Messages!AllDigests(new, n) <=>
              Messages!AllDigests(data, n) /\ (field.number = n => IsDigest(field))
  /\ \A n : Messages!DigestsAt(new, n) =
              IF field.number = n THEN Messages!DigestsAt(data, n) \cup Denoted(field.message)
                                  ELSE Messages!DigestsAt(data, n)
  /\ \A n : Messages!AllDigests(data, n) =>
              (Messages!DigestsAt(data, n) = {} <=> Messages!At(data, n) = {})

\* What a field more changes in the digests of every number.
LEMMA DigestsExtended ==
  ASSUME NEW data \in Seq(Fields), NEW field \in Fields
  PROVE  DigestsExtend(Append(data, field), data, field)
<1>0. PICK new : new = Append(data, field) OBVIOUS
<1>1. PICK last : AddedAt(new, data, field, last) BY <1>0, OneMoreField
<1>2. Extends(new, data, field) BY <1>0, FieldsOfNumber
<1>3. ASSUME NEW n
      PROVE  /\ Messages!AllDigests(new, n) <=>
                  Messages!AllDigests(data, n) /\ (field.number = n => IsDigest(field))
             /\ Messages!DigestsAt(new, n) =
                  IF field.number = n THEN Messages!DigestsAt(data, n) \cup Denoted(field.message)
                                      ELSE Messages!DigestsAt(data, n)
             /\ Messages!AllDigests(data, n) =>
                  (Messages!DigestsAt(data, n) = {} <=> Messages!At(data, n) = {})
  <2>1. PICK old : old = Messages!At(data, n) OBVIOUS
  <2>2. PICK at : at = Messages!At(new, n) OBVIOUS
  <2>3. at = IF field.number = n THEN old \cup {last} ELSE old BY <1>1, <2>1, <2>2 DEF AddedAt
  <2>4. new[last] = field /\ \A i \in old : new[i] = data[i] BY <1>1, <2>1 DEF AddedAt
  <2>5. (\A i \in at : Denoted(new[i].message) # {}) <=>
          (\A i \in old : Denoted(data[i].message) # {})
          /\ (field.number = n => Denoted(field.message) # {})
    BY <2>3, <2>4
  <2>6. \A m : (\E ref \in Messages!Refs : Messages!Denotes(m, ref)) <=> Denoted(m) # {}
    BY DEF Denoted
  <2>7. Messages!AllDigests(new, n) <=>
          Messages!BytesAt(new, n) /\ \A i \in at : Denoted(new[i].message) # {}
    BY <2>2, <2>6 DEF Messages!AllDigests
  <2>8. Messages!AllDigests(data, n) <=>
          Messages!BytesAt(data, n) /\ \A i \in old : Denoted(data[i].message) # {}
    BY <2>1, <2>6 DEF Messages!AllDigests
  <2>9. Messages!BytesAt(new, n) <=>
              Messages!BytesAt(data, n) /\ (field.number = n => field.type = "bytes")
    BY <1>2 DEF Extends
  <2>10. Messages!AllDigests(new, n) <=>
                  Messages!AllDigests(data, n) /\ (field.number = n => IsDigest(field))
    BY <2>5, <2>7, <2>8, <2>9 DEF IsDigest
  <2>11. \A r : r \in Messages!DigestsAt(new, n) <=> \E i \in at : r \in Denoted(new[i].message)
    BY <2>2 DEF Messages!DigestsAt, Denoted
  <2>12. \A r : r \in Messages!DigestsAt(data, n) <=> \E i \in old : r \in Denoted(data[i].message)
    BY <2>1 DEF Messages!DigestsAt, Denoted
  <2>13. Messages!AllDigests(data, n) =>
                  (Messages!DigestsAt(data, n) = {} <=> Messages!At(data, n) = {})
    BY <2>1, <2>8, <2>12
  <2>14. CASE field.number = n
    <3>1. at = old \cup {last} BY <2>3, <2>14
    <3>2. \A r : r \in Messages!DigestsAt(new, n) <=>
                   r \in Messages!DigestsAt(data, n) \cup Denoted(field.message)
      BY <2>4, <2>11, <2>12, <3>1
    <3>3. Messages!DigestsAt(new, n) = Messages!DigestsAt(data, n) \cup Denoted(field.message)
      BY <3>2
    <3> QED BY <2>10, <2>13, <2>14, <3>3
  <2>15. CASE field.number # n
    <3>1. at = old BY <2>3, <2>15
    <3>2. \A r : r \in Messages!DigestsAt(new, n) <=> r \in Messages!DigestsAt(data, n)
      BY <2>4, <2>11, <2>12, <3>1
    <3>3. Messages!DigestsAt(new, n) = Messages!DigestsAt(data, n) BY <3>2
    <3> QED BY <2>10, <2>13, <2>15, <3>3
  <2> QED BY <2>14, <2>15
<1>4. DigestsExtend(new, data, field) BY <1>3 DEF DigestsExtend
<1> QED BY <1>0, <1>4

\* The empty message has no digests.
LEMMA NoDigests ==
  ASSUME NEW data, data = <<>>
  PROVE  \A n : Messages!AllDigests(data, n) /\ Messages!DigestsAt(data, n) = {}
BY NoFields DEF Messages!AllDigests, Messages!DigestsAt

-----------------------------------------------------------------------------
(* Output files.                                                            *)

\* What parseOutputFile makes of one field.
FileStep(acc, field) ==
  IF Messages!Consumed(field) THEN Messages!OutputFileField(acc, field) ELSE {}

\* The fields that an output file may have.
FileFields(data) ==
  /\ Messages!Wellformed(data) /\ Messages!AllDigests(data, 2) /\ Messages!Once(data, 2)
  /\ Messages!BytesAt(data, 5)

\* Whether the contents are inlined.
Inline(data, n) == IF Messages!At(data, n) = {} THEN FALSE ELSE TRUE

\* What was read of an output file.
FileOf(data) == [digest |-> Messages!DigestsAt(data, 2), inline |-> Inline(data, 5)]

\* What was made of the fields that were read.
FileSoFar(data, read) ==
  read = IF FileFields(data) THEN {FileOf(data)} ELSE {}

OutputFiles == INSTANCE ReadingProofs WITH Read <- FileStep, ReadSoFar <- FileSoFar

\* What the visitor of output files reads.
LEMMA FileReading ==
  ASSUME NEW data \in Seq(Fields)
  PROVE  FileSoFar(data, Messages!visitWireFields(data, [digest |-> {}, inline |-> FALSE],
                                                  Messages!OutputFileField))
<1> DEFINE start == [digest |-> {}, inline |-> FALSE]
<1>1. FileSoFar(<<>>, {start})
  <2>1. PICK empty : empty = <<>> OBVIOUS
  <2>2. FileFields(empty) /\ FileOf(empty) = start
    BY <2>1, NoFields, NoDigests DEF FileFields, FileOf, Inline
  <2> QED BY <2>1, <2>2 DEF FileSoFar
<1>2. ASSUME NEW read \in Seq(Fields), NEW field \in Fields, NEW before, FileSoFar(read, before)
      PROVE  FileSoFar(Append(read, field), UNION {FileStep(acc, field) : acc \in before})
  <2>1. PICK new : new = Append(read, field) OBVIOUS
  <2>2. PICK after : after = UNION {FileStep(acc, field) : acc \in before} OBVIOUS
  <2>3. Extends(new, read, field) BY <2>1, FieldsOfNumber
  <2>4. DigestsExtend(new, read, field) BY <2>1, DigestsExtended
  <2>5. FileFields(new) <=>
          /\ FileFields(read) /\ Messages!Consumed(field)
          /\ field.number = 2 => IsDigest(field) /\ Messages!At(read, 2) = {}
          /\ field.number = 5 => field.type = "bytes"
    BY <2>3, <2>4 DEF FileFields, Extends, DigestsExtend
  <2>6. PICK refs, inline : refs = Messages!DigestsAt(read, 2) /\ inline = Inline(read, 5)
    OBVIOUS
  <2>6a. /\ Messages!DigestsAt(new, 2) =
              IF field.number = 2 THEN refs \cup Denoted(field.message) ELSE refs
         /\ Inline(new, 5) = IF field.number = 5 THEN TRUE ELSE inline
    BY <2>3, <2>4, <2>6 DEF Extends, DigestsExtend, Inline
  <2>6b. field.number = 5 => Messages!DigestsAt(new, 2) = refs /\ Inline(new, 5) = TRUE
    BY <2>3, <2>4, <2>6 DEF Extends, DigestsExtend, Inline
  <2>7. CASE ~FileFields(read)
    <3>1. after = {} BY <1>2, <2>2, <2>7 DEF FileSoFar
    <3> QED BY <2>1, <2>2, <2>5, <2>7, <3>1 DEF FileSoFar
  <2>8. CASE FileFields(read)
    <3>0. PICK acc : acc = [digest |-> refs, inline |-> inline] OBVIOUS
    <3>1. after = FileStep(acc, field) BY <1>2, <2>2, <2>6, <2>8, <3>0 DEF FileSoFar, FileOf
    <3>2. refs = {} <=> Messages!At(read, 2) = {}
      BY <2>4, <2>6, <2>8 DEF FileFields, DigestsExtend
    <3>3. FileStep(acc, field) = IF FileFields(new) THEN {FileOf(new)} ELSE {}
      <4>1. CASE ~Messages!Consumed(field) BY <2>5, <4>1 DEF FileStep
      <4>2. CASE Messages!Consumed(field) /\ field.number = 2
        <5>1. FileStep(acc, field) = IF acc["digest"] = {} THEN Messages!TakeDigest(acc, "digest", field) ELSE {}
          BY <4>2 DEF FileStep, Messages!OutputFileField, Messages!TakeDigestOnce
        <5>2. acc["digest"] = refs BY <3>0
        <5>3. [acc EXCEPT !["digest"] = Denoted(field.message)] =
                [digest |-> Denoted(field.message), inline |-> inline]
          BY <3>0
        <5>4. FileStep(acc, field) = IF refs = {} /\ IsDigest(field)
                THEN {[digest |-> Denoted(field.message), inline |-> inline]} ELSE {}
          BY <5>1, <5>2, <5>3, TakenDigest
        <5>5. FileOf(new) = [digest |-> refs \cup Denoted(field.message), inline |-> inline]
          <6>1. Messages!DigestsAt(new, 2) = refs \cup Denoted(field.message) /\ Inline(new, 5) = inline
            BY <2>6a, <4>2
          <6> QED BY <6>1, Zenon DEF FileOf
        <5>6. FileFields(new) <=> IsDigest(field) /\ refs = {} BY <2>5, <2>8, <3>2, <4>2
        <5> QED BY <5>4, <5>5, <5>6
      <4>3. CASE Messages!Consumed(field) /\ field.number = 5
        <5>1. FileStep(acc, field) = IF field.type = "bytes" THEN {[acc EXCEPT !["inline"] = TRUE]} ELSE {}
          BY <4>3 DEF FileStep, Messages!OutputFileField, Messages!TakeInline
        <5>2. \A v : [[digest |-> refs, inline |-> inline] EXCEPT !["inline"] = v]
                     = [digest |-> refs, inline |-> v]
          OBVIOUS
        <5>2a. [acc EXCEPT !["inline"] = TRUE] = [digest |-> refs, inline |-> TRUE] BY <3>0, <5>2
        <5>3. FileOf(new) = [digest |-> refs, inline |-> TRUE]
          <6>1. Messages!DigestsAt(new, 2) = refs /\ Inline(new, 5) = TRUE
            BY <2>6b, <4>3, Zenon
          <6> QED BY <6>1, Zenon DEF FileOf
        <5>4. FileFields(new) <=> field.type = "bytes" BY <2>5, <2>8, <4>3
        <5> QED BY <5>1, <5>2a, <5>3, <5>4, Zenon
      <4>4. CASE Messages!Consumed(field) /\ field.number # 2 /\ field.number # 5
        <5>1. FileStep(acc, field) = {acc} BY <4>4 DEF FileStep, Messages!OutputFileField
        <5>2. FileOf(new) = acc
          BY <2>6a, <3>0, <4>4 DEF FileOf
        <5> QED BY <2>5, <2>8, <4>4, <5>1, <5>2
      <4> QED BY <4>1, <4>2, <4>3, <4>4
    <3> QED BY <2>1, <2>2, <3>1, <3>3 DEF FileSoFar
  <2> QED BY <2>7, <2>8
<1>3. FileSoFar(data, OutputFiles!ReadEach(data, start, FileStep))
  BY <1>1, <1>2, OutputFiles!ReadInduction
<1>4. Messages!visitWireFields(data, start, Messages!OutputFileField)
        = OutputFiles!ReadEach(data, start, FileStep)
  BY DEF Messages!visitWireFields, Messages!ReadEach, OutputFiles!ReadEach, FileStep
<1> QED BY <1>3, <1>4

\* parseOutputFile accepts the good output files, and returns their contents.
LEMMA ParsedFile ==
  ASSUME NEW data \in Seq(Fields)
  PROVE  Messages!parseOutputFile(data) = IF Messages!GoodFile(data) THEN {FileOf(data)} ELSE {}
<1>0. PICK read : read = Messages!visitWireFields(data, [digest |-> {}, inline |-> FALSE],
                                                  Messages!OutputFileField)
  OBVIOUS
<1>1. read = IF FileFields(data) THEN {FileOf(data)} ELSE {} BY <1>0, FileReading DEF FileSoFar
<1>2. Messages!parseOutputFile(data) = {file \in read : file.digest # {} \/ file.inline}
  BY <1>0 DEF Messages!parseOutputFile
<1>3. FileOf(data).digest = Messages!DigestsAt(data, 2) BY DEF FileOf
<1>4. FileOf(data).inline <=> Messages!At(data, 5) # {}
  <2>1. FileOf(data).inline = Inline(data, 5) BY DEF FileOf
  <2>2. Inline(data, 5) <=> Messages!At(data, 5) # {} BY DEF Inline
  <2> QED BY <2>1, <2>2
<1>5. Messages!GoodFile(data) <=>
        FileFields(data) /\ (FileOf(data).digest # {} \/ FileOf(data).inline)
  <2>1. Messages!GoodFile(data) <=>
          FileFields(data) /\ (Messages!At(data, 2) # {} \/ Messages!At(data, 5) # {})
    BY DEF Messages!GoodFile, FileFields
  <2>2. Messages!AllDigests(data, 2) =>
          (Messages!DigestsAt(data, 2) = {} <=> Messages!At(data, 2) = {})
    BY DEF Messages!AllDigests, Messages!DigestsAt
  <2>3. FileFields(data) => (FileOf(data).digest = {} <=> Messages!At(data, 2) = {})
    BY <1>3, <2>2 DEF FileFields
  <2> QED BY <1>4, <2>1, <2>3, Zenon
<1> QED BY <1>1, <1>2, <1>5

-----------------------------------------------------------------------------
(* Output directories.                                                      *)

\* What parseOutputDirectory makes of one field.
DirStep(acc, field) ==
  IF Messages!Consumed(field) THEN Messages!OutputDirectoryField(acc, field) ELSE {}

\* The fields that an output directory may have.
DirFields(data) ==
  /\ Messages!Wellformed(data)
  /\ \A n \in {3, 5} : Messages!AllDigests(data, n) /\ Messages!Once(data, n)

\* What was read of an output directory.
DirOf(data) == [tree |-> Messages!DigestsAt(data, 3), root |-> Messages!DigestsAt(data, 5)]

\* What was made of the fields that were read.
DirSoFar(data, read) == read = IF DirFields(data) THEN {DirOf(data)} ELSE {}

OutputDirectories == INSTANCE ReadingProofs WITH Read <- DirStep, ReadSoFar <- DirSoFar

\* What the visitor of output directories reads.
LEMMA DirReading ==
  ASSUME NEW data \in Seq(Fields)
  PROVE  DirSoFar(data, Messages!visitWireFields(data, [tree |-> {}, root |-> {}],
                                                 Messages!OutputDirectoryField))
<1> DEFINE start == [tree |-> {}, root |-> {}]
<1>1. DirSoFar(<<>>, {start})
  <2>1. PICK empty : empty = <<>> OBVIOUS
  <2>2. DirFields(empty) /\ DirOf(empty) = start
    BY <2>1, NoFields, NoDigests DEF DirFields, DirOf
  <2> QED BY <2>1, <2>2 DEF DirSoFar
<1>2. ASSUME NEW read \in Seq(Fields), NEW field \in Fields, NEW before, DirSoFar(read, before)
      PROVE  DirSoFar(Append(read, field), UNION {DirStep(acc, field) : acc \in before})
  <2>1. PICK new : new = Append(read, field) OBVIOUS
  <2>2. PICK after : after = UNION {DirStep(acc, field) : acc \in before} OBVIOUS
  <2>3. Extends(new, read, field) BY <2>1, FieldsOfNumber
  <2>4. DigestsExtend(new, read, field) BY <2>1, DigestsExtended
  <2>5. DirFields(new) <=>
          /\ DirFields(read) /\ Messages!Consumed(field)
          /\ field.number = 3 => IsDigest(field) /\ Messages!At(read, 3) = {}
          /\ field.number = 5 => IsDigest(field) /\ Messages!At(read, 5) = {}
    BY <2>3, <2>4 DEF DirFields, Extends, DigestsExtend
  <2>6. PICK tree, root : tree = Messages!DigestsAt(read, 3) /\ root = Messages!DigestsAt(read, 5)
    OBVIOUS
  <2>7. /\ Messages!DigestsAt(new, 3) = IF field.number = 3 THEN tree \cup Denoted(field.message) ELSE tree
        /\ Messages!DigestsAt(new, 5) = IF field.number = 5 THEN root \cup Denoted(field.message) ELSE root
    BY <2>4, <2>6 DEF DigestsExtend
  <2>8. CASE ~DirFields(read)
    <3>1. after = {} BY <1>2, <2>2, <2>8 DEF DirSoFar
    <3> QED BY <2>1, <2>2, <2>5, <2>8, <3>1 DEF DirSoFar
  <2>9. CASE DirFields(read)
    <3>0. PICK acc : acc = [tree |-> tree, root |-> root] OBVIOUS
    <3>1. after = DirStep(acc, field) BY <1>2, <2>2, <2>6, <2>9, <3>0 DEF DirSoFar, DirOf
    <3>2. (tree = {} <=> Messages!At(read, 3) = {}) /\ (root = {} <=> Messages!At(read, 5) = {})
      BY <2>4, <2>6, <2>9 DEF DirFields, DigestsExtend
    <3>3. DirStep(acc, field) = IF DirFields(new) THEN {DirOf(new)} ELSE {}
      <4>1. CASE ~Messages!Consumed(field) BY <2>5, <4>1 DEF DirStep
      <4>2. CASE Messages!Consumed(field) /\ field.number = 3
        <5>1. DirStep(acc, field) = IF acc["tree"] = {} THEN Messages!TakeDigest(acc, "tree", field) ELSE {}
          BY <4>2 DEF DirStep, Messages!OutputDirectoryField, Messages!TakeDigestOnce
        <5>2. acc["tree"] = tree BY <3>0
        <5>3. [acc EXCEPT !["tree"] = Denoted(field.message)] =
                [tree |-> Denoted(field.message), root |-> root]
          BY <3>0
        <5>4. DirStep(acc, field) = IF tree = {} /\ IsDigest(field)
                THEN {[tree |-> Denoted(field.message), root |-> root]} ELSE {}
          BY <5>1, <5>2, <5>3, TakenDigest
        <5>5. DirOf(new) = [tree |-> tree \cup Denoted(field.message), root |-> root]
          <6>1. /\ Messages!DigestsAt(new, 3) = tree \cup Denoted(field.message)
                /\ Messages!DigestsAt(new, 5) = root
            BY <2>7, <4>2
          <6> QED BY <6>1, Zenon DEF DirOf
        <5>6. DirFields(new) <=> IsDigest(field) /\ tree = {} BY <2>5, <2>9, <3>2, <4>2
        <5> QED BY <5>4, <5>5, <5>6
      <4>3. CASE Messages!Consumed(field) /\ field.number = 5
        <5>1. DirStep(acc, field) = IF acc["root"] = {} THEN Messages!TakeDigest(acc, "root", field) ELSE {}
          BY <4>3 DEF DirStep, Messages!OutputDirectoryField, Messages!TakeDigestOnce
        <5>2. acc["root"] = root BY <3>0
        <5>3. [acc EXCEPT !["root"] = Denoted(field.message)] =
                [tree |-> tree, root |-> Denoted(field.message)]
          BY <3>0
        <5>4. DirStep(acc, field) = IF root = {} /\ IsDigest(field)
                THEN {[tree |-> tree, root |-> Denoted(field.message)]} ELSE {}
          BY <5>1, <5>2, <5>3, TakenDigest
        <5>5. DirOf(new) = [tree |-> tree, root |-> root \cup Denoted(field.message)]
          <6>1. /\ Messages!DigestsAt(new, 3) = tree
                /\ Messages!DigestsAt(new, 5) = root \cup Denoted(field.message)
            BY <2>7, <4>3
          <6> QED BY <6>1, Zenon DEF DirOf
        <5>6. DirFields(new) <=> IsDigest(field) /\ root = {} BY <2>5, <2>9, <3>2, <4>3
        <5> QED BY <5>4, <5>5, <5>6
      <4>4. CASE Messages!Consumed(field) /\ field.number # 3 /\ field.number # 5
        <5>1. DirStep(acc, field) = {acc} BY <4>4 DEF DirStep, Messages!OutputDirectoryField
        <5>2. DirOf(new) = acc BY <2>7, <3>0, <4>4 DEF DirOf
        <5> QED BY <2>5, <2>9, <4>4, <5>1, <5>2
      <4> QED BY <4>1, <4>2, <4>3, <4>4
    <3> QED BY <2>1, <2>2, <3>1, <3>3 DEF DirSoFar
  <2> QED BY <2>8, <2>9
<1>3. DirSoFar(data, OutputDirectories!ReadEach(data, start, DirStep))
  BY <1>1, <1>2, OutputDirectories!ReadInduction
<1>4. Messages!visitWireFields(data, start, Messages!OutputDirectoryField)
        = OutputDirectories!ReadEach(data, start, DirStep)
  BY DEF Messages!visitWireFields, Messages!ReadEach, OutputDirectories!ReadEach, DirStep
<1> QED BY <1>3, <1>4

\* parseOutputDirectory accepts the good output directories, and returns what
\* they refer to.
LEMMA ParsedDirectory ==
  ASSUME NEW data \in Seq(Fields)
  PROVE  Messages!parseOutputDirectory(data) =
           IF Messages!GoodOutputDirectory(data) THEN {DirOf(data)} ELSE {}
<1>0. PICK read : read = Messages!visitWireFields(data, [tree |-> {}, root |-> {}],
                                                  Messages!OutputDirectoryField)
  OBVIOUS
<1>1. read = IF DirFields(data) THEN {DirOf(data)} ELSE {} BY <1>0, DirReading DEF DirSoFar
<1>2. Messages!parseOutputDirectory(data) = {dir \in read : dir.tree # {} \/ dir.root # {}}
  BY <1>0 DEF Messages!parseOutputDirectory
<1>3. \A n : Messages!AllDigests(data, n) =>
        (Messages!DigestsAt(data, n) = {} <=> Messages!At(data, n) = {})
  BY DEF Messages!AllDigests, Messages!DigestsAt
<1>4. DirOf(data).tree = Messages!DigestsAt(data, 3) /\ DirOf(data).root = Messages!DigestsAt(data, 5)
  BY DEF DirOf
<1>5. Messages!GoodOutputDirectory(data) <=>
        DirFields(data) /\ (DirOf(data).tree # {} \/ DirOf(data).root # {})
  BY <1>3, <1>4 DEF Messages!GoodOutputDirectory, DirFields
<1> QED BY <1>1, <1>2, <1>5

-----------------------------------------------------------------------------
(* Nodes of directories.                                                    *)

\* What parseNode makes of one field.
NodeStep(acc, field) == IF Messages!Consumed(field) THEN Messages!NodeField(acc, field) ELSE {}

\* An optional reference.
AtMostOne(optional) == \A r, s \in optional : r = s

\* What was read of the fields of a node is the only digest.
NodeSoFar(data, read) ==
  \A acc \in read :
    acc = [digest |-> Messages!DigestsAt(data, 2)] /\ AtMostOne(Messages!DigestsAt(data, 2))

NodeMessages == INSTANCE ReadingProofs WITH Read <- NodeStep, ReadSoFar <- NodeSoFar

\* A node that is accepted refers to what its digest denotes.
LEMMA NodeReading ==
  ASSUME NEW data \in Seq(Fields)
  PROVE  \A ref \in Messages!parseNodeDigest(data) :
           ref \in Messages!Refs /\ Messages!DigestsAt(data, 2) = {ref}
<1> DEFINE start == [digest |-> {}]
<1>1. NodeSoFar(<<>>, {start}) BY NoDigests DEF NodeSoFar, AtMostOne
<1>2. ASSUME NEW read \in Seq(Fields), NEW field \in Fields, NEW before, NodeSoFar(read, before)
      PROVE  NodeSoFar(Append(read, field), UNION {NodeStep(acc, field) : acc \in before})
  <2>1. PICK new : new = Append(read, field) OBVIOUS
  <2>2. DigestsExtend(new, read, field) BY <2>1, DigestsExtended
  <2>3. ASSUME NEW acc \in before, NEW next \in NodeStep(acc, field)
        PROVE  next = [digest |-> Messages!DigestsAt(new, 2)]
               /\ AtMostOne(Messages!DigestsAt(new, 2))
    <3>1. PICK refs : refs = Messages!DigestsAt(read, 2) OBVIOUS
    <3>2. acc = [digest |-> refs] /\ AtMostOne(refs) BY <1>2, <3>1 DEF NodeSoFar
    <3>3. CASE field.number = 2
      <4>1. next \in Messages!TakeDigest(acc, "digest", field) /\ acc["digest"] = {}
        BY <2>3, <3>3 DEF NodeStep, Messages!NodeField, Messages!TakeDigestOnce
      <4>2. next = [acc EXCEPT !["digest"] = Denoted(field.message)] BY <4>1, TakenDigest
      <4>3. next = [digest |-> Denoted(field.message)] BY <3>2, <4>2
      <4>4. refs = {} BY <3>2, <4>1
      <4>5. Messages!DigestsAt(new, 2) = Denoted(field.message)
        BY <2>2, <3>1, <3>3, <4>4 DEF DigestsExtend
      <4>6. field.message \in Seq(Fields) BY FieldsAssumption
      <4>7. AtMostOne(Denoted(field.message)) BY <4>6, ParsedDigest DEF AtMostOne
      <4> QED BY <4>3, <4>5, <4>7
    <3>4. CASE field.number # 2
      <4>1. next = acc BY <2>3, <3>4 DEF NodeStep, Messages!NodeField
      <4>2. Messages!DigestsAt(new, 2) = refs BY <2>2, <3>1, <3>4 DEF DigestsExtend
      <4> QED BY <3>2, <4>1, <4>2
    <3> QED BY <3>3, <3>4
  <2> QED BY <2>1, <2>3 DEF NodeSoFar
<1>3. NodeSoFar(data, NodeMessages!ReadEach(data, start, NodeStep))
  BY <1>1, <1>2, NodeMessages!ReadInduction
<1>4. Messages!visitWireFields(data, start, Messages!NodeField)
        = NodeMessages!ReadEach(data, start, NodeStep)
  BY DEF Messages!visitWireFields, Messages!ReadEach, NodeMessages!ReadEach, NodeStep
<1>5. PICK read : read = Messages!visitWireFields(data, start, Messages!NodeField) OBVIOUS
<1>6. NodeSoFar(data, read) BY <1>3, <1>4, <1>5
<1>7. Messages!parseNodeDigest(data) = UNION {node.digest : node \in read}
  BY <1>5 DEF Messages!parseNodeDigest
<1>8. SUFFICES ASSUME NEW ref \in Messages!parseNodeDigest(data)
               PROVE  ref \in Messages!Refs /\ Messages!DigestsAt(data, 2) = {ref}
  OBVIOUS
<1>9. ref \in Messages!DigestsAt(data, 2) /\ AtMostOne(Messages!DigestsAt(data, 2))
  BY <1>6, <1>7 DEF NodeSoFar
<1> QED BY <1>9 DEF AtMostOne, Messages!DigestsAt

-----------------------------------------------------------------------------
(* Collections of references.                                               *)

\* A collection without a hash that occurs twice.
IsCollection(values) ==
  /\ values \in Seq(Messages!Refs)
  /\ \A i, j \in DOMAIN values : values[i].hash = values[j].hash => i = j

\* A collection is consistent.
LEMMA CollectionIsConsistent ==
  ASSUME NEW values, IsCollection(values)
  PROVE  Messages!Consistent(Messages!ToSet(values)) /\ Messages!ToSet(values) \subseteq Messages!Refs
<1>1. \A i \in DOMAIN values : values[i] \in Messages!Refs
  BY LenProperties, ElementOfSeq DEF IsCollection
<1> QED BY <1>1 DEF IsCollection, Messages!Consistent, Messages!ToSet

\* add refuses a reference that contradicts the collection, and collects others.
LEMMA Added ==
  ASSUME NEW values, IsCollection(values), NEW ref \in Messages!Refs
  PROVE  /\ Messages!add(values, ref) # {} <=>
              Messages!Consistent(Messages!ToSet(values) \cup {ref})
         /\ \A next \in Messages!add(values, ref) :
              IsCollection(next) /\ Messages!ToSet(next) = Messages!ToSet(values) \cup {ref}
<1>0. PICK set : set = Messages!ToSet(values) OBVIOUS
<1>1. values \in Seq(Messages!Refs) /\ set \subseteq Messages!Refs /\ Messages!Consistent(set)
  BY <1>0, CollectionIsConsistent DEF IsCollection
<1>2. \A r, s \in Messages!Refs : r.hash = s.hash /\ r.size = s.size => r = s BY DEF Messages!Refs
<1>3. (\E r \in set : r.hash = ref.hash /\ r.size # ref.size) <=>
        ~Messages!Consistent(set \cup {ref})
  BY <1>1, <1>2 DEF Messages!Consistent
<1>4. Messages!add(values, ref) =
        IF Messages!Consistent(set \cup {ref})
          THEN {IF ref \in set THEN values ELSE Append(values, ref)} ELSE {}
  BY <1>0, <1>3 DEF Messages!add
<1>5. CASE ~Messages!Consistent(set \cup {ref}) BY <1>0, <1>4, <1>5
<1>6. CASE Messages!Consistent(set \cup {ref}) /\ ref \in set
  <2>1. Messages!add(values, ref) = {values} BY <1>4, <1>6
  <2>2. set \cup {ref} = set BY <1>6
  <2> QED BY <1>0, <1>6, <2>1, <2>2
<1>7. CASE Messages!Consistent(set \cup {ref}) /\ ref \notin set
  <2>1. PICK next : next = Append(values, ref) OBVIOUS
  <2>2. Messages!add(values, ref) = {next} BY <1>4, <1>7, <2>1
  <2>3. Len(values) \in Nat /\ DOMAIN values = 1..Len(values) BY <1>1, LenProperties
  <2>4. PICK last : last = Len(values) + 1 OBVIOUS
  <2>5. /\ next \in Seq(Messages!Refs) /\ Len(next) = last /\ next[last] = ref
        /\ \A i \in 1..Len(values) : next[i] = values[i]
    BY <1>1, <2>1, <2>4, AppendProperties
  <2>6. DOMAIN next = 1..last BY <2>5, LenProperties
  <2>7. last \notin 1..Len(values) /\ 1..last = (1..Len(values)) \cup {last} BY <2>3, <2>4
  <2>8. DOMAIN next = DOMAIN values \cup {last} /\ \A i \in DOMAIN values : next[i] = values[i]
    BY <2>3, <2>5, <2>6, <2>7
  <2>9. Messages!ToSet(next) = set \cup {ref} BY <1>0, <2>5, <2>8 DEF Messages!ToSet
  <2>10. \A i \in DOMAIN values : values[i].hash # ref.hash
    <3>1. \A i \in DOMAIN values : values[i] \in set BY <1>0 DEF Messages!ToSet
    <3> QED BY <1>7, <3>1 DEF Messages!Consistent
  <2>11. IsCollection(next) BY <2>5, <2>8, <2>10 DEF IsCollection
  <2> QED BY <1>0, <1>7, <2>2, <2>9, <2>11
<1> QED BY <1>5, <1>6, <1>7

\* The collection in slot has got the reference, if there is one and it does not
\* contradict the others.
AddsTo(acc, slot, optional) ==
  /\ Messages!AddTo(acc, slot, optional) # {} <=>
       Messages!Consistent(Messages!ToSet(acc[slot]) \cup optional)
  /\ \A next \in Messages!AddTo(acc, slot, optional) :
       \E values : /\ next = [acc EXCEPT ![slot] = values] /\ IsCollection(values)
                   /\ Messages!ToSet(values) = Messages!ToSet(acc[slot]) \cup optional

\* Adding at most one reference to a collection of the accumulator.
LEMMA AddedTo ==
  ASSUME NEW acc, NEW slot, IsCollection(acc[slot]), NEW optional,
         optional \subseteq Messages!Refs, AtMostOne(optional), [acc EXCEPT ![slot] = acc[slot]] = acc
  PROVE  AddsTo(acc, slot, optional)
<1> USE DEF AddsTo
<1>0. PICK old : old = acc[slot] OBVIOUS
<1>1. CASE optional = {}
  <2>1. Messages!AddTo(acc, slot, optional) = {acc} BY <1>1 DEF Messages!AddTo
  <2>2. Messages!ToSet(acc[slot]) \cup optional = Messages!ToSet(acc[slot]) BY <1>1
  <2>3. Messages!Consistent(Messages!ToSet(acc[slot])) BY CollectionIsConsistent
  <2> QED BY <2>1, <2>2, <2>3
<1>2. CASE optional # {}
  <2>1. PICK ref : ref \in optional BY <1>2
  <2>2. optional = {ref} BY <2>1 DEF AtMostOne
  <2>3. Messages!The({ref}) = ref BY DEF Messages!The
  <2>4. Messages!AddTo(acc, slot, optional) =
          {[acc EXCEPT ![slot] = values] : values \in Messages!add(old, ref)}
    BY <1>0, <1>2, <2>2, <2>3 DEF Messages!AddTo
  <2>5. ref \in Messages!Refs /\ IsCollection(old) BY <1>0, <2>1
  <2>6. /\ Messages!add(old, ref) # {} <=> Messages!Consistent(Messages!ToSet(old) \cup {ref})
        /\ \A next \in Messages!add(old, ref) :
             IsCollection(next) /\ Messages!ToSet(next) = Messages!ToSet(old) \cup {ref}
    BY <2>5, Added
  <2>7. PICK added : added = Messages!add(old, ref) OBVIOUS
  <2>8. Messages!AddTo(acc, slot, optional) = {[acc EXCEPT ![slot] = values] : values \in added}
    BY <2>4, <2>7
  <2>9. Messages!AddTo(acc, slot, optional) # {} <=> added # {} BY <2>8
  <2>10. \A next \in Messages!AddTo(acc, slot, optional) :
           \E values \in added : next = [acc EXCEPT ![slot] = values]
    BY <2>8
  <2>11. \A values \in added :
           IsCollection(values) /\ Messages!ToSet(values) = Messages!ToSet(acc[slot]) \cup optional
    BY <1>0, <2>2, <2>6, <2>7
  <2>12. added # {} <=> Messages!Consistent(Messages!ToSet(acc[slot]) \cup optional)
    BY <1>0, <2>2, <2>6, <2>7
  <2> QED BY <2>9, <2>10, <2>11, <2>12
<1> QED BY <1>1, <1>2

\* Less of what is consistent is consistent.
LEMMA SubsetIsConsistent ==
  ASSUME NEW A, NEW B, A \subseteq B, Messages!Consistent(B)
  PROVE  Messages!Consistent(A)
BY DEF Messages!Consistent

\* The only field of a number has at most one digest.
LEMMA OnceMeansOne ==
  ASSUME NEW data \in Seq(Fields), NEW n, Messages!Once(data, n)
  PROVE  AtMostOne(Messages!DigestsAt(data, n)) /\ Messages!DigestsAt(data, n) \subseteq Messages!Refs
<1> SUFFICES ASSUME NEW r \in Messages!DigestsAt(data, n), NEW s \in Messages!DigestsAt(data, n)
             PROVE  r = s
  BY DEF AtMostOne, Messages!DigestsAt
<1>1. PICK i \in Messages!At(data, n) : r \in Denoted(data[i].message)
  BY DEF Messages!DigestsAt, Denoted
<1>2. PICK j \in Messages!At(data, n) : s \in Denoted(data[j].message)
  BY DEF Messages!DigestsAt, Denoted
<1>3. i = j BY DEF Messages!Once
<1>4. data[i] \in Fields BY LenProperties, ElementOfSeq DEF Messages!At
<1>5. data[i].message \in Seq(Fields) BY <1>4, FieldsAssumption
<1> QED BY <1>1, <1>2, <1>3, <1>5, ParsedDigest

-----------------------------------------------------------------------------
(* Action results.                                                          *)

\* What parseActionResult makes of one field.
ResultStep(acc, field) ==
  IF Messages!Consumed(field) THEN Messages!ActionResultField(acc, field) ELSE {}

\* The blob of an output file, unless the file is in the message.
FileBlob(data) == IF Messages!At(data, 5) = {} THEN Messages!DigestsAt(data, 2) ELSE {}
FileBlobs(data) == UNION {FileBlob(data[i].message) : i \in Messages!At(data, 2)}

\* What the last field of number n denotes.
LastDigest(data, n) ==
  IF Messages!At(data, n) = {} THEN {}
  ELSE LET last == CHOOSE i \in Messages!At(data, n) : \A j \in Messages!At(data, n) : j <= i
       IN  Denoted(data[last].message)

\* The fields that an action result may have.
WellShaped(data) ==
  /\ Messages!Wellformed(data) /\ \A n \in {2, 3, 5, 7} : Messages!BytesAt(data, n)
  /\ Messages!AllDigests(data, 6) /\ Messages!AllDigests(data, 8)
  /\ \A i \in Messages!At(data, 2) : Messages!GoodFile(data[i].message)
  /\ \A i \in Messages!At(data, 3) : Messages!GoodOutputDirectory(data[i].message)

\* What the visitor of action results requires of the fields.
ResultFields(data) ==
  /\ WellShaped(data) /\ Messages!Consistent(FileBlobs(data))
  /\ \A n \in {3, 5} : Messages!Consistent(Messages!OutputsOf(data, n))

\* What was read of an action result, as a record.
ResultOf(b, t, d, out, outInline, err, errInline) ==
  [blobs |-> b, trees |-> t, directories |-> d,
   stdout |-> out, stdoutInline |-> outInline, stderr |-> err, stderrInline |-> errInline]

\* Collections with the references of the output files and directories.
Gather(b, t, d, data) ==
  /\ IsCollection(b) /\ Messages!ToSet(b) = FileBlobs(data)
  /\ IsCollection(t) /\ Messages!ToSet(t) = Messages!OutputsOf(data, 3)
  /\ IsCollection(d) /\ Messages!ToSet(d) = Messages!OutputsOf(data, 5)

\* The record holds what the fields refer to.
Gathered(acc, data) ==
  \E b, t, d :
    /\ Gather(b, t, d, data)
    /\ acc = ResultOf(b, t, d, LastDigest(data, 6), Inline(data, 5), LastDigest(data, 8), Inline(data, 7))

\* What was made of the fields that were read.
ResultSoFar(data, read) ==
  /\ read # {} <=> ResultFields(data)
  /\ \A acc \in read : Gathered(acc, data)

Results == INSTANCE ReadingProofs WITH Read <- ResultStep, ReadSoFar <- ResultSoFar

\* The record of what was read.
LEMMA ResultRecord ==
  ASSUME NEW b, NEW t, NEW d, NEW out, NEW outInline, NEW err, NEW errInline, NEW v,
         NEW acc, acc = ResultOf(b, t, d, out, outInline, err, errInline)
  PROVE  /\ acc["blobs"] = b /\ acc["trees"] = t /\ acc["directories"] = d
         /\ acc["stdout"] = out /\ acc["stderr"] = err
         /\ acc["stdoutInline"] = outInline /\ acc["stderrInline"] = errInline
         /\ [acc EXCEPT !["blobs"] = v] = ResultOf(v, t, d, out, outInline, err, errInline)
         /\ [acc EXCEPT !["trees"] = v] = ResultOf(b, v, d, out, outInline, err, errInline)
         /\ [acc EXCEPT !["directories"] = v] = ResultOf(b, t, v, out, outInline, err, errInline)
         /\ [acc EXCEPT !["stdout"] = v] = ResultOf(b, t, d, v, outInline, err, errInline)
         /\ [acc EXCEPT !["stdoutInline"] = v] = ResultOf(b, t, d, out, v, err, errInline)
         /\ [acc EXCEPT !["stderr"] = v] = ResultOf(b, t, d, out, outInline, v, errInline)
         /\ [acc EXCEPT !["stderrInline"] = v] = ResultOf(b, t, d, out, outInline, err, v)
<1>1. /\ acc["blobs"] = b /\ acc["trees"] = t /\ acc["directories"] = d
      /\ acc["stdout"] = out /\ acc["stderr"] = err
      /\ acc["stdoutInline"] = outInline /\ acc["stderrInline"] = errInline
  BY DEF ResultOf
<1>2. [acc EXCEPT !["blobs"] = v] = ResultOf(v, t, d, out, outInline, err, errInline) BY DEF ResultOf
<1>3. [acc EXCEPT !["trees"] = v] = ResultOf(b, v, d, out, outInline, err, errInline) BY DEF ResultOf
<1>4. [acc EXCEPT !["directories"] = v] = ResultOf(b, t, v, out, outInline, err, errInline)
  BY DEF ResultOf
<1>5. [acc EXCEPT !["stdout"] = v] = ResultOf(b, t, d, v, outInline, err, errInline) BY DEF ResultOf
<1>6. [acc EXCEPT !["stdoutInline"] = v] = ResultOf(b, t, d, out, v, err, errInline) BY DEF ResultOf
<1>7. [acc EXCEPT !["stderr"] = v] = ResultOf(b, t, d, out, outInline, v, errInline) BY DEF ResultOf
<1>8. [acc EXCEPT !["stderrInline"] = v] = ResultOf(b, t, d, out, outInline, err, v) BY DEF ResultOf
<1> QED BY <1>1, <1>2, <1>3, <1>4, <1>5, <1>6, <1>7, <1>8

\* A set of positions that is not empty has a greatest.
LEMMA HasGreatest ==
  ASSUME NEW n \in Nat, NEW T, T \subseteq 1..n, T # {}
  PROVE  \E i \in T : \A j \in T : j <= i
<1> DEFINE S == {k \in 0..n : \A P \in SUBSET (1..k) : P # {} => \E i \in P : \A j \in P : j <= i}
<1>1. 0 \in S
  <2>1. 0 \in 0..n /\ 1..0 = {} OBVIOUS
  <2> QED BY <2>1
<1>2. ASSUME NEW k \in 0..n, k < n, k \in S PROVE k + 1 \in S
  <2>1. k \in Nat /\ k + 1 \in 0..n BY <1>2
  <2>2. ASSUME NEW P \in SUBSET (1..(k + 1)), P # {} PROVE \E i \in P : \A j \in P : j <= i
    <3>1. CASE k + 1 \in P
      <4>1. \A j \in P : j <= k + 1 BY <2>1
      <4> QED BY <3>1, <4>1
    <3>2. CASE k + 1 \notin P
      <4>1. P \in SUBSET (1..k) BY <2>1, <3>2
      <4> QED BY <1>2, <2>2, <4>1
    <3> QED BY <3>1, <3>2
  <2> QED BY <2>1, <2>2
<1>3. n \in S
  <2> HIDE DEF S
  <2>1. \A k \in 0..n : k \in S BY <1>1, <1>2, Results!Induction
  <2> QED BY <2>1
<1> QED BY <1>3

\* An action result with one more field.
ResultExtends(new, data, field) ==
  /\ WellShaped(new) <=>
       /\ WellShaped(data) /\ Messages!Consumed(field)
       /\ field.number \in {2, 3, 5, 7} => field.type = "bytes"
       /\ field.number \in {6, 8} => IsDigest(field)
       /\ field.number = 2 => Messages!GoodFile(field.message)
       /\ field.number = 3 => Messages!GoodOutputDirectory(field.message)
  /\ FileBlobs(new) =
       IF field.number = 2 THEN FileBlobs(data) \cup FileBlob(field.message) ELSE FileBlobs(data)
  /\ \A n : Messages!OutputsOf(new, n) =
       IF field.number = 3 THEN Messages!OutputsOf(data, n) \cup Messages!DigestsAt(field.message, n)
                           ELSE Messages!OutputsOf(data, n)
  /\ \A n : LastDigest(new, n) = IF field.number = n THEN Denoted(field.message) ELSE LastDigest(data, n)
  /\ \A n : field.number = n => Inline(new, n) = TRUE
  /\ \A n : field.number # n => Inline(new, n) = Inline(data, n)

\* What a field more changes in an action result.
LEMMA ResultExtended ==
  ASSUME NEW data \in Seq(Fields), NEW field \in Fields
  PROVE  ResultExtends(Append(data, field), data, field)
<1>0. PICK new : new = Append(data, field) OBVIOUS
<1>1. PICK last : AddedAt(new, data, field, last) BY <1>0, OneMoreField
<1>2. Extends(new, data, field) BY <1>0, FieldsOfNumber
<1>3. DigestsExtend(new, data, field) BY <1>0, DigestsExtended
<1>4. WellShaped(new) <=>
       /\ WellShaped(data) /\ Messages!Consumed(field)
       /\ field.number \in {2, 3, 5, 7} => field.type = "bytes"
       /\ field.number \in {6, 8} => IsDigest(field)
       /\ field.number = 2 => Messages!GoodFile(field.message)
       /\ field.number = 3 => Messages!GoodOutputDirectory(field.message)
  <2>1. (\A i \in Messages!At(new, 2) : Messages!GoodFile(new[i].message)) <=>
          (\A i \in Messages!At(data, 2) : Messages!GoodFile(data[i].message))
          /\ (field.number = 2 => Messages!GoodFile(field.message))
    BY <1>1 DEF AddedAt
  <2>2. (\A i \in Messages!At(new, 3) : Messages!GoodOutputDirectory(new[i].message)) <=>
          (\A i \in Messages!At(data, 3) : Messages!GoodOutputDirectory(data[i].message))
          /\ (field.number = 3 => Messages!GoodOutputDirectory(field.message))
    BY <1>1 DEF AddedAt
  <2>3. Messages!AllDigests(new, 6) /\ Messages!AllDigests(new, 8) <=>
          Messages!AllDigests(data, 6) /\ Messages!AllDigests(data, 8)
          /\ (field.number \in {6, 8} => IsDigest(field))
    BY <1>3 DEF DigestsExtend
  <2>4. (\A n \in {2, 3, 5, 7} : Messages!BytesAt(new, n)) <=>
          (\A n \in {2, 3, 5, 7} : Messages!BytesAt(data, n))
          /\ (field.number \in {2, 3, 5, 7} => field.type = "bytes")
    BY <1>2 DEF Extends
  <2>5. Messages!Wellformed(new) <=> Messages!Wellformed(data) /\ Messages!Consumed(field)
    BY <1>2 DEF Extends
  <2> QED BY <2>1, <2>2, <2>3, <2>4, <2>5 DEF WellShaped
<1>5. FileBlobs(new) =
       IF field.number = 2 THEN FileBlobs(data) \cup FileBlob(field.message) ELSE FileBlobs(data)
  <2>1. PICK old, at : old = Messages!At(data, 2) /\ at = Messages!At(new, 2) OBVIOUS
  <2>2. at = IF field.number = 2 THEN old \cup {last} ELSE old BY <1>1, <2>1 DEF AddedAt
  <2>3. new[last] = field /\ \A i \in old : new[i] = data[i] BY <1>1, <2>1 DEF AddedAt
  <2>4. \A r : r \in FileBlobs(new) <=> \E i \in at : r \in FileBlob(new[i].message)
    BY <2>1 DEF FileBlobs
  <2>5. \A r : r \in FileBlobs(data) <=> \E i \in old : r \in FileBlob(data[i].message)
    BY <2>1 DEF FileBlobs
  <2>6. CASE field.number = 2
    <3>1. \A r : r \in FileBlobs(new) <=> r \in FileBlobs(data) \cup FileBlob(field.message)
      BY <2>2, <2>3, <2>4, <2>5, <2>6
    <3>2. FileBlobs(new) = FileBlobs(data) \cup FileBlob(field.message) BY <3>1
    <3> QED BY <2>6, <3>2
  <2>7. CASE field.number # 2
    <3>1. \A r : r \in FileBlobs(new) <=> r \in FileBlobs(data) BY <2>2, <2>3, <2>4, <2>5, <2>7
    <3>2. FileBlobs(new) = FileBlobs(data) BY <3>1
    <3> QED BY <2>7, <3>2
  <2> QED BY <2>6, <2>7
<1>6. ASSUME NEW n
      PROVE  Messages!OutputsOf(new, n) =
               IF field.number = 3
                 THEN Messages!OutputsOf(data, n) \cup Messages!DigestsAt(field.message, n)
                 ELSE Messages!OutputsOf(data, n)
  <2>1. PICK old, at : old = Messages!At(data, 3) /\ at = Messages!At(new, 3) OBVIOUS
  <2>2. at = IF field.number = 3 THEN old \cup {last} ELSE old BY <1>1, <2>1 DEF AddedAt
  <2>3. new[last] = field /\ \A i \in old : new[i] = data[i] BY <1>1, <2>1 DEF AddedAt
  <2>4. \A r : r \in Messages!OutputsOf(new, n) <=>
                 \E i \in at : r \in Messages!DigestsAt(new[i].message, n)
    BY <2>1 DEF Messages!OutputsOf
  <2>5. \A r : r \in Messages!OutputsOf(data, n) <=>
                 \E i \in old : r \in Messages!DigestsAt(data[i].message, n)
    BY <2>1 DEF Messages!OutputsOf
  <2>6. CASE field.number = 3
    <3>1. \A r : r \in Messages!OutputsOf(new, n) <=>
                   r \in Messages!OutputsOf(data, n) \cup Messages!DigestsAt(field.message, n)
      BY <2>2, <2>3, <2>4, <2>5, <2>6
    <3>2. Messages!OutputsOf(new, n) =
            Messages!OutputsOf(data, n) \cup Messages!DigestsAt(field.message, n)
      BY <3>1
    <3> QED BY <2>6, <3>2
  <2>7. CASE field.number # 3
    <3>1. \A r : r \in Messages!OutputsOf(new, n) <=> r \in Messages!OutputsOf(data, n)
      BY <2>2, <2>3, <2>4, <2>5, <2>7
    <3>2. Messages!OutputsOf(new, n) = Messages!OutputsOf(data, n) BY <3>1
    <3> QED BY <2>7, <3>2
  <2> QED BY <2>6, <2>7
<1>7. ASSUME NEW n
      PROVE  LastDigest(new, n) =
               IF field.number = n THEN Denoted(field.message) ELSE LastDigest(data, n)
  <2>1. PICK old, at : old = Messages!At(data, n) /\ at = Messages!At(new, n) OBVIOUS
  <2>2. at = IF field.number = n THEN old \cup {last} ELSE old BY <1>1, <2>1 DEF AddedAt
  <2>3. new[last] = field /\ last \in Nat
        /\ \A i \in old : i \in Nat /\ i < last /\ new[i] = data[i]
    BY <1>1, <2>1 DEF AddedAt
  <2>4. CASE field.number = n
    <3>1. at = old \cup {last} BY <2>2, <2>4
    <3>2. \A i \in at : (\A j \in at : j <= i) <=> i = last BY <2>3, <3>1
    <3>3. (CHOOSE i \in at : \A j \in at : j <= i) = last BY <3>1, <3>2
    <3>4. LastDigest(new, n) = Denoted(new[last].message) BY <2>1, <3>1, <3>3 DEF LastDigest
    <3> QED BY <2>3, <2>4, <3>4
  <2>5. CASE field.number # n
    <3>1. at = old BY <2>2, <2>5
    <3>2. CASE old = {} BY <2>1, <2>5, <3>1, <3>2 DEF LastDigest
    <3>3. CASE old # {}
      <4>1. PICK max : max = CHOOSE i \in old : \A j \in old : j <= i OBVIOUS
      <4>2. max \in old
        <5>1. \E i \in old : \A j \in old : j <= i
          <6>1. Len(data) \in Nat /\ old \subseteq 1..Len(data)
            BY <2>1, LenProperties DEF Messages!At
          <6> QED BY <3>3, <6>1, HasGreatest
        <5> QED BY <4>1, <5>1
      <4>3. LastDigest(new, n) = Denoted(new[max].message) BY <2>1, <3>1, <3>3, <4>1 DEF LastDigest
      <4>4. LastDigest(data, n) = Denoted(data[max].message) BY <2>1, <3>3, <4>1 DEF LastDigest
      <4> QED BY <2>3, <2>5, <4>2, <4>3, <4>4
    <3> QED BY <3>2, <3>3
  <2> QED BY <2>4, <2>5
<1>8. ASSUME NEW n
      PROVE  /\ field.number = n => Inline(new, n) = TRUE
             /\ field.number # n => Inline(new, n) = Inline(data, n)
  BY <1>2 DEF Extends, Inline
<1>9. ResultExtends(new, data, field) BY <1>4, <1>5, <1>6, <1>7, <1>8 DEF ResultExtends
<1> QED BY <1>0, <1>9

\* The visitor of action results reads a field as it should.
ReadsField(acc, new, field) ==
  /\ ResultStep(acc, field) # {} <=> ResultFields(new)
  /\ \A next \in ResultStep(acc, field) : Gathered(next, new)

\* A field that is not an output file or directory.
LEMMA StreamIsRead ==
  ASSUME NEW data \in Seq(Fields), NEW field \in Fields, NEW new, ResultExtends(new, data, field),
         ResultFields(data), NEW acc, Gathered(acc, data), field.number # 2, field.number # 3
  PROVE  ReadsField(acc, new, field)
<1>1. PICK b, t, d :
        /\ Gather(b, t, d, data)
        /\ acc = ResultOf(b, t, d, LastDigest(data, 6), Inline(data, 5),
                          LastDigest(data, 8), Inline(data, 7))
  BY DEF Gathered
<1>2. PICK out, outInline, err, errInline :
        /\ out = LastDigest(data, 6) /\ outInline = Inline(data, 5)
        /\ err = LastDigest(data, 8) /\ errInline = Inline(data, 7)
  OBVIOUS
<1>3. acc = ResultOf(b, t, d, out, outInline, err, errInline) BY <1>1, <1>2
<1>4. /\ FileBlobs(new) = FileBlobs(data)
      /\ \A n : Messages!OutputsOf(new, n) = Messages!OutputsOf(data, n)
  BY DEF ResultExtends
<1>5. Gather(b, t, d, new) BY <1>1, <1>4 DEF Gather
<1>6. ResultFields(new) <=>
        /\ Messages!Consumed(field)
        /\ field.number \in {5, 7} => field.type = "bytes"
        /\ field.number \in {6, 8} => IsDigest(field)
  BY <1>4 DEF ResultFields, ResultExtends
<1>7. CASE ~Messages!Consumed(field) BY <1>6, <1>7 DEF ReadsField, ResultStep
<1>8. CASE Messages!Consumed(field) /\ field.number = 5
  <2>0. PICK yes : yes = TRUE OBVIOUS
  <2>1. ResultStep(acc, field) =
          IF field.type = "bytes" THEN {[acc EXCEPT !["stdoutInline"] = yes]} ELSE {}
    BY <1>8, <2>0 DEF ResultStep, Messages!ActionResultField, Messages!TakeInline
  <2>2. [acc EXCEPT !["stdoutInline"] = yes] = ResultOf(b, t, d, out, yes, err, errInline)
    BY <1>3, ResultRecord
  <2>3. /\ LastDigest(new, 6) = out /\ Inline(new, 5) = yes
        /\ LastDigest(new, 8) = err /\ Inline(new, 7) = errInline
    <3>1. field.number = 5 /\ 5 # 6 /\ 5 # 7 /\ 5 # 8 BY <1>8
    <3>2. LastDigest(new, 6) = out /\ LastDigest(new, 8) = err BY <1>2, <3>1 DEF ResultExtends
    <3>3. Inline(new, 7) = errInline BY <1>2, <3>1 DEF ResultExtends
    <3>4. Inline(new, 5) = yes BY <2>0, <3>1, Zenon DEF ResultExtends
    <3> QED BY <3>2, <3>3, <3>4
  <2>4. Gathered([acc EXCEPT !["stdoutInline"] = yes], new) BY <1>5, <2>2, <2>3 DEF Gathered
  <2> QED BY <1>6, <1>8, <2>1, <2>4 DEF ReadsField
<1>9. CASE Messages!Consumed(field) /\ field.number = 7
  <2>0. PICK yes : yes = TRUE OBVIOUS
  <2>1. ResultStep(acc, field) =
          IF field.type = "bytes" THEN {[acc EXCEPT !["stderrInline"] = yes]} ELSE {}
    BY <1>9, <2>0 DEF ResultStep, Messages!ActionResultField, Messages!TakeInline
  <2>2. [acc EXCEPT !["stderrInline"] = yes] = ResultOf(b, t, d, out, outInline, err, yes)
    BY <1>3, ResultRecord
  <2>3. /\ LastDigest(new, 6) = out /\ Inline(new, 5) = outInline
        /\ LastDigest(new, 8) = err /\ Inline(new, 7) = yes
    <3>1. field.number = 7 /\ 7 # 5 /\ 7 # 6 /\ 7 # 8 BY <1>9
    <3>2. LastDigest(new, 6) = out /\ LastDigest(new, 8) = err BY <1>2, <3>1 DEF ResultExtends
    <3>3. Inline(new, 5) = outInline BY <1>2, <3>1 DEF ResultExtends
    <3>4. Inline(new, 7) = yes BY <2>0, <3>1, Zenon DEF ResultExtends
    <3> QED BY <3>2, <3>3, <3>4
  <2>4. Gathered([acc EXCEPT !["stderrInline"] = yes], new) BY <1>5, <2>2, <2>3 DEF Gathered
  <2> QED BY <1>6, <1>9, <2>1, <2>4 DEF ReadsField
<1>10. CASE Messages!Consumed(field) /\ field.number = 6
  <2>1. ResultStep(acc, field) = Messages!TakeDigest(acc, "stdout", field)
    BY <1>10 DEF ResultStep, Messages!ActionResultField, Messages!StreamDigest
  <2>1a. PICK last : last = Denoted(field.message) OBVIOUS
  <2>2. ResultStep(acc, field) =
          IF IsDigest(field) THEN {[acc EXCEPT !["stdout"] = last]} ELSE {}
    BY <2>1, <2>1a, TakenDigest
  <2>3. [acc EXCEPT !["stdout"] = last] =
          ResultOf(b, t, d, last, outInline, err, errInline)
    BY <1>3, ResultRecord
  <2>4. /\ LastDigest(new, 6) = last /\ Inline(new, 5) = outInline
        /\ LastDigest(new, 8) = err /\ Inline(new, 7) = errInline
    <3>1. field.number = 6 /\ 6 # 5 /\ 6 # 7 /\ 6 # 8 BY <1>10
    <3>2. LastDigest(new, 6) = Denoted(field.message) /\ LastDigest(new, 8) = err
      BY <1>2, <3>1 DEF ResultExtends
    <3>3. Inline(new, 5) = outInline /\ Inline(new, 7) = errInline
      BY <1>2, <3>1 DEF ResultExtends
    <3> QED BY <2>1a, <3>2, <3>3
  <2>5. Gathered([acc EXCEPT !["stdout"] = last], new)
    BY <1>5, <2>3, <2>4 DEF Gathered
  <2> QED BY <1>6, <1>10, <2>2, <2>5 DEF ReadsField
<1>11. CASE Messages!Consumed(field) /\ field.number = 8
  <2>1. ResultStep(acc, field) = Messages!TakeDigest(acc, "stderr", field)
    BY <1>11 DEF ResultStep, Messages!ActionResultField, Messages!StreamDigest
  <2>1a. PICK last : last = Denoted(field.message) OBVIOUS
  <2>2. ResultStep(acc, field) =
          IF IsDigest(field) THEN {[acc EXCEPT !["stderr"] = last]} ELSE {}
    BY <2>1, <2>1a, TakenDigest
  <2>3. [acc EXCEPT !["stderr"] = last] =
          ResultOf(b, t, d, out, outInline, last, errInline)
    BY <1>3, ResultRecord
  <2>4. /\ LastDigest(new, 6) = out /\ Inline(new, 5) = outInline
        /\ LastDigest(new, 8) = last /\ Inline(new, 7) = errInline
    <3>1. field.number = 8 /\ 8 # 5 /\ 8 # 7 /\ 8 # 6 BY <1>11
    <3>2. LastDigest(new, 8) = Denoted(field.message) /\ LastDigest(new, 6) = out
      BY <1>2, <3>1 DEF ResultExtends
    <3>3. Inline(new, 5) = outInline /\ Inline(new, 7) = errInline
      BY <1>2, <3>1 DEF ResultExtends
    <3> QED BY <2>1a, <3>2, <3>3
  <2>5. Gathered([acc EXCEPT !["stderr"] = last], new)
    BY <1>5, <2>3, <2>4 DEF Gathered
  <2> QED BY <1>6, <1>11, <2>2, <2>5 DEF ReadsField
<1>12. CASE Messages!Consumed(field) /\ field.number \notin {5, 6, 7, 8}
  <2>1. ResultStep(acc, field) = {acc} BY <1>12 DEF ResultStep, Messages!ActionResultField
  <2>2. /\ LastDigest(new, 6) = out /\ Inline(new, 5) = outInline
        /\ LastDigest(new, 8) = err /\ Inline(new, 7) = errInline
    BY <1>2, <1>12 DEF ResultExtends
  <2>3. Gathered(acc, new) BY <1>3, <1>5, <2>2 DEF Gathered
  <2> QED BY <1>6, <1>12, <2>1, <2>3 DEF ReadsField
<1> QED BY <1>7, <1>8, <1>9, <1>10, <1>11, <1>12

\* An output file.
LEMMA FileIsRead ==
  ASSUME NEW data \in Seq(Fields), NEW field \in Fields, NEW new, ResultExtends(new, data, field),
         ResultFields(data), NEW acc, Gathered(acc, data), field.number = 2
  PROVE  ReadsField(acc, new, field)
<1>1. PICK b, t, d :
        /\ Gather(b, t, d, data)
        /\ acc = ResultOf(b, t, d, LastDigest(data, 6), Inline(data, 5),
                          LastDigest(data, 8), Inline(data, 7))
  BY DEF Gathered
<1>2. PICK out, outInline, err, errInline :
        /\ out = LastDigest(data, 6) /\ outInline = Inline(data, 5)
        /\ err = LastDigest(data, 8) /\ errInline = Inline(data, 7)
  OBVIOUS
<1>3. acc = ResultOf(b, t, d, out, outInline, err, errInline) BY <1>1, <1>2
<1>4. PICK m : m = field.message OBVIOUS
<1>5. m \in Seq(Fields) BY <1>4, FieldsAssumption
<1>6. /\ FileBlobs(new) = FileBlobs(data) \cup FileBlob(m)
      /\ \A n : Messages!OutputsOf(new, n) = Messages!OutputsOf(data, n)
  BY <1>4 DEF ResultExtends
<1>7. /\ LastDigest(new, 6) = out /\ LastDigest(new, 8) = err
      /\ Inline(new, 5) = outInline /\ Inline(new, 7) = errInline
  <2>1. field.number # 5 /\ field.number # 6 /\ field.number # 7 /\ field.number # 8 OBVIOUS
  <2>2. LastDigest(new, 6) = out /\ LastDigest(new, 8) = err BY <1>2, <2>1 DEF ResultExtends
  <2>3. Inline(new, 5) = outInline /\ Inline(new, 7) = errInline BY <1>2, <2>1 DEF ResultExtends
  <2> QED BY <2>2, <2>3
<1>8. ResultFields(new) <=>
        /\ Messages!Consumed(field) /\ field.type = "bytes" /\ Messages!GoodFile(m)
        /\ Messages!Consistent(FileBlobs(new))
  BY <1>4, <1>6 DEF ResultFields, ResultExtends
<1>9. CASE ~Messages!Consumed(field) BY <1>8, <1>9 DEF ReadsField, ResultStep
<1>10. CASE Messages!Consumed(field) /\ ~(field.type = "bytes" /\ Messages!GoodFile(m))
  <2>1. ResultStep(acc, field) =
          UNION {Messages!AddFile(acc, file) :
                   file \in UNION {Messages!parseOutputFile(x) : x \in Messages!messageOf(field)}}
    BY <1>10 DEF ResultStep, Messages!ActionResultField
  <2>2. \A x \in Messages!messageOf(field) : Messages!parseOutputFile(x) = {}
    BY <1>4, <1>5, <1>10, ParsedFile DEF Messages!messageOf
  <2>3. ResultStep(acc, field) = {} BY <2>1, <2>2
  <2> QED BY <1>8, <1>10, <2>3 DEF ReadsField
<1>11. CASE Messages!Consumed(field) /\ field.type = "bytes" /\ Messages!GoodFile(m)
  <2>1. ResultStep(acc, field) =
          UNION {Messages!AddFile(acc, file) :
                   file \in UNION {Messages!parseOutputFile(x) : x \in Messages!messageOf(field)}}
    BY <1>11 DEF ResultStep, Messages!ActionResultField
  <2>2. Messages!messageOf(field) = {m} BY <1>4, <1>11 DEF Messages!messageOf
  <2>3. Messages!parseOutputFile(m) = {FileOf(m)} BY <1>5, <1>11, ParsedFile
  <2>4. ResultStep(acc, field) = Messages!AddFile(acc, FileOf(m)) BY <2>1, <2>2, <2>3
  <2>5. CASE Messages!At(m, 5) # {}
    <3>1. FileOf(m).inline
      <4>1. Inline(m, 5) = TRUE BY <2>5, Zenon DEF Inline
      <4>2. FileOf(m).inline = Inline(m, 5) BY DEF FileOf
      <4> QED BY <4>1, <4>2
    <3>2. ResultStep(acc, field) = {acc} BY <2>4, <3>1 DEF Messages!AddFile
    <3>3. FileBlob(m) = {} BY <2>5 DEF FileBlob
    <3>4. FileBlobs(new) = FileBlobs(data) BY <1>6, <3>3
    <3>5. Gather(b, t, d, new) BY <1>1, <1>6, <3>4 DEF Gather
    <3>6. Gathered(acc, new) BY <1>3, <1>7, <3>5 DEF Gathered
    <3>7. ResultFields(new) BY <1>8, <1>11, <3>4 DEF ResultFields
    <3> QED BY <3>2, <3>6, <3>7 DEF ReadsField
  <2>6. CASE Messages!At(m, 5) = {}
    <3>1. ~FileOf(m).inline
      <4>1. Inline(m, 5) = FALSE BY <2>6, Zenon DEF Inline
      <4>2. FileOf(m).inline = Inline(m, 5) BY DEF FileOf
      <4> QED BY <4>1, <4>2
    <3>2. PICK refs : refs = Messages!DigestsAt(m, 2) OBVIOUS
    <3>3. FileOf(m).digest = refs BY <3>2 DEF FileOf
    <3>4. ResultStep(acc, field) = Messages!AddTo(acc, "blobs", refs)
      BY <2>4, <3>1, <3>3 DEF Messages!AddFile
    <3>5. AtMostOne(refs) /\ refs \subseteq Messages!Refs
      BY <1>5, <1>11, <3>2, OnceMeansOne DEF Messages!GoodFile
    <3>6. FileBlob(m) = refs BY <2>6, <3>2 DEF FileBlob
    <3>7. acc["blobs"] = b /\ [acc EXCEPT !["blobs"] = b] = acc BY <1>3, ResultRecord
    <3>8. IsCollection(b) /\ Messages!ToSet(b) = FileBlobs(data) BY <1>1 DEF Gather
    <3>9. /\ Messages!AddTo(acc, "blobs", refs) # {} <=>
               Messages!Consistent(FileBlobs(data) \cup refs)
          /\ \A next \in Messages!AddTo(acc, "blobs", refs) :
               \E values : /\ next = [acc EXCEPT !["blobs"] = values] /\ IsCollection(values)
                           /\ Messages!ToSet(values) = FileBlobs(data) \cup refs
      <4>1. IsCollection(acc["blobs"]) /\ [acc EXCEPT !["blobs"] = acc["blobs"]] = acc
        BY <3>7, <3>8
      <4>2. Messages!ToSet(acc["blobs"]) = FileBlobs(data) BY <3>7, <3>8
      <4>3. AddsTo(acc, "blobs", refs) BY <3>5, <4>1, AddedTo
      <4> QED BY <4>2, <4>3 DEF AddsTo
    <3>10. ASSUME NEW next \in ResultStep(acc, field) PROVE Gathered(next, new)
      <4>1. PICK values : /\ next = [acc EXCEPT !["blobs"] = values] /\ IsCollection(values)
                          /\ Messages!ToSet(values) = FileBlobs(data) \cup refs
        BY <3>4, <3>9
      <4>2. next = ResultOf(values, t, d, out, outInline, err, errInline)
        BY <1>3, <4>1, ResultRecord
      <4>3. Gather(values, t, d, new) BY <1>1, <1>6, <3>6, <4>1 DEF Gather
      <4> QED BY <1>7, <4>2, <4>3 DEF Gathered
    <3>11. ResultFields(new) <=> Messages!Consistent(FileBlobs(data) \cup refs)
      BY <1>6, <1>8, <1>11, <3>6
    <3> QED BY <3>4, <3>9, <3>10, <3>11 DEF ReadsField
  <2> QED BY <2>5, <2>6
<1> QED BY <1>9, <1>10, <1>11

\* An output directory.
LEMMA DirectoryIsRead ==
  ASSUME NEW data \in Seq(Fields), NEW field \in Fields, NEW new, ResultExtends(new, data, field),
         ResultFields(data), NEW acc, Gathered(acc, data), field.number = 3
  PROVE  ReadsField(acc, new, field)
<1>1. PICK b, t, d :
        /\ Gather(b, t, d, data)
        /\ acc = ResultOf(b, t, d, LastDigest(data, 6), Inline(data, 5),
                          LastDigest(data, 8), Inline(data, 7))
  BY DEF Gathered
<1>2. PICK out, outInline, err, errInline :
        /\ out = LastDigest(data, 6) /\ outInline = Inline(data, 5)
        /\ err = LastDigest(data, 8) /\ errInline = Inline(data, 7)
  OBVIOUS
<1>3. acc = ResultOf(b, t, d, out, outInline, err, errInline) BY <1>1, <1>2
<1>4. PICK m : m = field.message OBVIOUS
<1>5. m \in Seq(Fields) BY <1>4, FieldsAssumption
<1>6. PICK trees, roots :
        trees = Messages!DigestsAt(m, 3) /\ roots = Messages!DigestsAt(m, 5)
  OBVIOUS
<1>7. /\ FileBlobs(new) = FileBlobs(data)
      /\ Messages!OutputsOf(new, 3) = Messages!OutputsOf(data, 3) \cup trees
      /\ Messages!OutputsOf(new, 5) = Messages!OutputsOf(data, 5) \cup roots
  BY <1>4, <1>6 DEF ResultExtends
<1>8. /\ LastDigest(new, 6) = out /\ LastDigest(new, 8) = err
      /\ Inline(new, 5) = outInline /\ Inline(new, 7) = errInline
  <2>1. field.number # 5 /\ field.number # 6 /\ field.number # 7 /\ field.number # 8 OBVIOUS
  <2>2. LastDigest(new, 6) = out /\ LastDigest(new, 8) = err BY <1>2, <2>1 DEF ResultExtends
  <2>3. Inline(new, 5) = outInline /\ Inline(new, 7) = errInline BY <1>2, <2>1 DEF ResultExtends
  <2> QED BY <2>2, <2>3
<1>9. ResultFields(new) <=>
        /\ Messages!Consumed(field) /\ field.type = "bytes" /\ Messages!GoodOutputDirectory(m)
        /\ Messages!Consistent(Messages!OutputsOf(new, 3))
        /\ Messages!Consistent(Messages!OutputsOf(new, 5))
  BY <1>4, <1>7 DEF ResultFields, ResultExtends
<1>10. CASE ~Messages!Consumed(field) BY <1>9, <1>10 DEF ReadsField, ResultStep
<1>11. CASE Messages!Consumed(field) /\ ~(field.type = "bytes" /\ Messages!GoodOutputDirectory(m))
  <2>1. ResultStep(acc, field) =
          UNION {Messages!AddDirectory(acc, dir) :
                   dir \in UNION {Messages!parseOutputDirectory(x) : x \in Messages!messageOf(field)}}
    BY <1>11 DEF ResultStep, Messages!ActionResultField
  <2>2. \A x \in Messages!messageOf(field) : Messages!parseOutputDirectory(x) = {}
    BY <1>4, <1>5, <1>11, ParsedDirectory DEF Messages!messageOf
  <2>3. ResultStep(acc, field) = {} BY <2>1, <2>2
  <2> QED BY <1>9, <1>11, <2>3 DEF ReadsField
<1>12. CASE Messages!Consumed(field) /\ field.type = "bytes" /\ Messages!GoodOutputDirectory(m)
  <2>1. ResultStep(acc, field) =
          UNION {Messages!AddDirectory(acc, dir) :
                   dir \in UNION {Messages!parseOutputDirectory(x) : x \in Messages!messageOf(field)}}
    BY <1>12 DEF ResultStep, Messages!ActionResultField
  <2>2. Messages!messageOf(field) = {m} BY <1>4, <1>12 DEF Messages!messageOf
  <2>3. Messages!parseOutputDirectory(m) = {DirOf(m)} BY <1>5, <1>12, ParsedDirectory
  <2>4. ResultStep(acc, field) = Messages!AddDirectory(acc, DirOf(m)) BY <2>1, <2>2, <2>3
  <2>5. DirOf(m).tree = trees /\ DirOf(m).root = roots BY <1>6 DEF DirOf
  <2>6. PICK middle : middle = Messages!AddTo(acc, "trees", trees) OBVIOUS
  <2>7. ResultStep(acc, field) = UNION {Messages!AddTo(a, "directories", roots) : a \in middle}
    BY <2>4, <2>5, <2>6 DEF Messages!AddDirectory
  <2>8. /\ AtMostOne(trees) /\ trees \subseteq Messages!Refs
        /\ AtMostOne(roots) /\ roots \subseteq Messages!Refs
    BY <1>5, <1>6, <1>12, OnceMeansOne DEF Messages!GoodOutputDirectory
  <2>9. PICK oldTrees, oldRoots :
          oldTrees = Messages!OutputsOf(data, 3) /\ oldRoots = Messages!OutputsOf(data, 5)
    OBVIOUS
  <2>10. /\ IsCollection(t) /\ Messages!ToSet(t) = oldTrees
         /\ IsCollection(d) /\ Messages!ToSet(d) = oldRoots
    BY <1>1, <2>9 DEF Gather
  <2>11. /\ middle # {} <=> Messages!Consistent(oldTrees \cup trees)
         /\ \A next \in middle :
              \E values : /\ next = [acc EXCEPT !["trees"] = values] /\ IsCollection(values)
                          /\ Messages!ToSet(values) = oldTrees \cup trees
    <3>1. acc["trees"] = t /\ [acc EXCEPT !["trees"] = t] = acc BY <1>3, ResultRecord
    <3>2. IsCollection(acc["trees"]) /\ [acc EXCEPT !["trees"] = acc["trees"]] = acc
      BY <2>10, <3>1
    <3>3. Messages!ToSet(acc["trees"]) = oldTrees BY <2>10, <3>1
    <3>4. AddsTo(acc, "trees", trees) BY <2>8, <3>2, AddedTo
    <3> QED BY <2>6, <3>3, <3>4 DEF AddsTo
  <2>12. ASSUME NEW a \in middle
         PROVE  /\ Messages!AddTo(a, "directories", roots) # {} <=>
                     Messages!Consistent(oldRoots \cup roots)
                /\ \A next \in Messages!AddTo(a, "directories", roots) : Gathered(next, new)
    <3>1. PICK s : /\ a = [acc EXCEPT !["trees"] = s] /\ IsCollection(s)
                   /\ Messages!ToSet(s) = oldTrees \cup trees
      BY <2>11
    <3>2. a = ResultOf(b, s, d, out, outInline, err, errInline) BY <1>3, <3>1, ResultRecord
    <3>3. a["directories"] = d /\ [a EXCEPT !["directories"] = d] = a BY <3>2, ResultRecord
    <3>4. IsCollection(a["directories"]) /\ [a EXCEPT !["directories"] = a["directories"]] = a
      BY <2>10, <3>3
    <3>5. Messages!ToSet(a["directories"]) = oldRoots BY <2>10, <3>3
    <3>6. AddsTo(a, "directories", roots) BY <2>8, <3>4, AddedTo
    <3>7. ASSUME NEW next \in Messages!AddTo(a, "directories", roots) PROVE Gathered(next, new)
      <4>1. PICK values : /\ next = [a EXCEPT !["directories"] = values] /\ IsCollection(values)
                          /\ Messages!ToSet(values) = oldRoots \cup roots
        BY <3>5, <3>6 DEF AddsTo
      <4>2. next = ResultOf(b, s, values, out, outInline, err, errInline)
        BY <3>2, <4>1, ResultRecord
      <4>3. Gather(b, s, values, new) BY <1>1, <1>7, <2>9, <3>1, <4>1 DEF Gather
      <4> QED BY <1>8, <4>2, <4>3 DEF Gathered
    <3> QED BY <3>5, <3>6, <3>7 DEF AddsTo
  <2>13. ResultFields(new) <=> Messages!Consistent(oldTrees \cup trees)
                               /\ Messages!Consistent(oldRoots \cup roots)
    BY <1>7, <1>9, <1>12, <2>9
  <2>14. ResultStep(acc, field) # {} <=> ResultFields(new)
    <3>1. CASE middle = {}
      <4>1. ResultStep(acc, field) = {} BY <2>7, <3>1
      <4> QED BY <2>11, <2>13, <3>1, <4>1
    <3>2. CASE middle # {}
      <4>1. PICK a \in middle : TRUE BY <3>2
      <4>2. ResultStep(acc, field) # {} <=>
              \E x \in middle : Messages!AddTo(x, "directories", roots) # {}
        BY <2>7
      <4>3. ResultStep(acc, field) # {} <=> Messages!Consistent(oldRoots \cup roots)
        BY <2>12, <4>1, <4>2
      <4> QED BY <2>11, <2>13, <3>2, <4>3
    <3> QED BY <3>1, <3>2
  <2>15. \A next \in ResultStep(acc, field) : Gathered(next, new) BY <2>7, <2>12
  <2> QED BY <2>14, <2>15 DEF ReadsField
<1> QED BY <1>10, <1>11, <1>12

\* What the visitor of action results reads.
LEMMA ResultReading ==
  ASSUME NEW data \in Seq(Fields)
  PROVE  ResultSoFar(data, Messages!visitWireFields(data, Messages!NoReferences,
                                                    Messages!ActionResultField))
<1> DEFINE start == Messages!NoReferences
<1>1. ResultSoFar(<<>>, {start})
  <2>1. PICK empty : empty = <<>> OBVIOUS
  <2>2. FileBlobs(empty) = {} /\ \A n : Messages!OutputsOf(empty, n) = {}
    BY <2>1, NoFields DEF FileBlobs, Messages!OutputsOf
  <2>3. \A n : LastDigest(empty, n) = {} BY <2>1, NoFields DEF LastDigest
  <2>4. \A n : Inline(empty, n) = FALSE BY <2>1, NoFields, Zenon DEF Inline
  <2>5. WellShaped(empty)
    BY <2>1, NoFields, NoDigests DEF WellShaped
  <2>6. ResultFields(empty) BY <2>2, <2>5 DEF ResultFields, Messages!Consistent
  <2>7. PICK none : none = <<>> OBVIOUS
  <2>8. IsCollection(none) /\ Messages!ToSet(none) = {}
    <3>1. DOMAIN none = {} BY <2>7
    <3>2. none \in Seq(Messages!Refs) BY <2>7
    <3> QED BY <3>1, <3>2 DEF IsCollection, Messages!ToSet
  <2>9. Gather(none, none, none, empty) BY <2>2, <2>8 DEF Gather
  <2>10. start = ResultOf(none, none, none, LastDigest(empty, 6), Inline(empty, 5),
                          LastDigest(empty, 8), Inline(empty, 7))
    <3>1. LastDigest(empty, 6) = {} /\ LastDigest(empty, 8) = {} BY <2>3
    <3>2. Inline(empty, 5) = FALSE /\ Inline(empty, 7) = FALSE BY <2>4, Zenon
    <3> QED BY <2>7, <3>1, <3>2, Zenon DEF ResultOf, Messages!NoReferences
  <2>11. Gathered(start, empty) BY <2>9, <2>10 DEF Gathered
  <2> QED BY <2>1, <2>6, <2>11 DEF ResultSoFar
<1>2. ASSUME NEW read \in Seq(Fields), NEW field \in Fields, NEW before, ResultSoFar(read, before)
      PROVE  ResultSoFar(Append(read, field), UNION {ResultStep(acc, field) : acc \in before})
  <2>1. PICK new : new = Append(read, field) OBVIOUS
  <2>2. PICK after : after = UNION {ResultStep(acc, field) : acc \in before} OBVIOUS
  <2>3. ResultExtends(new, read, field) BY <2>1, ResultExtended
  <2>4. CASE before = {}
    <3>1. ~ResultFields(read) BY <1>2, <2>4 DEF ResultSoFar
    <3>2. ~ResultFields(new)
      <4>1. WellShaped(new) => WellShaped(read) BY <2>3 DEF ResultExtends
      <4>2. FileBlobs(read) \subseteq FileBlobs(new) BY <2>3 DEF ResultExtends
      <4>3. \A n : Messages!OutputsOf(read, n) \subseteq Messages!OutputsOf(new, n)
        BY <2>3 DEF ResultExtends
      <4> QED BY <3>1, <4>1, <4>2, <4>3 DEF ResultFields, Messages!Consistent
    <3>3. after = {} BY <2>2, <2>4
    <3> QED BY <2>1, <2>2, <3>2, <3>3 DEF ResultSoFar
  <2>5. CASE before # {}
    <3>1. ResultFields(read) BY <1>2, <2>5 DEF ResultSoFar
    <3>2. ASSUME NEW acc \in before PROVE ReadsField(acc, new, field)
      <4>1. Gathered(acc, read) BY <1>2 DEF ResultSoFar
      <4>2. CASE field.number = 2 BY <2>3, <3>1, <4>1, <4>2, FileIsRead
      <4>3. CASE field.number = 3 BY <2>3, <3>1, <4>1, <4>3, DirectoryIsRead
      <4>4. CASE field.number # 2 /\ field.number # 3 BY <2>3, <3>1, <4>1, <4>4, StreamIsRead
      <4> QED BY <4>2, <4>3, <4>4
    <3>3. after # {} <=> ResultFields(new) BY <2>2, <2>5, <3>2 DEF ReadsField
    <3>4. \A next \in after : Gathered(next, new) BY <2>2, <3>2 DEF ReadsField
    <3> QED BY <2>1, <2>2, <3>3, <3>4 DEF ResultSoFar
  <2> QED BY <2>4, <2>5
<1>3. ResultSoFar(data, Results!ReadEach(data, start, ResultStep))
  <2> HIDE DEF start
  <2> QED BY <1>1, <1>2, Results!ReadInduction
<1>4. Messages!visitWireFields(data, start, Messages!ActionResultField)
        = Results!ReadEach(data, start, ResultStep)
  BY DEF Messages!visitWireFields, Messages!ReadEach, Results!ReadEach, ResultStep
<1> QED BY <1>3, <1>4

\* The last field of a number denotes at most one reference.
LEMMA LastIsOne ==
  ASSUME NEW data \in Seq(Fields), NEW n
  PROVE  AtMostOne(LastDigest(data, n)) /\ LastDigest(data, n) \subseteq Messages!Refs
<1>1. PICK at : at = Messages!At(data, n) OBVIOUS
<1>2. CASE at = {}
  <2>1. LastDigest(data, n) = {} BY <1>1, <1>2 DEF LastDigest
  <2> QED BY <2>1 DEF AtMostOne
<1>3. CASE at # {}
  <2>1. PICK max : max = CHOOSE i \in at : \A j \in at : j <= i OBVIOUS
  <2>2. Len(data) \in Nat /\ at \subseteq 1..Len(data) BY <1>1, LenProperties DEF Messages!At
  <2>3. \E i \in at : \A j \in at : j <= i BY <1>3, <2>2, HasGreatest
  <2>4. max \in at BY <2>1, <2>3
  <2>5. data[max] \in Fields BY <2>2, <2>4, LenProperties, ElementOfSeq
  <2>6. LastDigest(data, n) = Denoted(data[max].message) BY <1>1, <1>3, <2>1 DEF LastDigest
  <2>7. data[max].message \in Seq(Fields) BY <2>5, FieldsAssumption
  <2>8. \A r, s \in Denoted(data[max].message) : r = s BY <2>7, ParsedDigest
  <2> QED BY <2>6, <2>8 DEF AtMostOne, Denoted
<1> QED BY <1>2, <1>3

\* The reference of a stream that is not in the message.
Streamed(refs, inline) == IF inline THEN {} ELSE refs

\* The record of what was read, with the reference of a stream.
StreamAdds(nexts, refs, b, t, d, out, outInline, err, errInline) ==
  /\ nexts # {} <=> Messages!Consistent(Messages!ToSet(b) \cup refs)
  /\ \A next \in nexts :
       \E v : /\ IsCollection(v) /\ Messages!ToSet(v) = Messages!ToSet(b) \cup refs
              /\ next = ResultOf(v, t, d, out, outInline, err, errInline)

\* Adding a reference to the blobs of what was read.
LEMMA BlobAdded ==
  ASSUME NEW b, NEW t, NEW d, NEW out, NEW outInline, NEW err, NEW errInline, IsCollection(b),
         NEW acc, acc = ResultOf(b, t, d, out, outInline, err, errInline),
         NEW refs, AtMostOne(refs), refs \subseteq Messages!Refs
  PROVE  StreamAdds(Messages!AddTo(acc, "blobs", refs), refs,
                    b, t, d, out, outInline, err, errInline)
<1>1. acc["blobs"] = b /\ [acc EXCEPT !["blobs"] = b] = acc BY ResultRecord
<1>2. IsCollection(acc["blobs"]) /\ [acc EXCEPT !["blobs"] = acc["blobs"]] = acc BY <1>1
<1>3. AddsTo(acc, "blobs", refs) BY <1>2, AddedTo
<1>4. PICK nexts : nexts = Messages!AddTo(acc, "blobs", refs) OBVIOUS
<1>5. ASSUME NEW next \in nexts
      PROVE  \E v : /\ IsCollection(v) /\ Messages!ToSet(v) = Messages!ToSet(b) \cup refs
                    /\ next = ResultOf(v, t, d, out, outInline, err, errInline)
  <2>1. PICK v : /\ next = [acc EXCEPT !["blobs"] = v] /\ IsCollection(v)
                 /\ Messages!ToSet(v) = Messages!ToSet(b) \cup refs
    BY <1>1, <1>3, <1>4 DEF AddsTo
  <2>2. next = ResultOf(v, t, d, out, outInline, err, errInline) BY <2>1, ResultRecord
  <2> QED BY <2>1, <2>2
<1>6. nexts # {} <=> Messages!Consistent(Messages!ToSet(b) \cup refs)
  BY <1>1, <1>3, <1>4 DEF AddsTo
<1> QED BY <1>4, <1>5, <1>6 DEF StreamAdds

\* Adding what an output stream refers to, unless its bytes are inlined.
LEMMA StreamAdded ==
  ASSUME NEW b, NEW t, NEW d, NEW out, NEW outInline, NEW err, NEW errInline, IsCollection(b),
         NEW acc, acc = ResultOf(b, t, d, out, outInline, err, errInline),
         NEW refs, AtMostOne(refs), refs \subseteq Messages!Refs, NEW slot, NEW inline,
         acc[slot] = refs, NEW flag, acc[inline] = flag
  PROVE  StreamAdds(Messages!AddStream(acc, slot, inline), Streamed(refs, flag),
                    b, t, d, out, outInline, err, errInline)
<1>1. CASE flag
  <2>1. Messages!AddStream(acc, slot, inline) = {acc} BY <1>1 DEF Messages!AddStream
  <2>2. Streamed(refs, flag) = {} BY <1>1 DEF Streamed
  <2>3. Messages!ToSet(b) \cup {} = Messages!ToSet(b) OBVIOUS
  <2>4. Messages!Consistent(Messages!ToSet(b)) BY CollectionIsConsistent
  <2> QED BY <2>1, <2>2, <2>3, <2>4 DEF StreamAdds
<1>2. CASE ~flag
  <2>1. Messages!AddStream(acc, slot, inline) = Messages!AddTo(acc, "blobs", refs)
    BY <1>2 DEF Messages!AddStream
  <2>2. Streamed(refs, flag) = refs BY <1>2 DEF Streamed
  <2> QED BY <2>1, <2>2, BlobAdded
<1> QED BY <1>1, <1>2

\* What a message refers to, by the definitions of the visitor.
LEMMA ReferredTo ==
  ASSUME NEW data \in Seq(Fields)
  PROVE  /\ Messages!BlobsOf(data) = FileBlobs(data)
              \cup Streamed(LastDigest(data, 6), Inline(data, 5))
              \cup Streamed(LastDigest(data, 8), Inline(data, 7))
         /\ Messages!GoodActionResult(data) <=>
              /\ WellShaped(data) /\ Messages!Consistent(Messages!BlobsOf(data))
              /\ \A n \in {3, 5} : Messages!Consistent(Messages!OutputsOf(data, n))
<1>1. FileBlobs(data) = UNION {Messages!DigestsAt(data[i].message, 2) :
           i \in {i \in Messages!At(data, 2) : Messages!At(data[i].message, 5) = {}}}
  <2>1. PICK at : at = Messages!At(data, 2) OBVIOUS
  <2>2. \A r : r \in FileBlobs(data) <=>
          \E i \in at : Messages!At(data[i].message, 5) = {} /\ r \in Messages!DigestsAt(data[i].message, 2)
    BY <2>1 DEF FileBlobs, FileBlob
  <2>3. PICK set : set = UNION {Messages!DigestsAt(data[i].message, 2) :
                                 i \in {i \in at : Messages!At(data[i].message, 5) = {}}}
    OBVIOUS
  <2>4. \A r : r \in set <=>
          \E i \in at : Messages!At(data[i].message, 5) = {} /\ r \in Messages!DigestsAt(data[i].message, 2)
    BY <2>3
  <2>5. FileBlobs(data) = set
    <3>1. \A r : r \in FileBlobs(data) <=> r \in set BY <2>2, <2>4
    <3> QED BY <3>1
  <2> QED BY <2>1, <2>3, <2>5
<1>2. \A raw, n : Messages!Stream(data, raw, n) = Streamed(LastDigest(data, n), Inline(data, raw))
  <2> SUFFICES ASSUME NEW raw, NEW n
               PROVE  Messages!Stream(data, raw, n) = Streamed(LastDigest(data, n), Inline(data, raw))
    OBVIOUS
  <2>1. CASE Messages!At(data, raw) # {}
    <3>1. Messages!Stream(data, raw, n) = {} BY <2>1 DEF Messages!Stream
    <3>2. Inline(data, raw) = TRUE BY <2>1, Zenon DEF Inline
    <3> QED BY <3>1, <3>2 DEF Streamed
  <2>2. CASE Messages!At(data, raw) = {}
    <3>1. Messages!Stream(data, raw, n) = LastDigest(data, n)
      BY <2>2 DEF Messages!Stream, LastDigest, Denoted
    <3>2. Inline(data, raw) = FALSE BY <2>2, Zenon DEF Inline
    <3> QED BY <3>1, <3>2 DEF Streamed
  <2> QED BY <2>1, <2>2
<1>3. Messages!BlobsOf(data) = FileBlobs(data)
              \cup Streamed(LastDigest(data, 6), Inline(data, 5))
              \cup Streamed(LastDigest(data, 8), Inline(data, 7))
  <2>1. Messages!Stream(data, 5, 6) = Streamed(LastDigest(data, 6), Inline(data, 5)) BY <1>2, Zenon
  <2>2. Messages!Stream(data, 7, 8) = Streamed(LastDigest(data, 8), Inline(data, 7)) BY <1>2, Zenon
  <2>3. Messages!BlobsOf(data) =
          FileBlobs(data) \cup Messages!Stream(data, 5, 6) \cup Messages!Stream(data, 7, 8)
    <3>1. PICK stdout, stderr : stdout = Messages!Stream(data, 5, 6) /\ stderr = Messages!Stream(data, 7, 8)
      OBVIOUS
    <3>2. PICK set : set = UNION {Messages!DigestsAt(data[i].message, 2) :
           i \in {i \in Messages!At(data, 2) : Messages!At(data[i].message, 5) = {}}}
      OBVIOUS
    <3>3. Messages!BlobsOf(data) = set \cup stdout \cup stderr
      BY <3>1, <3>2 DEF Messages!BlobsOf
    <3> QED BY <1>1, <3>1, <3>2, <3>3
  <2> QED BY <2>1, <2>2, <2>3, Zenon
<1>4. Messages!GoodActionResult(data) <=>
              /\ WellShaped(data) /\ Messages!Consistent(Messages!BlobsOf(data))
              /\ \A n \in {3, 5} : Messages!Consistent(Messages!OutputsOf(data, n))
  BY DEF Messages!GoodActionResult, WellShaped
<1> QED BY <1>3, <1>4

\* parseActionResult returns what a message refers to, for the good ones.
LEMMA ParsedResult ==
  ASSUME NEW data \in Seq(Fields)
  PROVE  /\ Messages!ReferencesOf(data, Messages!parseActionResult(data))
         /\ Messages!parseActionResult(data) # {} <=> Messages!GoodActionResult(data)
<1>1. PICK read : read = Messages!visitWireFields(data, Messages!NoReferences,
                                                  Messages!ActionResultField)
  OBVIOUS
<1>2. /\ read # {} <=> ResultFields(data)
      /\ \A acc \in read : Gathered(acc, data)
  BY <1>1, ResultReading DEF ResultSoFar
<1>3. PICK middle : middle = UNION {Messages!AddStream(a, "stdout", "stdoutInline") : a \in read}
  OBVIOUS
<1>4. PICK returned : returned = Messages!parseActionResult(data) OBVIOUS
<1>5. returned = UNION {Messages!AddStream(acc, "stderr", "stderrInline") : acc \in middle}
  BY <1>1, <1>3, <1>4 DEF Messages!parseActionResult
<1>6. PICK blobs, trees, roots :
        /\ blobs = FileBlobs(data) /\ trees = Messages!OutputsOf(data, 3)
        /\ roots = Messages!OutputsOf(data, 5)
  OBVIOUS
<1>7. PICK out, outInline, err, errInline :
        /\ out = LastDigest(data, 6) /\ outInline = Inline(data, 5)
        /\ err = LastDigest(data, 8) /\ errInline = Inline(data, 7)
  OBVIOUS
<1>8. PICK outs, errs : outs = Streamed(out, outInline) /\ errs = Streamed(err, errInline)
  OBVIOUS
<1>9. /\ AtMostOne(out) /\ out \subseteq Messages!Refs
      /\ AtMostOne(err) /\ err \subseteq Messages!Refs
  BY <1>7, LastIsOne
<1>10. ASSUME NEW a \in read
       PROVE  /\ Messages!AddStream(a, "stdout", "stdoutInline") # {} <=>
                   Messages!Consistent(blobs \cup outs)
              /\ \A acc \in Messages!AddStream(a, "stdout", "stdoutInline") :
                   \E v, t, d :
                     /\ IsCollection(v) /\ Messages!ToSet(v) = blobs \cup outs
                     /\ IsCollection(t) /\ Messages!ToSet(t) = trees
                     /\ IsCollection(d) /\ Messages!ToSet(d) = roots
                     /\ acc = ResultOf(v, t, d, out, outInline, err, errInline)
  <2>1. PICK b, t, d : Gather(b, t, d, data) /\ a = ResultOf(b, t, d, out, outInline, err, errInline)
    BY <1>2, <1>7 DEF Gathered
  <2>2. /\ IsCollection(b) /\ Messages!ToSet(b) = blobs
        /\ IsCollection(t) /\ Messages!ToSet(t) = trees
        /\ IsCollection(d) /\ Messages!ToSet(d) = roots
    BY <1>6, <2>1 DEF Gather
  <2>3. a["stdout"] = out /\ a["stdoutInline"] = outInline BY <2>1, ResultRecord
  <2>4. PICK nexts : nexts = Messages!AddStream(a, "stdout", "stdoutInline") OBVIOUS
  <2>5. StreamAdds(nexts, outs, b, t, d, out, outInline, err, errInline)
    BY <1>8, <1>9, <2>1, <2>2, <2>3, <2>4, StreamAdded
  <2> QED BY <2>2, <2>4, <2>5 DEF StreamAdds
<1>11. ASSUME NEW acc \in middle
       PROVE  /\ Messages!AddStream(acc, "stderr", "stderrInline") # {} <=>
                   Messages!Consistent(blobs \cup outs \cup errs)
              /\ \A parsed \in Messages!AddStream(acc, "stderr", "stderrInline") :
                   \E v, t, d :
                     /\ IsCollection(v) /\ Messages!ToSet(v) = blobs \cup outs \cup errs
                     /\ IsCollection(t) /\ Messages!ToSet(t) = trees
                     /\ IsCollection(d) /\ Messages!ToSet(d) = roots
                     /\ parsed = ResultOf(v, t, d, out, outInline, err, errInline)
  <2>1. PICK a \in read : acc \in Messages!AddStream(a, "stdout", "stdoutInline") BY <1>3
  <2>2. PICK v, t, d :
          /\ IsCollection(v) /\ Messages!ToSet(v) = blobs \cup outs
          /\ IsCollection(t) /\ Messages!ToSet(t) = trees
          /\ IsCollection(d) /\ Messages!ToSet(d) = roots
          /\ acc = ResultOf(v, t, d, out, outInline, err, errInline)
    BY <1>10, <2>1
  <2>3. acc["stderr"] = err /\ acc["stderrInline"] = errInline BY <2>2, ResultRecord
  <2>4. PICK nexts : nexts = Messages!AddStream(acc, "stderr", "stderrInline") OBVIOUS
  <2>5. StreamAdds(nexts, errs, v, t, d, out, outInline, err, errInline)
    BY <1>8, <1>9, <2>2, <2>3, <2>4, StreamAdded
  <2> QED BY <2>2, <2>4, <2>5 DEF StreamAdds
<1>12. Messages!BlobsOf(data) = blobs \cup outs \cup errs BY <1>6, <1>7, <1>8, ReferredTo
<1>13. Messages!ReferencesOf(data, returned)
  <2>1. SUFFICES ASSUME NEW parsed \in returned
                 PROVE  /\ Messages!AsSets(parsed) =
                             <<Messages!BlobsOf(data), Messages!OutputsOf(data, 3),
                               Messages!OutputsOf(data, 5)>>
                        /\ \A refs \in {parsed.blobs, parsed.trees, parsed.directories} :
                             \A i, j \in DOMAIN refs : refs[i].hash = refs[j].hash => i = j
    BY DEF Messages!ReferencesOf
  <2>2. PICK acc \in middle : parsed \in Messages!AddStream(acc, "stderr", "stderrInline")
    BY <1>5
  <2>3. PICK v, t, d :
          /\ IsCollection(v) /\ Messages!ToSet(v) = blobs \cup outs \cup errs
          /\ IsCollection(t) /\ Messages!ToSet(t) = trees
          /\ IsCollection(d) /\ Messages!ToSet(d) = roots
          /\ parsed = ResultOf(v, t, d, out, outInline, err, errInline)
    BY <1>11, <2>2
  <2>4. parsed.blobs = v /\ parsed.trees = t /\ parsed.directories = d BY <2>3 DEF ResultOf
  <2>5. Messages!AsSets(parsed) =
          <<Messages!BlobsOf(data), Messages!OutputsOf(data, 3), Messages!OutputsOf(data, 5)>>
    BY <1>6, <1>12, <2>3, <2>4 DEF Messages!AsSets
  <2> QED BY <2>3, <2>4, <2>5 DEF IsCollection
<1>14. returned # {} <=> Messages!GoodActionResult(data)
  <2>1. middle # {} <=> ResultFields(data) /\ Messages!Consistent(blobs \cup outs)
    <3>1. CASE read = {} BY <1>2, <1>3, <3>1
    <3>2. CASE read # {}
      <4>1. PICK a \in read : TRUE BY <3>2
      <4>2. middle # {} <=> \E x \in read : Messages!AddStream(x, "stdout", "stdoutInline") # {}
        BY <1>3
      <4> QED BY <1>2, <1>10, <3>2, <4>1, <4>2
    <3> QED BY <3>1, <3>2
  <2>2. returned # {} <=> middle # {} /\ Messages!Consistent(blobs \cup outs \cup errs)
    <3>1. CASE middle = {} BY <1>5, <3>1
    <3>2. CASE middle # {}
      <4>1. PICK a \in middle : TRUE BY <3>2
      <4>2. returned # {} <=> \E x \in middle : Messages!AddStream(x, "stderr", "stderrInline") # {}
        BY <1>5
      <4> QED BY <1>11, <3>2, <4>1, <4>2
    <3> QED BY <3>1, <3>2
  <2>3. Messages!Consistent(blobs \cup outs \cup errs) =>
          Messages!Consistent(blobs) /\ Messages!Consistent(blobs \cup outs)
    BY SubsetIsConsistent
  <2> QED BY <1>6, <1>12, <2>1, <2>2, <2>3, ReferredTo DEF ResultFields
<1> QED BY <1>4, <1>13, <1>14

\* One reference more in a list.
LEMMA AppendedRef ==
  ASSUME NEW Items, NEW list \in Seq(Items), NEW item \in Items
  PROVE  /\ Append(list, item) \in Seq(Items)
         /\ Messages!ToSet(Append(list, item)) = Messages!ToSet(list) \cup {item}
<1>1. PICK next : next = Append(list, item) OBVIOUS
<1>2. Len(list) \in Nat /\ DOMAIN list = 1..Len(list) BY LenProperties
<1>3. PICK last : last = Len(list) + 1 OBVIOUS
<1>4. /\ next \in Seq(Items) /\ Len(next) = last /\ next[last] = item
      /\ \A i \in 1..Len(list) : next[i] = list[i]
  BY <1>1, <1>3, AppendProperties
<1>5. DOMAIN next = 1..last BY <1>4, LenProperties
<1>6. 1..last = (1..Len(list)) \cup {last} BY <1>2, <1>3
<1>7. DOMAIN next = DOMAIN list \cup {last} /\ \A i \in DOMAIN list : next[i] = list[i]
  BY <1>2, <1>4, <1>5, <1>6
<1> QED BY <1>1, <1>4, <1>7 DEF Messages!ToSet

-----------------------------------------------------------------------------
(* Directories.                                                             *)

\* The nodes of a directory with one more field.
NodesExtend(new, data, field) ==
  \A n : Messages!Nodes(new, n) =
           IF field.number = n THEN Messages!Nodes(data, n) \cup Messages!DigestsAt(field.message, 2)
                               ELSE Messages!Nodes(data, n)

\* What a field more changes in the nodes of a directory.
LEMMA NodesExtended ==
  ASSUME NEW data \in Seq(Fields), NEW field \in Fields
  PROVE  NodesExtend(Append(data, field), data, field)
<1>0. PICK new : new = Append(data, field) OBVIOUS
<1>1. PICK last : AddedAt(new, data, field, last) BY <1>0, OneMoreField
<1>2. ASSUME NEW n
      PROVE  Messages!Nodes(new, n) =
               IF field.number = n THEN Messages!Nodes(data, n) \cup Messages!DigestsAt(field.message, 2)
                                   ELSE Messages!Nodes(data, n)
  <2>1. PICK old, at : old = Messages!At(data, n) /\ at = Messages!At(new, n) OBVIOUS
  <2>2. at = IF field.number = n THEN old \cup {last} ELSE old BY <1>1, <2>1 DEF AddedAt
  <2>3. new[last] = field /\ \A i \in old : new[i] = data[i] BY <1>1, <2>1 DEF AddedAt
  <2>4. \A r : r \in Messages!Nodes(new, n) <=> \E i \in at : r \in Messages!DigestsAt(new[i].message, 2)
    BY <2>1 DEF Messages!Nodes
  <2>5. \A r : r \in Messages!Nodes(data, n) <=> \E i \in old : r \in Messages!DigestsAt(data[i].message, 2)
    BY <2>1 DEF Messages!Nodes
  <2>6. CASE field.number = n
    <3>1. \A r : r \in Messages!Nodes(new, n) <=>
                   r \in Messages!Nodes(data, n) \cup Messages!DigestsAt(field.message, 2)
      BY <2>2, <2>3, <2>4, <2>5, <2>6
    <3>2. Messages!Nodes(new, n) = Messages!Nodes(data, n) \cup Messages!DigestsAt(field.message, 2)
      BY <3>1
    <3> QED BY <2>6, <3>2
  <2>7. CASE field.number # n
    <3>1. \A r : r \in Messages!Nodes(new, n) <=> r \in Messages!Nodes(data, n)
      BY <2>2, <2>3, <2>4, <2>5, <2>7
    <3>2. Messages!Nodes(new, n) = Messages!Nodes(data, n) BY <3>1
    <3> QED BY <2>7, <3>2
  <2> QED BY <2>6, <2>7
<1> QED BY <1>0, <1>2 DEF NodesExtend

\* What parseDirectory makes of one field.
DirectoryStep(acc, field) ==
  IF Messages!Consumed(field) THEN Messages!DirectoryField(acc, field) ELSE {}

\* The nodes of a directory.
RefLists == [files : Seq(Messages!Refs), directories : Seq(Messages!Refs)]

\* The references of the nodes that a directory message has.
ListsNodes(directory, data) ==
  /\ directory \in RefLists
  /\ Messages!ToSet(directory.files) = Messages!Nodes(data, 1)
  /\ Messages!ToSet(directory.directories) = Messages!Nodes(data, 2)

\* What was made of the fields that were read.
DirectorySoFar(data, read) == \A acc \in read : ListsNodes(acc, data)

DirectoryMessages == INSTANCE ReadingProofs WITH Read <- DirectoryStep, ReadSoFar <- DirectorySoFar

\* A list has got the reference of the node.
AppendsNode(next, acc, slot, node) ==
  \E ref \in Messages!Refs :
    next = [acc EXCEPT ![slot] = Append(acc[slot], ref)] /\ Messages!DigestsAt(node, 2) = {ref}

LEMMA NodeAppended ==
  ASSUME NEW acc, NEW slot, NEW field \in Fields, NEW next \in Messages!AppendNode(acc, slot, field)
  PROVE  AppendsNode(next, acc, slot, field.message)
<1>1. PICK refs : refs = UNION {Messages!parseNodeDigest(m) : m \in Messages!messageOf(field)} OBVIOUS
<1>2. Messages!AppendNode(acc, slot, field) = {[acc EXCEPT ![slot] = Append(acc[slot], ref)] : ref \in refs}
  BY <1>1 DEF Messages!AppendNode
<1>3. PICK ref \in refs : next = [acc EXCEPT ![slot] = Append(acc[slot], ref)] BY <1>2
<1>4. ref \in Messages!parseNodeDigest(field.message) BY <1>1, <1>3 DEF Messages!messageOf
<1>5. field.message \in Seq(Fields) BY FieldsAssumption
<1>6. ref \in Messages!Refs /\ Messages!DigestsAt(field.message, 2) = {ref} BY <1>4, <1>5, NodeReading
<1> QED BY <1>3, <1>6 DEF AppendsNode

\* parseDirectory returns the references of the nodes.
LEMMA ParsedNodes ==
  ASSUME NEW data \in Seq(Fields), NEW directory \in Messages!parseDirectory(data)
  PROVE  ListsNodes(directory, data)
<1> DEFINE start == [files |-> <<>>, directories |-> <<>>]
<1>1. DirectorySoFar(<<>>, {start})
  <2>1. PICK empty : empty = <<>> OBVIOUS
  <2>2. \A n : Messages!Nodes(empty, n) = {} BY <2>1, NoFields DEF Messages!Nodes
  <2>3. DOMAIN empty = {} /\ empty \in Seq(Messages!Refs) BY <2>1
  <2>4. Messages!ToSet(empty) = {} BY <2>3 DEF Messages!ToSet
  <2>5. start \in RefLists /\ start.files = empty /\ start.directories = empty
    BY <2>1, <2>3 DEF RefLists
  <2>6. ListsNodes(start, empty) BY <2>2, <2>4, <2>5 DEF ListsNodes
  <2> QED BY <2>1, <2>6 DEF DirectorySoFar
<1>2. ASSUME NEW read \in Seq(Fields), NEW field \in Fields, NEW before, DirectorySoFar(read, before)
      PROVE  DirectorySoFar(Append(read, field), UNION {DirectoryStep(acc, field) : acc \in before})
  <2>1. PICK new : new = Append(read, field) OBVIOUS
  <2>2. NodesExtend(new, read, field) BY <2>1, NodesExtended
  <2>3. ASSUME NEW acc \in before, NEW next \in DirectoryStep(acc, field)
        PROVE  ListsNodes(next, new)
    <3>1. /\ acc \in RefLists
          /\ Messages!ToSet(acc.files) = Messages!Nodes(read, 1)
          /\ Messages!ToSet(acc.directories) = Messages!Nodes(read, 2)
      BY <1>2 DEF DirectorySoFar, ListsNodes
    <3>2. PICK files, directories :
            /\ acc = [files |-> files, directories |-> directories]
            /\ files \in Seq(Messages!Refs) /\ directories \in Seq(Messages!Refs)
      BY <3>1 DEF RefLists
    <3>3. /\ Messages!ToSet(files) = Messages!Nodes(read, 1)
          /\ Messages!ToSet(directories) = Messages!Nodes(read, 2)
      BY <3>1, <3>2
    <3>4. PICK refs : refs = Messages!DigestsAt(field.message, 2) OBVIOUS
    <3>5. CASE field.number = 1
      <4>1. next \in Messages!AppendNode(acc, "files", field)
        BY <2>3, <3>5 DEF DirectoryStep, Messages!DirectoryField
      <4>1a. AppendsNode(next, acc, "files", field.message) BY <4>1, NodeAppended
      <4>2. PICK ref \in Messages!Refs :
              next = [acc EXCEPT !["files"] = Append(acc["files"], ref)] /\ refs = {ref}
        BY <3>4, <4>1a DEF AppendsNode
      <4>3. next = [files |-> Append(files, ref), directories |-> directories] BY <3>2, <4>2
      <4>4. /\ Append(files, ref) \in Seq(Messages!Refs)
            /\ Messages!ToSet(Append(files, ref)) = Messages!ToSet(files) \cup {ref}
        BY <3>2, AppendedRef
      <4>5. /\ Messages!Nodes(new, 1) = Messages!Nodes(read, 1) \cup refs
            /\ Messages!Nodes(new, 2) = Messages!Nodes(read, 2)
        BY <2>2, <3>4, <3>5 DEF NodesExtend
      <4>6. PICK list : list = Append(files, ref) OBVIOUS
      <4>7. next \in RefLists /\ next.files = list /\ next.directories = directories
        BY <3>2, <4>3, <4>4, <4>6 DEF RefLists
      <4> QED BY <3>3, <4>2, <4>4, <4>5, <4>6, <4>7 DEF ListsNodes
    <3>6. CASE field.number = 2
      <4>1. next \in Messages!AppendNode(acc, "directories", field)
        BY <2>3, <3>6 DEF DirectoryStep, Messages!DirectoryField
      <4>1a. AppendsNode(next, acc, "directories", field.message) BY <4>1, NodeAppended
      <4>2. PICK ref \in Messages!Refs :
              next = [acc EXCEPT !["directories"] = Append(acc["directories"], ref)] /\ refs = {ref}
        BY <3>4, <4>1a DEF AppendsNode
      <4>3. next = [files |-> files, directories |-> Append(directories, ref)] BY <3>2, <4>2
      <4>4. /\ Append(directories, ref) \in Seq(Messages!Refs)
            /\ Messages!ToSet(Append(directories, ref)) = Messages!ToSet(directories) \cup {ref}
        BY <3>2, AppendedRef
      <4>5. /\ Messages!Nodes(new, 2) = Messages!Nodes(read, 2) \cup refs
            /\ Messages!Nodes(new, 1) = Messages!Nodes(read, 1)
        BY <2>2, <3>4, <3>6 DEF NodesExtend
      <4>6. PICK list : list = Append(directories, ref) OBVIOUS
      <4>7. next \in RefLists /\ next.files = files /\ next.directories = list
        BY <3>2, <4>3, <4>4, <4>6 DEF RefLists
      <4> QED BY <3>3, <4>2, <4>4, <4>5, <4>6, <4>7 DEF ListsNodes
    <3>7. CASE field.number # 1 /\ field.number # 2
      <4>1. next = acc BY <2>3, <3>7 DEF DirectoryStep, Messages!DirectoryField
      <4>2. Messages!Nodes(new, 1) = Messages!Nodes(read, 1) /\ Messages!Nodes(new, 2) = Messages!Nodes(read, 2)
        BY <2>2, <3>7 DEF NodesExtend
      <4> QED BY <3>1, <4>1, <4>2 DEF ListsNodes
    <3> QED BY <3>5, <3>6, <3>7
  <2> QED BY <2>1, <2>3 DEF DirectorySoFar
<1>3. DirectorySoFar(data, DirectoryMessages!ReadEach(data, start, DirectoryStep))
  <2> HIDE DEF start
  <2> QED BY <1>1, <1>2, DirectoryMessages!ReadInduction
<1>4. Messages!parseDirectory(data) = DirectoryMessages!ReadEach(data, start, DirectoryStep)
  BY DEF Messages!parseDirectory, Messages!visitWireFields, Messages!ReadEach,
         DirectoryMessages!ReadEach, DirectoryStep
<1> QED BY <1>3, <1>4 DEF DirectorySoFar

-----------------------------------------------------------------------------
(* The files of the directories of a tree.                                  *)

\* add, as the body of a loop.
AddStep(files, ref) == Messages!add(files, ref)
AreCollections(refs, read) == \A files \in read : IsCollection(files)

Collecting == INSTANCE ReadingProofs WITH Read <- AddStep, ReadSoFar <- AreCollections

\* What a collection contains after it got more references.
LEMMA AddedAll ==
  ASSUME NEW files, IsCollection(files), NEW refs \in Seq(Messages!Refs),
         NEW next \in Messages!AddAll(files, refs)
  PROVE  /\ IsCollection(next)
         /\ Messages!ToSet(next) = Messages!ToSet(files) \cup Messages!ToSet(refs)
<1>1. PICK n : n = Len(refs) OBVIOUS
<1>2. n \in Nat /\ DOMAIN refs = 1..n /\ \A i \in 1..n : refs[i] \in Messages!Refs
  BY <1>1, LenProperties, ElementOfSeq
<1>3. Messages!AddAll(files, refs) = Collecting!ReadEach(refs, files, AddStep)
  BY DEF Messages!AddAll, Messages!ReadEach, Collecting!ReadEach, AddStep
<1>4. PICK r : Collecting!Lists(r, refs, n, files) /\ Messages!AddAll(files, refs) = r[n]
  BY <1>1, <1>2, <1>3, Collecting!ReadIsListed
<1>5. r[0] = {files} /\ \A i \in 1..n : r[i] = UNION {AddStep(acc, refs[i]) : acc \in r[i - 1]}
  BY <1>4 DEF Collecting!Lists, Collecting!Extended
<1> DEFINE Holds(k) == \A f \in r[k] :
             IsCollection(f) /\ Messages!ToSet(f) = Messages!ToSet(files) \cup {refs[i] : i \in 1..k}
<1> DEFINE S == {k \in 0..n : Holds(k)}
<1>6. 0 \in S
  <2>1. 0 \in 0..n /\ 1..0 = {} BY <1>2
  <2>2. Messages!ToSet(files) \cup {refs[i] : i \in 1..0} = Messages!ToSet(files) BY <2>1
  <2> QED BY <1>5, <2>1, <2>2
<1>7. ASSUME NEW k \in 0..n, k < n, k \in S PROVE k + 1 \in S
  <2>1. k + 1 \in 1..n /\ (k + 1) - 1 = k /\ k + 1 \in 0..n /\ 1..(k + 1) = (1..k) \cup {k + 1}
    BY <1>2, <1>7
  <2>2. PICK ref : ref = refs[k + 1] OBVIOUS
  <2>3. PICK old : old = {refs[i] : i \in 1..k} OBVIOUS
  <2>4. {refs[i] : i \in 1..(k + 1)} = old \cup {ref} BY <2>1, <2>2, <2>3
  <2>5. r[k + 1] = UNION {AddStep(acc, ref) : acc \in r[k]} BY <1>5, <2>1, <2>2
  <2>6. ref \in Messages!Refs BY <1>2, <2>1, <2>2
  <2>7. ASSUME NEW f \in r[k + 1]
        PROVE  IsCollection(f) /\ Messages!ToSet(f) = Messages!ToSet(files) \cup (old \cup {ref})
    <3>1. PICK acc \in r[k] : f \in Messages!add(acc, ref) BY <2>5 DEF AddStep
    <3>2. IsCollection(acc) /\ Messages!ToSet(acc) = Messages!ToSet(files) \cup old
      BY <1>7, <2>3
    <3>3. IsCollection(f) /\ Messages!ToSet(f) = Messages!ToSet(acc) \cup {ref}
      BY <2>6, <3>1, <3>2, Added
    <3> QED BY <3>2, <3>3
  <2> QED BY <2>1, <2>4, <2>7
<1>8. n \in S
  <2> HIDE DEF S
  <2>1. \A k \in 0..n : k \in S BY <1>2, <1>6, <1>7, Collecting!Induction
  <2> QED BY <1>2, <2>1
<1>9. Messages!ToSet(refs) = {refs[i] : i \in 1..n} BY <1>2 DEF Messages!ToSet
<1> QED BY <1>4, <1>8, <1>9

\* The files of one directory more.
FilesStep(files, directory) == Messages!AddAll(files, directory.files)

\* What was collected of the directories that were read.
FilesSoFar(directories, read) ==
  \A files \in read :
    /\ IsCollection(files)
    /\ Messages!ToSet(files) =
         UNION {Messages!ToSet(directory.files) : directory \in Messages!ToSet(directories)}

TreeFiles == INSTANCE ReadingProofs WITH Read <- FilesStep, ReadSoFar <- FilesSoFar

\* The files of a tree are those of its directories.
LEMMA FilesCollected ==
  ASSUME NEW directories \in Seq(RefLists), NEW files \in Messages!FilesOf(directories)
  PROVE  /\ IsCollection(files)
         /\ Messages!ToSet(files) =
              UNION {Messages!ToSet(directory.files) : directory \in Messages!ToSet(directories)}
<1>1. FilesSoFar(<<>>, {<<>>})
  <2>1. PICK empty : empty = <<>> OBVIOUS
  <2>2. DOMAIN empty = {} /\ empty \in Seq(Messages!Refs) BY <2>1
  <2>3. Messages!ToSet(empty) = {} /\ IsCollection(empty) BY <2>2 DEF Messages!ToSet, IsCollection
  <2> QED BY <2>1, <2>3 DEF FilesSoFar
<1>2. ASSUME NEW read \in Seq(RefLists), NEW directory \in RefLists, NEW before,
             FilesSoFar(read, before)
      PROVE  FilesSoFar(Append(read, directory), UNION {FilesStep(acc, directory) : acc \in before})
  <2>1. PICK new : new = Append(read, directory) OBVIOUS
  <2>2. Messages!ToSet(new) = Messages!ToSet(read) \cup {directory} BY <2>1, AppendedRef
  <2>3. PICK refs : refs = directory.files OBVIOUS
  <2>4. refs \in Seq(Messages!Refs) BY <2>3 DEF RefLists
  <2>5. ASSUME NEW acc \in before, NEW next \in FilesStep(acc, directory)
        PROVE  /\ IsCollection(next)
               /\ Messages!ToSet(next) =
                    UNION {Messages!ToSet(d.files) : d \in Messages!ToSet(new)}
    <3>1. PICK old : old = UNION {Messages!ToSet(d.files) : d \in Messages!ToSet(read)} OBVIOUS
    <3>2. IsCollection(acc) /\ Messages!ToSet(acc) = old BY <1>2, <3>1 DEF FilesSoFar
    <3>3. next \in Messages!AddAll(acc, refs) BY <2>3, <2>5 DEF FilesStep
    <3>4. IsCollection(next) /\ Messages!ToSet(next) = Messages!ToSet(acc) \cup Messages!ToSet(refs)
      BY <2>4, <3>2, <3>3, AddedAll
    <3>5. UNION {Messages!ToSet(d.files) : d \in Messages!ToSet(new)} = old \cup Messages!ToSet(refs)
      BY <2>2, <2>3, <3>1
    <3> QED BY <3>2, <3>4, <3>5
  <2> QED BY <2>1, <2>5 DEF FilesSoFar
<1>3. FilesSoFar(directories, TreeFiles!ReadEach(directories, <<>>, FilesStep))
  BY <1>1, <1>2, TreeFiles!ReadInduction
<1>4. Messages!FilesOf(directories) = TreeFiles!ReadEach(directories, <<>>, FilesStep)
  BY DEF Messages!FilesOf, Messages!ReadEach, TreeFiles!ReadEach, FilesStep
<1> QED BY <1>3, <1>4 DEF FilesSoFar

-----------------------------------------------------------------------------
(* Trees.                                                                   *)

\* What parseTree makes of one field.
TreeStep(acc, field) == IF Messages!Consumed(field) THEN Messages!TreeField(acc, field) ELSE {}

\* The hashes of the children of a tree.
ChildrenOf(data) == {Sum(data[i].message) : i \in Messages!At(data, 2)}

\* What was read of a tree, as a record.
TreeOf(directories, children, seen) ==
  [directories |-> directories, children |-> children, rootSeen |-> seen]

\* The references of the directories that a tree has.
ListsDirectories(directories, data) ==
  /\ directories \in Seq(RefLists)
  /\ \A directory \in Messages!ToSet(directories) :
       \E d \in Messages!Directories(data) : ListsNodes(directory, d)
  /\ \A d \in Messages!Directories(data) :
       \E directory \in Messages!ToSet(directories) : ListsNodes(directory, d)

\* The record holds the directories of the fields.
ListsTree(acc, data) ==
  \E directories, seen :
    /\ acc = TreeOf(directories, ChildrenOf(data), seen)
    /\ ListsDirectories(directories, data)
    /\ seen <=> Messages!At(data, 1) # {}

\* What was made of the fields that were read.
TreeSoFar(data, read) == \A acc \in read : ListsTree(acc, data)

Trees == INSTANCE ReadingProofs WITH Read <- TreeStep, ReadSoFar <- TreeSoFar

\* A tree with one more field.
TreeExtends(new, data, field) ==
  /\ Messages!Directories(new) =
       IF field.number \in {1, 2} THEN Messages!Directories(data) \cup {field.message}
                                  ELSE Messages!Directories(data)
  /\ ChildrenOf(new) =
       IF field.number = 2 THEN ChildrenOf(data) \cup {Sum(field.message)} ELSE ChildrenOf(data)
  /\ Messages!At(new, 1) = {} <=> Messages!At(data, 1) = {} /\ field.number # 1

\* What a field more changes in a tree.
LEMMA TreeExtended ==
  ASSUME NEW data \in Seq(Fields), NEW field \in Fields
  PROVE  TreeExtends(Append(data, field), data, field)
<1>0. PICK new : new = Append(data, field) OBVIOUS
<1>1. PICK last : AddedAt(new, data, field, last) BY <1>0, OneMoreField
<1>2. Extends(new, data, field) BY <1>0, FieldsOfNumber
<1>3. Messages!Directories(new) =
       IF field.number \in {1, 2} THEN Messages!Directories(data) \cup {field.message}
                                  ELSE Messages!Directories(data)
  <2>1. PICK old, at : /\ old = Messages!At(data, 1) \cup Messages!At(data, 2)
                       /\ at = Messages!At(new, 1) \cup Messages!At(new, 2)
    OBVIOUS
  <2>2. at = IF field.number \in {1, 2} THEN old \cup {last} ELSE old BY <1>1, <2>1 DEF AddedAt
  <2>3. new[last] = field /\ \A i \in old : new[i] = data[i] BY <1>1, <2>1 DEF AddedAt
  <2>4. \A m : m \in Messages!Directories(new) <=> \E i \in at : m = new[i].message
    BY <2>1 DEF Messages!Directories
  <2>5. \A m : m \in Messages!Directories(data) <=> \E i \in old : m = data[i].message
    BY <2>1 DEF Messages!Directories
  <2>6. CASE field.number \in {1, 2}
    <3>1. \A m : m \in Messages!Directories(new) <=> m \in Messages!Directories(data) \cup {field.message}
      BY <2>2, <2>3, <2>4, <2>5, <2>6
    <3>2. Messages!Directories(new) = Messages!Directories(data) \cup {field.message} BY <3>1
    <3> QED BY <2>6, <3>2
  <2>7. CASE field.number \notin {1, 2}
    <3>1. \A m : m \in Messages!Directories(new) <=> m \in Messages!Directories(data)
      BY <2>2, <2>3, <2>4, <2>5, <2>7
    <3>2. Messages!Directories(new) = Messages!Directories(data) BY <3>1
    <3> QED BY <2>7, <3>2
  <2> QED BY <2>6, <2>7
<1>4. ChildrenOf(new) =
       IF field.number = 2 THEN ChildrenOf(data) \cup {Sum(field.message)} ELSE ChildrenOf(data)
  <2>1. PICK old, at : old = Messages!At(data, 2) /\ at = Messages!At(new, 2) OBVIOUS
  <2>2. at = IF field.number = 2 THEN old \cup {last} ELSE old BY <1>1, <2>1 DEF AddedAt
  <2>3. new[last] = field /\ \A i \in old : new[i] = data[i] BY <1>1, <2>1 DEF AddedAt
  <2>4. \A r : r \in ChildrenOf(new) <=> \E i \in at : r = Sum(new[i].message)
    BY <2>1 DEF ChildrenOf
  <2>5. \A r : r \in ChildrenOf(data) <=> \E i \in old : r = Sum(data[i].message)
    BY <2>1 DEF ChildrenOf
  <2>6. CASE field.number = 2
    <3>1. \A r : r \in ChildrenOf(new) <=> r \in ChildrenOf(data) \cup {Sum(field.message)}
      BY <2>2, <2>3, <2>4, <2>5, <2>6
    <3>2. ChildrenOf(new) = ChildrenOf(data) \cup {Sum(field.message)} BY <3>1
    <3> QED BY <2>6, <3>2
  <2>7. CASE field.number # 2
    <3>1. \A r : r \in ChildrenOf(new) <=> r \in ChildrenOf(data) BY <2>2, <2>3, <2>4, <2>5, <2>7
    <3>2. ChildrenOf(new) = ChildrenOf(data) BY <3>1
    <3> QED BY <2>7, <3>2
  <2> QED BY <2>6, <2>7
<1> QED BY <1>0, <1>2, <1>3, <1>4 DEF TreeExtends, Extends

\* One directory more.
LEMMA DirectoryListed ==
  ASSUME NEW data, NEW new, NEW m, Messages!Directories(new) = Messages!Directories(data) \cup {m},
         NEW directories, ListsDirectories(directories, data), NEW directory, ListsNodes(directory, m)
  PROVE  ListsDirectories(Append(directories, directory), new)
<1>1. directory \in RefLists /\ directories \in Seq(RefLists) BY DEF ListsDirectories, ListsNodes
<1>2. PICK next : next = Append(directories, directory) OBVIOUS
<1>3. next \in Seq(RefLists) /\ Messages!ToSet(next) = Messages!ToSet(directories) \cup {directory}
  BY <1>1, <1>2, AppendedRef
<1> QED BY <1>2, <1>3 DEF ListsDirectories

\* What the visitor of trees reads.
LEMMA TreeReading ==
  ASSUME NEW data \in Seq(Fields)
  PROVE  TreeSoFar(data, Messages!visitWireFields(
           data, [directories |-> <<>>, children |-> {}, rootSeen |-> FALSE], Messages!TreeField))
<1> DEFINE start == [directories |-> <<>>, children |-> {}, rootSeen |-> FALSE]
<1>1. TreeSoFar(<<>>, {start})
  <2>1. PICK empty : empty = <<>> OBVIOUS
  <2>2. Messages!At(empty, 1) = {} /\ Messages!At(empty, 2) = {} BY <2>1, NoFields
  <2>3. Messages!Directories(empty) = {} /\ ChildrenOf(empty) = {}
    BY <2>2 DEF Messages!Directories, ChildrenOf
  <2>4. DOMAIN empty = {} /\ empty \in Seq(RefLists) BY <2>1
  <2>5. Messages!ToSet(empty) = {} BY <2>4 DEF Messages!ToSet
  <2>6. ListsDirectories(empty, empty) BY <2>3, <2>4, <2>5 DEF ListsDirectories
  <2>7. start = TreeOf(empty, ChildrenOf(empty), FALSE) BY <2>1, <2>3, Zenon DEF TreeOf
  <2>8. ListsTree(start, empty) BY <2>2, <2>6, <2>7 DEF ListsTree
  <2> QED BY <2>1, <2>8 DEF TreeSoFar
<1>2. ASSUME NEW read \in Seq(Fields), NEW field \in Fields, NEW before, TreeSoFar(read, before)
      PROVE  TreeSoFar(Append(read, field), UNION {TreeStep(acc, field) : acc \in before})
  <2>1. PICK new : new = Append(read, field) OBVIOUS
  <2>2. TreeExtends(new, read, field) BY <2>1, TreeExtended
  <2>3. ASSUME NEW acc \in before, NEW next \in TreeStep(acc, field)
        PROVE  ListsTree(next, new)
    <3>1. ListsTree(acc, read) BY <1>2 DEF TreeSoFar
    <3>2. PICK directories, seen :
            /\ acc = TreeOf(directories, ChildrenOf(read), seen)
            /\ ListsDirectories(directories, read)
            /\ seen <=> Messages!At(read, 1) # {}
      BY <3>1 DEF ListsTree
    <3>3. CASE field.number \notin {1, 2}
      <4>1. next = acc BY <2>3, <3>3 DEF TreeStep, Messages!TreeField
      <4>2. /\ Messages!Directories(new) = Messages!Directories(read)
            /\ ChildrenOf(new) = ChildrenOf(read)
            /\ Messages!At(new, 1) = {} <=> Messages!At(read, 1) = {}
        BY <2>2, <3>3 DEF TreeExtends
      <4>3. ListsDirectories(directories, new) BY <3>2, <4>2 DEF ListsDirectories
      <4> QED BY <3>2, <4>1, <4>2, <4>3 DEF ListsTree
    <3>4. CASE field.number \in {1, 2}
      <4>1. PICK children : children = ChildrenOf(read) OBVIOUS
      <4>2. acc.directories = directories /\ acc.children = children /\ acc.rootSeen = seen
        BY <3>2, <4>1, Zenon DEF TreeOf
      <4>3. PICK more : more = children \cup (IF field.number = 2 THEN {Sum(field.message)} ELSE {})
        OBVIOUS
      <4>4. PICK root : root = (acc.rootSeen \/ field.number = 1) OBVIOUS
      <4>5. PICK directory \in Messages!parseDirectory(field.message) :
              next = [directories |-> Append(directories, directory), children |-> more,
                      rootSeen |-> root]
        BY <2>3, <3>4, <4>2, <4>3, <4>4 DEF TreeStep, Messages!TreeField
      <4>7. next = TreeOf(Append(directories, directory), more, root) BY <4>5, Zenon DEF TreeOf
      <4>8. field.message \in Seq(Fields) BY FieldsAssumption
      <4>9. ListsNodes(directory, field.message) BY <4>5, <4>8, ParsedNodes
      <4>10. /\ Messages!Directories(new) = Messages!Directories(read) \cup {field.message}
             /\ ChildrenOf(new) = more
             /\ Messages!At(new, 1) = {} <=> Messages!At(read, 1) = {} /\ field.number # 1
        BY <2>2, <3>4, <4>1, <4>3 DEF TreeExtends
      <4>11. ListsDirectories(Append(directories, directory), new)
        BY <3>2, <4>9, <4>10, DirectoryListed
      <4>12. root <=> Messages!At(new, 1) # {}
        <5>1. root <=> seen \/ field.number = 1 BY <4>2, <4>4
        <5> QED BY <3>2, <4>10, <5>1
      <4> QED BY <4>7, <4>10, <4>11, <4>12 DEF ListsTree
    <3> QED BY <3>3, <3>4
  <2> QED BY <2>1, <2>3 DEF TreeSoFar
<1>3. TreeSoFar(data, Trees!ReadEach(data, start, TreeStep))
  <2> HIDE DEF start
  <2> QED BY <1>1, <1>2, Trees!ReadInduction
<1>4. Messages!visitWireFields(data, start, Messages!TreeField) = Trees!ReadEach(data, start, TreeStep)
  BY DEF Messages!visitWireFields, Messages!ReadEach, Trees!ReadEach, TreeStep
<1> QED BY <1>3, <1>4

\* parseTree accepts only closed trees, and returns all their files.
LEMMA ParsedTree ==
  ASSUME NEW data \in Seq(Fields)
  PROVE  Messages!ClosedTree(data, Messages!parseTree(data))
<1>1. PICK read : read = Messages!visitWireFields(
           data, [directories |-> <<>>, children |-> {}, rootSeen |-> FALSE], Messages!TreeField)
  OBVIOUS
<1>2. TreeSoFar(data, read) BY <1>1, TreeReading
<1>3. PICK returned : returned = Messages!parseTree(data) OBVIOUS
<1>4. returned = UNION {Messages!FilesOf(tree.directories) :
                        tree \in {t \in read : t.rootSeen /\ Messages!ChildrenPresent(t)}}
  BY <1>1, <1>3 DEF Messages!parseTree
<1>5. ASSUME NEW files \in returned
      PROVE  /\ Messages!At(data, 1) # {}
             /\ \A d \in Messages!Directories(data) :
                  Messages!Nodes(d, 2) \subseteq {Sum(data[i].message) : i \in Messages!At(data, 2)}
             /\ Messages!ToSet(files) =
                  UNION {Messages!Nodes(d, 1) : d \in Messages!Directories(data)}
             /\ Messages!Consistent(Messages!ToSet(files))
  <2>1. PICK tree \in read : /\ tree.rootSeen /\ Messages!ChildrenPresent(tree)
                             /\ files \in Messages!FilesOf(tree.directories)
    BY <1>4
  <2>2. PICK directories, seen :
          /\ tree = TreeOf(directories, ChildrenOf(data), seen)
          /\ ListsDirectories(directories, data)
          /\ seen <=> Messages!At(data, 1) # {}
    BY <1>2 DEF TreeSoFar, ListsTree
  <2>3. PICK children : children = ChildrenOf(data) OBVIOUS
  <2>4. tree.directories = directories /\ tree.children = children /\ tree.rootSeen = seen
    BY <2>2, <2>3, Zenon DEF TreeOf
  <2>5. Messages!At(data, 1) # {} BY <2>1, <2>2, <2>4
  <2>6. \A directory \in Messages!ToSet(directories) :
          Messages!ToSet(directory.directories) \subseteq children
    BY <2>1, <2>4 DEF Messages!ChildrenPresent, Messages!ToSet
  <2>7. \A d \in Messages!Directories(data) : Messages!Nodes(d, 2) \subseteq children
    BY <2>2, <2>6 DEF ListsDirectories, ListsNodes
  <2>8. /\ IsCollection(files)
        /\ Messages!ToSet(files) =
             UNION {Messages!ToSet(directory.files) : directory \in Messages!ToSet(directories)}
    BY <2>1, <2>2, <2>4, FilesCollected DEF ListsDirectories
  <2>9. \A r : r \in Messages!ToSet(files) <=>
                 \E d \in Messages!Directories(data) : r \in Messages!Nodes(d, 1)
    BY <2>2, <2>8 DEF ListsDirectories, ListsNodes
  <2>10. Messages!ToSet(files) = UNION {Messages!Nodes(d, 1) : d \in Messages!Directories(data)}
    BY <2>9
  <2>11. Messages!Consistent(Messages!ToSet(files)) BY <2>8, CollectionIsConsistent
  <2> QED BY <2>3, <2>5, <2>7, <2>10, <2>11 DEF ChildrenOf
<1> QED BY <1>3, <1>5 DEF Messages!ClosedTree

-----------------------------------------------------------------------------
(* The whole call: the parser's result is what the traversal works on.      *)

\* The trees and directories that a validation has visited could be parsed.
VisitedIsParsed ==
  Running => \A k \in Kinds \ {"blob"} : \A ref \in validated[k] : input.parses[ref.hash]

\* The references of the call are those of the action result, and nothing is
\* accepted without one; or it refers to the tree, and the tree to its files.
InputIsParsed ==
  /\ kind \in {"action result", "tree"}
  /\ kind = "action result" =>
       /\ input.refs = RefsOf(result)
       /\ result = {} => answer \in {"none", "invalid"}
  /\ kind = "tree" =>
       \E ref \in input.refs["tree"] :
         /\ input.parses[ref.hash] = (result # {})
         /\ input.files[ref.hash] = UNION {Elements(files) : files \in result}

\* The parser has run on the bytes of the call.
ResultIsParsed ==
  /\ message \in Seq(Fields)
  /\ result = IF kind = "tree" THEN Messages!parseTree(message)
                              ELSE Messages!parseActionResult(message)

\* The inductive invariant of the call.
ReceivedInv == ValidationInv /\ VisitedIsParsed /\ InputIsParsed /\ ResultIsParsed

\* The files of a message that could not be parsed are none.
LEMMA ReceivedInitially == ReceivedInit => ReceivedInv
<1> SUFFICES ASSUME ReceivedInit PROVE ReceivedInv OBVIOUS
<1>1. Init BY DEF ReceivedInit
<1>2. ValidationInv BY <1>1, ValidationInit
<1>3. VisitedIsParsed BY <1>1 DEF Init, VisitedIsParsed
<1>4. PICK c \in Cases, persisted \in BOOLEAN :
        /\ kind = c.kind /\ message = c.message /\ result = Parse(c)
        /\ input = InputOf(c, result, persisted)
  BY DEF ReceivedInit
<1>5. /\ c.kind \in {"action result", "tree"} /\ c.objects \in Inputs /\ c.message \in Seq(Fields)
      /\ c.kind = "tree" => \E ref \in c.objects.refs["tree"] : ref.hash = c.tree
  BY CasesAssumption
<1>6. ResultIsParsed BY <1>4, <1>5 DEF ResultIsParsed, Parse
<1>7. CASE kind = "action result"
  <2>1. input = [c.objects EXCEPT !.requirePersisted = persisted, !.refs = RefsOf(result)]
    BY <1>4, <1>7 DEF InputOf
  <2>2. input.refs = RefsOf(result) BY <1>5, <2>1 DEF Inputs
  <2>3. answer = "none" BY <1>1 DEF Init
  <2> QED BY <1>2, <1>3, <1>6, <1>7, <2>2, <2>3 DEF ReceivedInv, InputIsParsed
<1>8. CASE kind = "tree"
  <2> DEFINE found == UNION {Elements(files) : files \in result}
             parses == [c.objects.parses EXCEPT ![c.tree] = result # {}]
             contents == [c.objects.files EXCEPT ![c.tree] = found]
  <2>1. input = [c.objects EXCEPT !.requirePersisted = persisted,
                                  !.parses[c.tree] = result # {},
                                  !.files[c.tree] = found]
    BY <1>4, <1>8 DEF InputOf
  <2>2. PICK ref \in c.objects.refs["tree"] : ref.hash = c.tree BY <1>4, <1>5, <1>8
  <2>3. /\ c.objects.refs["tree"] \in SUBSET Refs
        /\ c.objects.parses \in [Hashes -> BOOLEAN]
        /\ c.objects.files \in [Hashes -> SUBSET Refs]
    BY <1>5, KindsAre DEF Inputs
  <2>4. ref.hash \in Hashes BY <2>2, <2>3 DEF Refs
  <2>5. input.refs = c.objects.refs /\ input.parses = parses /\ input.files = contents
    BY <1>5, <2>1 DEF Inputs
  <2>6. parses[ref.hash] = (result # {}) /\ contents[ref.hash] = found
    BY <2>2, <2>3, <2>4
  <2>7. /\ ref \in input.refs["tree"] /\ input.parses[ref.hash] = (result # {})
        /\ input.files[ref.hash] = found
    BY <2>2, <2>5, <2>6
  <2> QED BY <1>2, <1>3, <1>6, <1>8, <2>7 DEF ReceivedInv, InputIsParsed
<1> QED BY <1>4, <1>5, <1>7, <1>8

\* A visit that goes on has parsed what it loaded.
LEMMA ParsedStep ==
  ASSUME ValidationInv, VisitedIsParsed, Validate
  PROVE  VisitedIsParsed'
<1> SUFFICES ASSUME Running' PROVE VisitedIsParsed' BY DEF VisitedIsParsed
<1>1. input' = input /\ Running
  BY DEF Validate, Skip, Refuse, LimitExceeded, Incomplete, BackendError, Malformed,
         VisitContainer, VisitBlob, Accept, Load, Remember, Turn, Running
<1>2. \A k \in Kinds \ {"blob"} : \A ref \in validated'[k] :
        ref \in validated[k] \/ input.parses[ref.hash]
  <2>0. validated \in [Kinds -> SUBSET Refs] BY DEF ValidationInv, TypeOK
  <2>1. ASSUME NEW k \in Kinds, NEW ref \in pending[k],
               \/ Skip(k, ref) \/ Refuse(k, ref) \/ LimitExceeded(k, ref)
               \/ Incomplete(k, ref) \/ BackendError(k, ref) \/ Malformed(k, ref)
        PROVE  validated' = validated
    BY <2>1 DEF Skip, Refuse, LimitExceeded, Incomplete, BackendError, Malformed, Finish,
                Running
  <2>2. ASSUME NEW k \in Kinds, NEW ref \in pending[k], VisitContainer(k, ref)
        PROVE  validated' = [validated EXCEPT ![k] = @ \cup {ref}] /\ input.parses[ref.hash]
    BY <2>2 DEF VisitContainer, Load, Remember
  <2>3. ASSUME NEW ref \in pending["blob"], VisitBlob(ref)
        PROVE  validated' = [validated EXCEPT !["blob"] = @ \cup {ref}]
    BY <2>3 DEF VisitBlob, Remember
  <2>4. Accept => validated' = validated BY DEF Accept
  <2> QED BY <2>0, <2>1, <2>2, <2>3, <2>4 DEF Validate
<1> QED BY <1>1, <1>2 DEF VisitedIsParsed

\* The steps of the call, and of the others.
LEMMA ReceivedStep == ReceivedInv /\ [ReceivedNext]_<<vars, messageVars>> => ReceivedInv'
<1> SUFFICES ASSUME ReceivedInv, [ReceivedNext]_<<vars, messageVars>> PROVE ReceivedInv'
  OBVIOUS
<1>0. ValidationInv /\ VisitedIsParsed /\ InputIsParsed /\ ResultIsParsed BY DEF ReceivedInv
<1>1. UNCHANGED messageVars BY DEF ReceivedNext
<1>2. ResultIsParsed' BY <1>0, <1>1 DEF ResultIsParsed, messageVars
<1>3. CASE RefuseResult
  <2>1. /\ answer' = "invalid"
        /\ UNCHANGED <<input, pending, validated, validatedObjects, closure, missing, spool,
                       backend, lost>>
    BY <1>3 DEF RefuseResult, Finish
  <2>2. ValidationInv'
    BY <1>0, <2>1 DEF ValidationInv, TypeOK, NothingForgotten, VisitedIsFound, AcceptedAtEnd,
              LimitKept, OnlyReferences, VisitedIsFinite, OncePerObject, Running, References
  <2>3. VisitedIsParsed' /\ InputIsParsed'
    BY <1>0, <1>1, <2>1 DEF VisitedIsParsed, Running, InputIsParsed, messageVars
  <2> QED BY <1>2, <2>2, <2>3 DEF ReceivedInv
<1>4. CASE ValidateResult
  <2>1. Validate /\ (kind = "action result" => result # {}) BY <1>4 DEF ValidateResult
  <2>2. ValidationInv' BY <1>0, <2>1, ValidationStep DEF Next
  <2>3. VisitedIsParsed' BY <1>0, <2>1, ParsedStep
  <2>4. input' = input
    BY <2>1 DEF Validate, Skip, Refuse, LimitExceeded, Incomplete, BackendError, Malformed,
           VisitContainer, VisitBlob, Accept
  <2>5. InputIsParsed' BY <1>0, <1>1, <2>1, <2>4 DEF InputIsParsed, messageVars
  <2> QED BY <1>2, <2>2, <2>3, <2>5 DEF ReceivedInv
<1>5. CASE Disturb \/ UNCHANGED vars
  <2>1. ValidationInv' BY <1>0, <1>5, ValidationStep DEF Next, Disturb
  <2>2. UNCHANGED <<input, validated, answer>>
    BY <1>5 DEF Disturb, Upload, Save, Evict, vars, progress
  <2>3. VisitedIsParsed' /\ InputIsParsed'
    BY <1>0, <1>1, <2>2 DEF VisitedIsParsed, Running, InputIsParsed, messageVars
  <2> QED BY <1>2, <2>1, <2>3 DEF ReceivedInv
<1> QED BY <1>3, <1>4, <1>5 DEF ReceivedNext, Call

\* What holds of the parsers for every message holds of the call's.
LEMMA MessageIsParsed == ReceivedInv => ExactReferences /\ TreeIsClosed
<1> SUFFICES ASSUME ReceivedInv PROVE ExactReferences /\ TreeIsClosed OBVIOUS
<1>1. message \in Seq(Fields) BY DEF ReceivedInv, ResultIsParsed
<1>2. ASSUME kind = "action result" PROVE result = Messages!parseActionResult(message)
  BY <1>2 DEF ReceivedInv, ResultIsParsed
<1>3. ASSUME kind = "tree" PROVE result = Messages!parseTree(message)
  BY <1>3 DEF ReceivedInv, ResultIsParsed
<1>4. ExactReferences BY <1>1, <1>2, ParsedResult DEF ExactReferences
<1>5. TreeIsClosed BY <1>1, <1>3, ParsedTree DEF TreeIsClosed
<1> QED BY <1>4, <1>5

\* What the bytes name was visited or needs no visit.
LEMMA NamedIsVisited ==
  ASSUME ReceivedInv, answer = "ok", NEW k \in Kinds
  PROVE  Named[k] \subseteq validated[k] \cup Free(k)
<1>0. ValidationInv /\ VisitedIsParsed /\ InputIsParsed /\ Running BY DEF ReceivedInv, Running
<1> DEFINE visited == [x \in Kinds |-> IF x = "blob"
                                       THEN validated[x] \cup {r \in Refs : Implicit(r)}
                                       ELSE validated[x]]
<1>1. \A x \in Kinds : visited[x] = validated[x] \cup Free(x) BY DEF Free
<1>2. Closed(visited) BY <1>0, NothingLeftMeansComplete DEF AcceptedIsComplete
<1> HIDE DEF visited
<1>3. CASE kind = "action result"
  <2>1. result # {} /\ input.refs = RefsOf(result) BY <1>0, <1>3 DEF InputIsParsed
  <2>2. PICK parsed \in result : TRUE BY <2>1
  <2>3. /\ Elements(parsed.blobs) = Messages!BlobsOf(message)
        /\ Elements(parsed.trees) = Messages!OutputsOf(message, 3)
        /\ Elements(parsed.directories) = Messages!OutputsOf(message, 5)
    BY <1>3, <2>2, MessageIsParsed DEF ExactReferences, Messages!ReferencesOf, Messages!AsSets, Messages!ToSet,
                      Elements
  <2>4. Named[k] \subseteq RefsOf(result)[k]
    <3>1. CASE k = "blob" BY <1>3, <2>2, <2>3, <3>1, KindsAre DEF Named, RefsOf
    <3>2. CASE k = "tree" BY <1>3, <2>2, <2>3, <3>2, KindsAre DEF Named, RefsOf
    <3>3. CASE k = "directory" BY <1>3, <2>2, <2>3, <3>3, KindsAre DEF Named, RefsOf
    <3> QED BY <3>1, <3>2, <3>3 DEF Kinds
  <2> QED BY <1>1, <1>2, <2>1, <2>4 DEF Closed
<1>4. CASE kind = "tree"
  <2>1. PICK ref \in input.refs["tree"] :
          /\ input.parses[ref.hash] = (result # {})
          /\ input.files[ref.hash] = UNION {Elements(files) : files \in result}
    BY <1>0, <1>4 DEF InputIsParsed
  <2>2. ref \in validated["tree"] BY <1>1, <1>2, <2>1, KindsAre DEF Closed, Free
  <2>3. PICK files \in result : TRUE BY <1>0, <2>1, <2>2, KindsAre DEF VisitedIsParsed
  <2>4. Elements(files) =
          UNION {Messages!Nodes(d, 1) : d \in Messages!Directories(message)}
    BY <1>4, <2>3, MessageIsParsed DEF TreeIsClosed, Messages!ClosedTree, Messages!ToSet, Elements
  <2>5. References("tree", ref.hash)["blob"] = input.files[ref.hash] BY KindsAre DEF References
  <2>6. Elements(files) \subseteq visited["blob"]
    BY <1>1, <1>2, <2>1, <2>2, <2>3, <2>5, KindsAre DEF Closed
  <2>7. Named[k] \subseteq IF k = "blob" THEN Elements(files) ELSE {}
    BY <1>4, <2>4, KindsAre DEF Named, NoneOf
  <2> QED BY <1>1, <2>6, <2>7
<1> QED BY <1>0, <1>3, <1>4 DEF InputIsParsed

-----------------------------------------------------------------------------

\* The invariant holds throughout every call.
THEOREM ReceivedInvariant == ReceivedSpec => []ReceivedInv
BY ReceivedInitially, ReceivedStep, PTL DEF ReceivedSpec

\* What holds of the traversal holds of the call: nothing is accepted before
\* everything it refers to was visited.
THEOREM ReceivedResultsAreComplete == ReceivedSpec => []AcceptedIsComplete
<1>1. ReceivedInv => AcceptedIsComplete BY NothingLeftMeansComplete DEF ReceivedInv
<1> QED BY <1>1, ReceivedInvariant, PTL

\* Of a call, too: every object once in each role, with one size.
THEOREM ReceivedObjectsOnce == ReceivedSpec => []OncePerObject
<1>1. ReceivedInv => OncePerObject BY DEF ReceivedInv, ValidationInv
<1> QED BY <1>1, ReceivedInvariant, PTL

\* parseActionResult returns exactly what an action result refers to, and
\* refuses exactly those that are malformed or contradict themselves, whatever
\* the fields, their number and their order.
THEOREM ReferencesAreExact == ReceivedSpec => []ExactReferences
<1>1. ReceivedInv => ExactReferences BY MessageIsParsed
<1> QED BY <1>1, ReceivedInvariant, PTL

\* parseTree accepts closed trees only and returns all their files, whatever the
\* number and the order of the directories.
THEOREM TreesAreClosed == ReceivedSpec => []TreeIsClosed
<1>1. ReceivedInv => TreeIsClosed BY MessageIsParsed
<1> QED BY <1>1, ReceivedInvariant, PTL

\* validateActionResultClosure accepts a result only when every object that its
\* bytes name was found.
THEOREM NamedObjectsAreFound == ReceivedSpec => []AcceptedNamesOnlyFound
<1>1. ASSUME ReceivedInv PROVE AcceptedNamesOnlyFound
  <2> SUFFICES ASSUME answer = "ok", NEW k \in Kinds, NEW ref \in Named[k]
               PROVE  \/ k = "blob" /\ ref = EmptyRef
                      \/ /\ ref \in validated[k]
                         /\ ref = EmptyRef \/ ref.hash \in closure
                         /\ ref.hash \in backend \cup lost
                                          \cup (IF RequirePersisted THEN {} ELSE spool)
    BY DEF AcceptedNamesOnlyFound
  <2>1. ref \in validated[k] \cup Free(k) BY <1>1, NamedIsVisited
  <2>2. validated[k] \subseteq Refs BY <1>1 DEF ReceivedInv, ValidationInv, TypeOK
  <2>3. ASSUME NEW r \in Refs, Implicit(r) PROVE r = EmptyRef
    BY <2>3 DEF Implicit, EmptyRef, Refs
  <2>4. CASE ref \in Free(k)
    BY <2>3, <2>4 DEF Free
  <2>5. CASE ref \in validated[k]
    BY <1>1, <2>2, <2>3, <2>5 DEF ReceivedInv, ValidationInv, VisitedIsFound, Running
  <2> QED BY <2>1, <2>4, <2>5
<1> QED BY <1>1, ReceivedInvariant, PTL
=============================================================================
