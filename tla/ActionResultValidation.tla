------------------------ MODULE ActionResultValidation ------------------------
(***************************************************************************)
(* validateActionResultClosure (internal/server/                           *)
(* action_result_validation.go): the blobs, trees and directories that an  *)
(* action result refers to are visited one after the other, while uploads  *)
(* and evictions go on.  Blobs are looked up; trees and directories are    *)
(* loaded, and bring further references.                                   *)
(*                                                                         *)
(* The messages are parsed (see ReapiMessages): a reference has a hash and *)
(* a declared size.  Lists are sets here, so every order of a loop occurs; *)
(* the blobs of a message come before its other references, and the files  *)
(* of a tree or a directory before the next one.                           *)
(***************************************************************************)
EXTENDS Naturals, FiniteSets

CONSTANTS
  Hashes,            \* digests
  Sizes,             \* declared and actual sizes
  EmptyHash,         \* emptySHA256Digest
  MaxObjects,        \* maxActionResultObjects
  Changing           \* bound: the objects that come and go during the validation

Kinds == {"blob", "tree", "directory"}
Refs == [hash : Hashes, size : Sizes]

\* requirePersisted of the call: set for a publication in objects mode.  The
\* references of an action result; of each object, its size, whether it is a
\* well-formed message, and the references in it.
Inputs ==
  [requirePersisted : BOOLEAN,
   refs : [Kinds -> SUBSET Refs],
   size : [Hashes -> Sizes],
   parses : [Hashes -> BOOLEAN],
   files : [Hashes -> SUBSET Refs],
   directories : [Hashes -> SUBSET Refs]]

ASSUME ValidationAssumption ==
  /\ EmptyHash \in Hashes
  /\ 0 \in Sizes
  /\ MaxObjects \in Nat
  /\ Changing \subseteq Hashes

VARIABLES
  input,             \* the call and what it finds; does not change
  pending,           \* by kind: references that the loops have still to visit
  validated,         \* by kind: validatedBlobs, validatedTrees, validatedDirectories
  validatedObjects,  \* the counter of reserveObject
  closure,           \* what collect puts into the closure, when it is asked for
  missing,           \* the hash of missingCASObject
  answer,            \* what the validation returned
  spool, backend,    \* objects in the server and in the cache service
  lost               \* history: objects evicted while the validation ran

progress == <<pending, validated, validatedObjects, closure, missing, answer>>
vars == <<input, progress, spool, backend, lost>>

Init ==
  /\ input \in Inputs
  /\ pending = input.refs
  /\ validated = [k \in Kinds |-> {}]
  /\ validatedObjects = 0
  /\ closure = {}
  /\ missing = {}
  /\ answer = "none"
  /\ spool = {} /\ lost = {}
  /\ backend \in SUBSET Hashes

-----------------------------------------------------------------------------
(* rememberDigest and the order of the loops.                               *)

\* Mutant: an object that is declared empty needs no visit, whatever its hash.
ImplicitMutant(ref) == ref.size = 0

Implicit(ref) == ref.hash = EmptyHash /\ ref.size = 0

\* The next reference of kind k may be visited.
Turn(k, ref) ==
  /\ answer = "none"
  /\ ref \in pending[k]
  /\ k \in {"tree", "directory"} => pending["blob"] = {}
  /\ k = "directory" => pending["tree"] = {}

\* Mutant: the digests visited before are not remembered.
SeenMutant(k, ref) == FALSE

Seen(k, ref) == ref \in validated[k]

Conflict(k, ref) == \E r \in validated[k] : r.hash = ref.hash /\ r.size # ref.size

Done(k, ref) == [pending EXCEPT ![k] = @ \ {ref}]

\* Nothing to do: the reference was visited before, or is the empty blob.
Skip(k, ref) ==
  /\ Turn(k, ref)
  /\ Seen(k, ref) \/ (k = "blob" /\ Implicit(ref))
  /\ pending' = Done(k, ref)
  /\ UNCHANGED <<input, validated, validatedObjects, closure, missing, answer, spool,
                 backend, lost>>

Finish(a) == answer' = a /\ UNCHANGED pending

\* One hash with two sizes.
Refuse(k, ref) ==
  /\ Turn(k, ref)
  /\ ~ (k = "blob" /\ Implicit(ref))
  /\ Conflict(k, ref)
  /\ Finish("invalid")
  /\ UNCHANGED <<input, validated, validatedObjects, closure, missing, spool, backend,
                 lost>>

\* The reference is new; it is remembered and counted.
Remember(k, ref) ==
  /\ Turn(k, ref)
  /\ ~ (k = "blob" /\ Implicit(ref))
  /\ ~ Seen(k, ref) /\ ~ Conflict(k, ref)
  /\ validated' = [validated EXCEPT ![k] = @ \cup {ref}]
  /\ validatedObjects' = validatedObjects + 1

WithinLimit == validatedObjects < MaxObjects

Collect(ref) ==
  closure' = IF Implicit(ref) THEN closure ELSE closure \cup {ref.hash}

\* A tree or a directory is collected before reserveObject, a blob after it.
LimitExceeded(k, ref) ==
  /\ Remember(k, ref)
  /\ ~ WithinLimit
  /\ Finish("invalid")
  /\ IF k = "blob" THEN UNCHANGED closure ELSE Collect(ref)
  /\ UNCHANGED <<input, missing, spool, backend, lost>>

-----------------------------------------------------------------------------
(* casExists and loadCAS.                                                   *)

RequirePersisted == input.requirePersisted

Found(h) == h \in backend \/ (~ RequirePersisted /\ h \in spool)

\* The object cannot be found.
Incomplete(k, ref) ==
  /\ Remember(k, ref)
  /\ WithinLimit
  /\ Collect(ref)
  /\ ~ Found(ref.hash)
  /\ missing' = {ref.hash}
  /\ Finish("incomplete")
  /\ UNCHANGED <<input, spool, backend, lost>>

\* The cache service fails; the spool alone needs no service.
BackendError(k, ref) ==
  /\ Remember(k, ref)
  /\ WithinLimit
  /\ Collect(ref)
  /\ RequirePersisted \/ ref.hash \notin spool
  /\ Finish("error")
  /\ UNCHANGED <<input, missing, spool, backend, lost>>

VisitBlob(ref) ==
  /\ Remember("blob", ref)
  /\ WithinLimit
  /\ Collect(ref)
  /\ Found(ref.hash)
  /\ pending' = Done("blob", ref)
  /\ UNCHANGED <<input, missing, answer, spool, backend, lost>>

\* resolve has the object: the part of a visit that trees and directories share.
Load(k, ref) ==
  /\ Remember(k, ref)
  /\ WithinLimit
  /\ Collect(ref)
  /\ Found(ref.hash)
  /\ spool' = spool \cup {ref.hash}

\* The declared size is wrong, or the message cannot be parsed.
Malformed(k, ref) ==
  /\ k # "blob"
  /\ Load(k, ref)
  /\ input.size[ref.hash] # ref.size \/ ~ input.parses[ref.hash]
  /\ Finish("invalid")
  /\ UNCHANGED <<input, missing, backend, lost>>

\* Mutant: subdirectories are not followed.
QueuedMutant(k, h) == {}

\* A Tree contains its directories, a Directory refers to them.
Queued(k, h) == IF k = "directory" THEN input.directories[h] ELSE {}

VisitContainer(k, ref) ==
  /\ k # "blob"
  /\ Load(k, ref)
  /\ input.size[ref.hash] = ref.size /\ input.parses[ref.hash]
  /\ pending' = [Done(k, ref) EXCEPT !["blob"] = input.files[ref.hash],
                                     !["directory"] = @ \cup Queued(k, ref.hash)]
  /\ UNCHANGED <<input, missing, answer, backend, lost>>

Accept ==
  /\ answer = "none"
  /\ \A k \in Kinds : pending[k] = {}
  /\ Finish("ok")
  /\ UNCHANGED <<input, validated, validatedObjects, closure, missing, spool, backend,
                 lost>>

-----------------------------------------------------------------------------
(* Other requests, other jobs, and the cache service, until the answer.     *)

Upload(h) ==
  /\ answer = "none"
  /\ spool' = spool \cup {h}
  /\ UNCHANGED <<input, progress, backend, lost>>

Save(h) ==
  /\ answer = "none"
  /\ backend' = backend \cup {h}
  /\ UNCHANGED <<input, progress, spool, lost>>

Evict(h) ==
  /\ answer = "none"
  /\ h \in backend
  /\ backend' = backend \ {h}
  /\ lost' = lost \cup {h}
  /\ UNCHANGED <<input, progress, spool>>

Validate ==
  \/ \E k \in Kinds : \E ref \in pending[k] :
       \/ Skip(k, ref) \/ Refuse(k, ref) \/ LimitExceeded(k, ref) \/ Incomplete(k, ref)
       \/ BackendError(k, ref) \/ Malformed(k, ref) \/ VisitContainer(k, ref)
  \/ \E ref \in pending["blob"] : VisitBlob(ref)
  \/ Accept

Next ==
  \/ Validate
  \/ \E h \in Changing : Upload(h) \/ Save(h) \/ Evict(h)

Spec == Init /\ [][Next]_vars

-----------------------------------------------------------------------------
(* Properties.                                                              *)

\* Type invariant.
TypeOK ==
  /\ input \in Inputs
  /\ pending \in [Kinds -> SUBSET Refs]
  /\ validated \in [Kinds -> SUBSET Refs]
  /\ validatedObjects \in 0..(MaxObjects + 1)
  /\ closure \in SUBSET Hashes
  /\ missing \in SUBSET Hashes
  /\ answer \in {"none", "ok", "incomplete", "invalid", "error"}
  /\ spool \in SUBSET Hashes /\ backend \in SUBSET Hashes /\ lost \in SUBSET Hashes

\* What object h, met as kind k, refers to.
References(k, h) ==
  [x \in Kinds |->
     IF x = "blob" /\ k # "blob" THEN input.files[h]
     ELSE IF x = "directory" /\ k = "directory" THEN input.directories[h] ELSE {}]

\* A set of references by kind that contains those of the action result and,
\* with a tree or a directory, everything it refers to.
Closed(visited) ==
  /\ \A k \in Kinds : input.refs[k] \subseteq visited[k]
  /\ \A k, x \in Kinds : \A ref \in visited[k] :
       References(k, ref.hash)[x] \subseteq visited[x]

\* An accepted result was visited completely: everything it refers to, at any
\* depth and with the size it is declared with, was validated or is the empty
\* blob, and is part of the closure that is staged with the result.
AcceptedIsComplete ==
  answer = "ok" =>
    /\ Closed([k \in Kinds |-> IF k = "blob" THEN validated[k] \cup {r \in Refs : Implicit(r)}
                                            ELSE validated[k]])
    /\ \A k \in Kinds : \A ref \in validated[k] : Implicit(ref) \/ ref.hash \in closure

\* Nothing is demanded that the result does not refer to: a result is never
\* found incomplete because of an unrelated object, and what is pending or
\* validated belongs to the result or to a tree or directory visited before.
OnlyReferences ==
  /\ \A x \in Kinds : \A ref \in pending[x] \cup validated[x] :
       \/ ref \in input.refs[x]
       \/ \E k \in Kinds : \E r \in validated[k] : ref \in References(k, r.hash)[x]
  /\ \A h \in missing : \E k \in Kinds : \E ref \in validated[k] : ref.hash = h

\* Every object of an accepted result is there, or was evicted while the
\* validation ran; for a publication it is in the cache service.
AcceptedIsAvailable ==
  answer = "ok" =>
    \A k \in Kinds : \A ref \in validated[k] :
      ref.hash \in backend \cup lost \cup (IF RequirePersisted THEN {} ELSE spool)

\* An object is visited once in each role, with one size, and counted once:
\* the limit is on "distinct validation operations" (README).
OncePerObject ==
  /\ \A k \in Kinds : \A r, s \in validated[k] : r.hash = s.hash => r = s
  /\ validatedObjects = Cardinality(validated["blob"]) + Cardinality(validated["tree"])
                        + Cardinality(validated["directory"])
=============================================================================
