------------------------------- MODULE Discovery -------------------------------
(***************************************************************************)
(* What a server in packed mode knows after it was started                 *)
(* (internal/server/pack_store.go, discover): Catalog lists the keys,      *)
(* ManifestFormat reads the entries and merges them, and the server's own  *)
(* manifests follow.  The k-th entry that is created in the cache has the  *)
(* k-th content.                                                           *)
(***************************************************************************)
EXTENDS Catalog

CONSTANTS
  NodeOf(_), CIDOf(_), KeyCID(_), OwnPacks,
  MaxParents, MaxPacks, MaxCAS, MaxActions,  \* of ManifestFormat
  Uploads     \* sequences of entries that jobs may upload

VARIABLES
  uploads,    \* does not change
  phase, index, unmerged, unsaved, applied, written

Manifests == INSTANCE ManifestFormat

\* A list of strings; each string has a rank.
Ranked(texts) ==
  /\ Len(texts) \in Nat /\ DOMAIN texts = 1..Len(texts)
  /\ \A i \in DOMAIN texts : texts[i][2] \in Nat

(* A list of a node is a sequence, a hash is a CID, and a job that uploads   *)
(* entries uploads some number of them.                                     *)
ASSUME UploadsAssumption ==
  \A stored \in Uploads :
    /\ Len(stored) \in Nat /\ DOMAIN stored = 1..Len(stored)
    /\ \A k \in 1..Len(stored) :
         /\ Manifests!validCID(CIDOf(stored[k])) /\ CIDOf(stored[k])[2] \in Nat
         /\ \A m \in Manifests!decodeManifest(stored[k]) :
              /\ \A i \in DOMAIN m.Packs : m.Packs[i].Key[2] \in Nat
              /\ \A i \in DOMAIN m.CAS : m.CAS[i].PackID[2] \in Nat
              /\ \A i \in DOMAIN m.Actions : Ranked(m.Actions[i].ClosurePacks)
              /\ Ranked(m.Parents) /\ Ranked(Manifests!Column(m.Packs, "ID"))
              /\ Ranked(Manifests!Column(m.CAS, "Digest"))
              /\ Ranked(Manifests!Column(m.Actions, "Digest"))

(* buildPackLocked: a pack has a key of its own and a header, and a batch    *)
(* is selected out of maps whose keys are the digests of finite closures.    *)
ASSUME OwnPacksAssumption ==
  \A own \in OwnPacks :
    /\ own.pack = [ID |-> own.pack.ID, Key |-> own.pack.Key, Size |-> own.pack.Size]
    /\ Manifests!IsDigest(own.pack.ID)
    /\ own.pack.Size > 0 /\ own.pack.ID[2] \in Nat /\ own.pack.Key[2] \in Nat
    /\ Manifests!IsPackKey(own.pack.Key, own.pack.ID)
    /\ Manifests!validCID(own.cid) /\ own.cid[2] \in Nat
    /\ Ranked(Manifests!Column(own.cas, "Digest"))
    /\ Ranked(Manifests!Column(own.actions, "Digest"))
    /\ \A i \in DOMAIN own.cas : Manifests!IsDigest(own.cas[i].Digest) /\ own.cas[i].Size >= 0
    /\ \A i \in DOMAIN own.actions :
         /\ Manifests!IsDigest(own.actions[i].Digest) /\ own.actions[i].Size >= 0
         /\ Manifests!validCID(own.actions[i].CID)
         /\ IsFiniteSet(own.actions[i].closure)
    /\ \A i, j \in DOMAIN own.cas : own.cas[i].Digest = own.cas[j].Digest => i = j
    /\ \A i, j \in DOMAIN own.actions :
         own.actions[i].Digest = own.actions[j].Digest => i = j

indexVars == <<phase, index, unmerged, unsaved, applied, written>>

StartInit ==
  /\ uploads \in Uploads
  /\ Init
  /\ created <= Len(uploads)
  /\ Manifests!Init

List ==
  /\ result = "listing"
  /\ Create \/ Evict \/ Restore \/ ReadPage \/ RequestFails
  /\ created' <= Len(uploads)
  /\ UNCHANGED <<uploads, indexVars>>

\* What was listed; after an error a server that fails open starts empty.
Listed == IF result = "ok" THEN {uploads[k] : k \in keys} ELSE {}

\* A manifest that cannot be loaded is ignored.  The listing is not looked at
\* any more.
Load ==
  /\ result # "listing"
  /\ \E loaded \in SUBSET Listed : Manifests!Discover(loaded)
  /\ entries' = <<>> /\ present' = {} /\ jumped' = {} /\ keys' = {} /\ read' = 0
  /\ created' = 0 /\ evictions' = 0 /\ restores' = 0 /\ page' = 1
  /\ UNCHANGED <<uploads, result>>

Merge == Manifests!MergeNext /\ UNCHANGED <<uploads, vars>>

Flush == Manifests!Write /\ UNCHANGED <<uploads, vars>>

StartNext == List \/ Load \/ Merge \/ Flush

StartSpec == StartInit /\ [][StartNext]_<<uploads, vars, indexVars>>

-----------------------------------------------------------------------------
(* The properties of ManifestFormat, for what was listed and loaded. *)

\* Every entry of the index can be looked up to its end, whatever was stored
\* under the listed keys, and has the digest and a size that it is found under.
IndexIsClosed == Manifests!IndexTypes /\ Manifests!IndexIsClosed

\* The index does not depend on the order of the listing, of the loads or of
\* the own manifests.
IndexIsMerge == Manifests!IndexIsMerge

\* What is read or written is encoded in one way only, and read back unchanged.
RoundTrip == Manifests!RoundTrip

\* What this server writes is accepted by those who read it.
WrittenIsReadable == Manifests!WrittenIsReadable
=============================================================================
