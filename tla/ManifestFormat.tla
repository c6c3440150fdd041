---------------------------- MODULE ManifestFormat ----------------------------
(***************************************************************************)
(* The manifest as it is stored (internal/server/manifest.go): what a      *)
(* reader accepts, what a writer encodes, and the index that a server      *)
(* merges out of the manifests it reads and writes (pack_store.go).        *)
(*                                                                         *)
(* A DAG-CBOR node is a kind and a value; a string is a pair of a tag and  *)
(* a number, which is also its rank where strings are sorted.  Encoding a  *)
(* node and hashing the bytes are injective, so a CID names the node.  An  *)
(* optional value is a set of at most one element.                         *)
(***************************************************************************)
EXTENDS Integers, FiniteSets, Sequences, SequencesExt

CONSTANTS
  NodeOf(_),    \* the node that an entry of the cache decodes to
  CIDOf(_),     \* the CID of the bytes of an entry
  KeyCID(_),    \* the CID in its key
  OwnPacks,     \* packs that this server may write, with their objects and actions
  MaxParents, MaxPacks, MaxCAS, MaxActions  \* the limits of validate

VARIABLES
  phase,    \* "listing", and "listed" when the manifests are loaded
  index,    \* the maps of packStore: packs, cas, actions, actionConflicts, heads
  unmerged, \* entries that were loaded and are not in the index yet
  unsaved,  \* members of OwnPacks that were not written yet
  applied,  \* history: the manifests in the index
  written   \* history: what was written last, at most one

vars == <<phase, index, unmerged, unsaved, applied, written>>

Text(x) == [kind |-> "string", value |-> x]
Int64(n) == [kind |-> "int", value |-> n]
List(items) == [kind |-> "list", value |-> items]
Map(fields) == [kind |-> "map", value |-> fields]

Precedes(x, y) == x[2] < y[2]

\* How many items come first, up to the k-th, when they are sorted by name.
Place(names, k) ==
  Cardinality({j \in DOMAIN names :
                 \/ Precedes(names[j], names[k])
                 \/ names[j][2] = names[k][2] /\ j <= k})

InOrder(items, names) ==
  [i \in DOMAIN items |-> items[CHOOSE k \in DOMAIN names : Place(names, k) = i]]

Column(items, field) == [i \in DOMAIN items |-> items[i][field]]
SortedBy(items, field) == InOrder(items, Column(items, field))
SortedTexts(texts) == InOrder(texts, texts)
SortedSet(texts) == SortedTexts(SetToSeq(texts))

IsDigest(x) == x[1] = "digest"
validCID(x) == x[1] \in {"raw", "dag-cbor"}
rawCIDForDigest(digest) == <<"raw", digest[2]>>
validRawCID(cid, digest) == cid = rawCIDForDigest(digest)
\* Keys of packs end with the pack's digest, whatever their prefix is.
IsPackKey(key, id) == key[1] = "pack key" /\ key[3] = id[2]

-----------------------------------------------------------------------------
(* Encoding                                                                 *)

Texts(texts) == List([i \in DOMAIN texts |-> Text(texts[i])])

PackNode(p) == Map([id |-> Text(p.ID), key |-> Text(p.Key), size |-> Int64(p.Size)])

CASNode(o) ==
  Map([cid |-> Text(o.CID), digest |-> Text(o.Digest), pack |-> Text(o.PackID),
       size |-> Int64(o.Size)])

ActionNode(a) ==
  Map([cid |-> Text(a.CID), digest |-> Text(a.Digest), pack |-> Text(a.PackID),
       closure |-> Texts(SortedTexts(a.ClosurePacks)), size |-> Int64(a.Size)])

Nodes(items, NodeFor(_)) == List([i \in DOMAIN items |-> NodeFor(items[i])])

\* Mutant: the objects keep the order in which they were staged.
SortedCASMutant(m) == m.CAS

SortedCAS(m) == SortedBy(m.CAS, "Digest")

manifestToNode(m) ==
  Map([actions |-> Nodes(SortedBy(m.Actions, "Digest"), ActionNode),
       cas     |-> Nodes(SortedCAS(m), CASNode),
       packs   |-> Nodes(SortedBy(m.Packs, "ID"), PackNode),
       parents |-> Texts(SortedTexts(m.Parents)),
       version |-> Int64(m.Version)])

-----------------------------------------------------------------------------
(* Decoding                                                                 *)

Lookup(node, key, kind) ==
  IF key \in DOMAIN node.value /\ node.value[key].kind = kind
    THEN {node.value[key].value} ELSE {}

nodeString(node, key) == Lookup(node, key, "string")
nodeInt(node, key) == Lookup(node, key, "int")

The(optional) == CHOOSE x \in optional : TRUE

\* Every item of the list is parsed, or the list is refused.
EachOf(items, Parse(_)) ==
  IF \A i \in DOMAIN items : Parse(items[i]) # {}
    THEN {[i \in DOMAIN items |-> The(Parse(items[i]))]} ELSE {}

ListOf(node, key, Parse(_)) ==
  UNION {EachOf(items, Parse) : items \in Lookup(node, key, "list")}

StringItem(item) == IF item.kind = "string" THEN {item.value} ELSE {}
nodeStringList(node, key) == ListOf(node, key, StringItem)

PackItem(item) ==
  IF item.kind # "map" THEN {}
  ELSE {[ID |-> id, Key |-> key, Size |-> size] :
          id \in nodeString(item, "id"), key \in nodeString(item, "key"),
          size \in nodeInt(item, "size")}

nodeObject(item) ==
  IF item.kind # "map" THEN {}
  ELSE {[Digest |-> digest, CID |-> cid, PackID |-> pack, Size |-> size] :
          digest \in nodeString(item, "digest"), cid \in nodeString(item, "cid"),
          pack \in nodeString(item, "pack"), size \in nodeInt(item, "size")}

ActionItem(item) ==
  IF item.kind # "map" THEN {}
  ELSE {[Digest |-> digest, CID |-> cid, PackID |-> pack, Size |-> size,
         ClosurePacks |-> closure] :
          digest \in nodeString(item, "digest"), cid \in nodeString(item, "cid"),
          pack \in nodeString(item, "pack"), size \in nodeInt(item, "size"),
          closure \in nodeStringList(item, "closure")}

nodePacks(node) == ListOf(node, "packs", PackItem)
nodeCAS(node) == ListOf(node, "cas", nodeObject)
nodeActions(node) == ListOf(node, "actions", ActionItem)

NoRepetition(items, Name(_)) ==
  \A i, j \in DOMAIN items : Name(items[i]) = Name(items[j]) => i = j

\* Mutant: an object may be in a pack of another manifest.
DeclaredMutant(m, packID) == IsDigest(packID)

Declared(m, packID) == \E i \in DOMAIN m.Packs : m.Packs[i].ID = packID

ValidPack(p) == IsDigest(p.ID) /\ p.Size > 0 /\ IsPackKey(p.Key, p.ID)
ValidCAS(m, o) ==
  /\ IsDigest(o.Digest) /\ o.Size >= 0 /\ validRawCID(o.CID, o.Digest)
  /\ Declared(m, o.PackID)
ValidAction(m, a) ==
  /\ IsDigest(a.Digest) /\ a.Size >= 0 /\ validCID(a.CID)
  /\ Declared(m, a.PackID)
  /\ \A i \in DOMAIN a.ClosurePacks :
       Declared(m, a.ClosurePacks[i]) \/ IsDigest(a.ClosurePacks[i])

WithinLimits(m) ==
  /\ Len(m.Parents) <= MaxParents /\ Len(m.Packs) <= MaxPacks
  /\ Len(m.CAS) <= MaxCAS /\ Len(m.Actions) <= MaxActions

validate(m) ==
  /\ WithinLimits(m)
  /\ \A i \in DOMAIN m.Packs : ValidPack(m.Packs[i])
  /\ NoRepetition(m.Packs, LAMBDA p : p.ID)
  /\ \A i \in DOMAIN m.CAS : ValidCAS(m, m.CAS[i])
  /\ NoRepetition(m.CAS, LAMBDA o : o.Digest)
  /\ \A i \in DOMAIN m.Actions : ValidAction(m, m.Actions[i])
  /\ NoRepetition(m.Actions, LAMBDA a : a.Digest)
  /\ \A i \in DOMAIN m.Parents : validCID(m.Parents[i])

nodeToManifest(node) ==
  IF node.kind # "map" THEN {}
  ELSE {m \in {[Version |-> version, Parents |-> parents, Packs |-> ps, CAS |-> objects,
                Actions |-> as] :
                 version \in nodeInt(node, "version"),
                 parents \in nodeStringList(node, "parents"), ps \in nodePacks(node),
                 objects \in nodeCAS(node), as \in nodeActions(node)} :
          m.Version = 1 /\ validate(m)}

\* The key names the CID that the content must have.
decodeManifest(entry) ==
  IF CIDOf(entry) = KeyCID(entry) THEN nodeToManifest(NodeOf(entry)) ELSE {}

-----------------------------------------------------------------------------
(* The index                                                                *)

Get(map, key) == IF key \in DOMAIN map THEN {map[key]} ELSE {}

Before(x, y) == Precedes(x.PackID, y.PackID)

\* No name is repeated in a manifest that was accepted or is written.
ByID(ps) == [id \in {p.ID : p \in ps} |-> CHOOSE p \in ps : p.ID = id]
ByDigest(xs) == [d \in {x.Digest : x \in xs} |-> CHOOSE x \in xs : x.Digest = d]

Over(new, map) ==
  [k \in DOMAIN new \cup DOMAIN map |-> IF k \in DOMAIN new THEN new[k] ELSE map[k]]

ApplyPacks(map, ps) ==
  Over(ByID({p \in ps : \A old \in Get(map, p.ID) : p.Key[2] < old.Key[2]}), map)

\* Mutant: the object that is merged last is taken.
ApplyObjectsMutant(map, os) == Over(ByDigest(os), map)

ApplyObjects(map, os) ==
  Over(ByDigest({o \in os : \A old \in Get(map, o.Digest) : Before(o, old)}), map)

ApplyActions(map, as) == Over(map, ByDigest(as))

Conflicting(map, as) ==
  {a.Digest : a \in {b \in as : \E old \in Get(map, b.Digest) : old.CID # b.CID}}

applyManifest(ix, id, m) ==
  [packs |-> ApplyPacks(ix.packs, ToSet(m.Packs)),
   cas |-> ApplyObjects(ix.cas, ToSet(m.CAS)),
   actions |-> ApplyActions(ix.actions, ToSet(m.Actions)),
   actionConflicts |-> ix.actionConflicts \cup Conflicting(ix.actions, ToSet(m.Actions)),
   heads |-> (ix.heads \ ToSet(m.Parents)) \cup {id}]

EmptyIndex ==
  [packs |-> <<>>, cas |-> <<>>, actions |-> <<>>, actionConflicts |-> {}, heads |-> {}]

Init ==
  /\ phase = "listing"
  /\ index = EmptyIndex
  /\ unmerged = {}
  /\ unsaved = OwnPacks
  /\ applied = {}
  /\ written = {}

\* discover keeps what it could load and read.
Discover(loaded) ==
  /\ phase = "listing"
  /\ phase' = "listed"
  /\ unmerged' = {e \in loaded : decodeManifest(e) # {}}
  /\ UNCHANGED <<index, unsaved, applied, written>>

\* It merges them in the order of the CIDs.  Its own insertion of unreferenced
\* manifests into heads repeats applyManifestLocked.
MergeNext ==
  /\ \E e \in unmerged :
       LET m == The(decodeManifest(e))
       IN  /\ \A d \in unmerged : ~Precedes(KeyCID(d), KeyCID(e))
           /\ index' = applyManifest(index, KeyCID(e), m)
           /\ applied' = applied \cup {m}
           /\ unmerged' = unmerged \ {e}
  /\ UNCHANGED <<phase, unsaved, written>>

\* Mutant: the CID of a manifest is taken for that of an object.
ObjectInMutant(own, o) ==
  [Digest |-> o.Digest, CID |-> <<"dag-cbor", o.Digest[2]>>, PackID |-> own.pack.ID,
   Size |-> o.Size]

\* buildPackLocked
ObjectIn(own, o) ==
  [Digest |-> o.Digest, CID |-> rawCIDForDigest(o.Digest), PackID |-> own.pack.ID,
   Size |-> o.Size]

\* The pack of an object of the batch, or of one that is in the index.
PackOf(own, digest) ==
  IF \E o \in ToSet(own.cas) : o.Digest = digest THEN {own.pack.ID}
  ELSE {o.PackID : o \in Get(index.cas, digest)}

ActionIn(own, a) ==
  [Digest |-> a.Digest, CID |-> a.CID, PackID |-> own.pack.ID, Size |-> a.Size,
   ClosurePacks |-> SortedSet(UNION {PackOf(own, d) : d \in a.closure})]

\* manifestForPackLocked
ManifestFor(own) ==
  [Version |-> 1,
   Parents |-> SortedSet(index.heads),
   Packs |-> <<own.pack>>,
   CAS |-> [i \in DOMAIN own.cas |-> ObjectIn(own, own.cas[i])],
   Actions |-> [i \in DOMAIN own.actions |-> ActionIn(own, own.actions[i])]]

\* An object was not in the index when it was staged, and an action is in the
\* batch when its closure is in the batch or in the index.
Selectable(own) ==
  /\ \A o \in ToSet(own.cas) : Get(index.cas, o.Digest) = {}
  /\ \A a \in ToSet(own.actions) : \A d \in a.closure : PackOf(own, d) # {}

Write ==
  /\ phase = "listed" /\ unmerged = {}
  /\ \E own \in unsaved :
       LET m == ManifestFor(own)
       IN  /\ Selectable(own)
           /\ index' = applyManifest(index, own.cid, m)
           /\ applied' = applied \cup {m}
           /\ written' = {m}
           /\ unsaved' = unsaved \ {own}
  /\ UNCHANGED <<phase, unmerged>>

-----------------------------------------------------------------------------
Elements(Field(_)) == UNION {ToSet(Field(m)) : m \in applied}
AllPacks == Elements(LAMBDA m : m.Packs)
AllCAS == Elements(LAMBDA m : m.CAS)
AllActions == Elements(LAMBDA m : m.Actions)

Sorted(m) ==
  [Version |-> m.Version,
   Parents |-> SortedTexts(m.Parents),
   Packs   |-> SortedBy(m.Packs, "ID"),
   CAS     |-> SortedBy(m.CAS, "Digest"),
   Actions |-> SortedBy([i \in DOMAIN m.Actions |->
                 [m.Actions[i] EXCEPT !.ClosurePacks = SortedTexts(@)]], "Digest")]

(* Type invariant of the index: what is in it is under its own digest. *)
IndexTypes ==
  /\ phase \in {"listing", "listed"}
  /\ unsaved \subseteq OwnPacks
  /\ \A id \in DOMAIN index.packs : index.packs[id].ID = id /\ index.packs[id].Size > 0
  /\ \A d \in DOMAIN index.cas : index.cas[d].Digest = d /\ index.cas[d].Size >= 0
  /\ \A d \in DOMAIN index.actions : index.actions[d].Digest = d /\ index.actions[d].Size >= 0
  /\ \A id \in index.heads : validCID(id)

(* Whatever was stored under manifest keys, every entry of the index can be *)
(* looked up to its end: its pack has a descriptor with a key of that pack, *)
(* and an object has the CID that its bytes are checked against.            *)
IndexIsClosed ==
  /\ \A d \in DOMAIN index.cas :
       /\ index.cas[d].PackID \in DOMAIN index.packs
       /\ index.cas[d].CID = rawCIDForDigest(d)
  /\ \A d \in DOMAIN index.actions : index.actions[d].PackID \in DOMAIN index.packs
  /\ \A id \in DOMAIN index.packs : index.packs[id].Key[3] = id[2]

(* Two servers with the same manifests have the same packs and objects, and *)
(* serve the same results, in whatever order they merged them: the smallest *)
(* key and the smallest pack win, and an action with two results has none.  *)
IndexIsMerge ==
  /\ DOMAIN index.packs = {p.ID : p \in AllPacks}
  /\ \A p \in AllPacks : index.packs[p.ID].Key[2] <= p.Key[2]
  /\ DOMAIN index.cas = {o.Digest : o \in AllCAS}
  /\ \A o \in AllCAS : ~Before(o, index.cas[o.Digest])
  /\ DOMAIN index.actions = {a.Digest : a \in AllActions}
  /\ \A a \in AllActions :
       a.Digest \in index.actionConflicts <=>
         \E b \in AllActions : b.Digest = a.Digest /\ b.CID # a.CID
  /\ \A a \in AllActions :
       a.Digest \notin index.actionConflicts => index.actions[a.Digest].CID = a.CID

(* Encoding is deterministic and loses nothing: what was read or written is *)
(* read back with its entries in order, and encodes to the same bytes.      *)
RoundTrip ==
  \A m \in applied : WithinLimits(m) =>
    /\ nodeToManifest(manifestToNode(m)) = {Sorted(m)}
    /\ manifestToNode(Sorted(m)) = manifestToNode(m)

(* README.md:88: "Readers discover and merge all heads": a manifest that    *)
(* was written is accepted by those who read it.                            *)
WrittenIsReadable == \A m \in written : nodeToManifest(manifestToNode(m)) # {}
=============================================================================
