----------------------------- MODULE ReapiMessages -----------------------------
(***************************************************************************)
(* The parsers of Remote Execution API messages (action_result.go,         *)
(* reapi_directory.go, reapi_wire.go): which objects an ActionResult, a    *)
(* Tree or a Directory refers to, and which messages are refused.          *)
(*                                                                         *)
(* A message is the sequence of its fields.  A field has a number, a wire  *)
(* type and its value: a varint, or bytes, which are the text of a hash or *)
(* an embedded message.  An optional value is a set of at most one; so is   *)
(* what a parser returns, which is empty for an error.                     *)
(***************************************************************************)
EXTENDS Naturals, Sequences, SequencesExt, Reading

CONSTANTS
  Hashes,    \* the texts that match digestPattern
  MaxInt64,
  Sum(_)     \* the digest of an encoded message: hash and size

The(optional) == CHOOSE x \in optional : TRUE

\* wireField.message: nothing for a field of another wire type.
messageOf(field) == IF field.type = "bytes" THEN {field.message} ELSE {}

\* protowire can consume the field's tag and its value.
Consumed(field) == field.type # "truncated"

\* What the visitor has read after the fields in order, or nothing once one of
\* them cannot be decoded or is refused.
visitWireFields(data, start, Visit(_, _)) ==
  ReadEach(data, start,
           LAMBDA acc, field : IF Consumed(field) THEN Visit(acc, field) ELSE {})

-----------------------------------------------------------------------------
(* Digests.                                                                 *)

SizeFits(n) == n <= MaxInt64

DigestField(acc, field) ==
  CASE field.number = 1 ->
         IF field.type = "bytes" /\ acc.hash = {}
           THEN {[acc EXCEPT !.hash = {field.text}]} ELSE {}
    [] field.number = 2 ->
         IF field.type = "varint" /\ acc.size = {} /\ SizeFits(field.varint)
           THEN {[acc EXCEPT !.size = {field.varint}]} ELSE {}
    [] OTHER -> {acc}

parseDigest(data) ==
  {[hash |-> The(digest.hash), size |-> IF digest.size = {} THEN 0 ELSE The(digest.size)] :
     digest \in {d \in visitWireFields(data, [hash |-> {}, size |-> {}], DigestField) :
                  d.hash # {} /\ d.hash \subseteq Hashes}}

\* An embedded digest is stored in slot.
TakeDigest(acc, slot, field) ==
  {[acc EXCEPT ![slot] = {ref}] : ref \in UNION {parseDigest(m) : m \in messageOf(field)}}

\* The same, for a slot that may be filled once.
TakeDigestOnce(acc, slot, field) ==
  IF acc[slot] = {} THEN TakeDigest(acc, slot, field) ELSE {}

\* Bytes that stand for the object itself.
TakeInline(acc, slot, field) ==
  IF field.type = "bytes" THEN {[acc EXCEPT ![slot] = TRUE]} ELSE {}

\* digestCollection.add
add(values, ref) ==
  IF \E r \in ToSet(values) : r.hash = ref.hash /\ r.size # ref.size THEN {}
  ELSE {IF ref \in ToSet(values) THEN values ELSE Append(values, ref)}

\* The collection acc[slot] gets the reference, if there is one.
AddTo(acc, slot, optional) ==
  IF optional = {} THEN {acc}
  ELSE {[acc EXCEPT ![slot] = values] : values \in add(acc[slot], The(optional))}

-----------------------------------------------------------------------------
(* Action results.                                                          *)

OutputFileField(acc, field) ==
  CASE field.number = 2 -> TakeDigestOnce(acc, "digest", field)
    [] field.number = 5 -> TakeInline(acc, "inline", field)
    [] OTHER -> {acc}

parseOutputFile(data) ==
  {file \in visitWireFields(data, [digest |-> {}, inline |-> FALSE], OutputFileField) :
     file.digest # {} \/ file.inline}

OutputDirectoryField(acc, field) ==
  CASE field.number = 3 -> TakeDigestOnce(acc, "tree", field)
    [] field.number = 5 -> TakeDigestOnce(acc, "root", field)
    [] OTHER -> {acc}

parseOutputDirectory(data) ==
  {dir \in visitWireFields(data, [tree |-> {}, root |-> {}], OutputDirectoryField) :
     dir.tree # {} \/ dir.root # {}}

AddFile(acc, file) == IF file.inline THEN {acc} ELSE AddTo(acc, "blobs", file.digest)

AddDirectory(acc, dir) ==
  UNION {AddTo(a, "directories", dir.root) : a \in AddTo(acc, "trees", dir.tree)}

\* Mutant: a digest of an output stream that follows its contents is skipped
\* at once.
StreamDigestMutant(acc, slot, inline, field) ==
  IF acc[inline] THEN {acc}
  ELSE UNION {AddTo(a, "blobs", a[slot]) : a \in TakeDigest(acc, slot, field)}

\* The digest of an output stream; the last one counts.
StreamDigest(acc, slot, inline, field) == TakeDigest(acc, slot, field)

ActionResultField(acc, field) ==
  CASE field.number = 2 ->
         UNION {AddFile(acc, file) :
                  file \in UNION {parseOutputFile(m) : m \in messageOf(field)}}
    [] field.number = 3 ->
         UNION {AddDirectory(acc, dir) :
                  dir \in UNION {parseOutputDirectory(m) : m \in messageOf(field)}}
    [] field.number = 5 -> TakeInline(acc, "stdoutInline", field)
    [] field.number = 6 -> StreamDigest(acc, "stdout", "stdoutInline", field)
    [] field.number = 7 -> TakeInline(acc, "stderrInline", field)
    [] field.number = 8 -> StreamDigest(acc, "stderr", "stderrInline", field)
    [] OTHER -> {acc}

NoReferences ==
  [blobs |-> <<>>, trees |-> <<>>, directories |-> <<>>,
   stdout |-> {}, stdoutInline |-> FALSE, stderr |-> {}, stderrInline |-> FALSE]

AddStream(acc, slot, inline) ==
  IF acc[inline] THEN {acc} ELSE AddTo(acc, "blobs", acc[slot])

parseActionResult(data) ==
  UNION {AddStream(acc, "stderr", "stderrInline") :
    acc \in UNION {AddStream(a, "stdout", "stdoutInline") :
                    a \in visitWireFields(data, NoReferences, ActionResultField)}}

-----------------------------------------------------------------------------
(* Directories and trees.                                                   *)

NodeField(acc, field) == IF field.number = 2 THEN TakeDigestOnce(acc, "digest", field) ELSE {acc}

parseNodeDigest(data) ==
  UNION {node.digest : node \in visitWireFields(data, [digest |-> {}], NodeField)}

AppendNode(acc, slot, field) ==
  {[acc EXCEPT ![slot] = Append(@, ref)] :
     ref \in UNION {parseNodeDigest(m) : m \in messageOf(field)}}

DirectoryField(acc, field) ==
  CASE field.number = 1 -> AppendNode(acc, "files", field)
    [] field.number = 2 -> AppendNode(acc, "directories", field)
    [] OTHER -> {acc}

parseDirectory(data) ==
  visitWireFields(data, [files |-> <<>>, directories |-> <<>>], DirectoryField)

\* A second root, or a child whose hash is known with another size.
Repeated(acc, field) ==
  IF field.number = 1 THEN acc.rootSeen
  ELSE \E r \in acc.children : r.hash = Sum(field.message).hash /\ r # Sum(field.message)

TreeField(acc, field) ==
  CASE field.number \notin {1, 2} -> {acc}
    [] field.type # "bytes" \/ Repeated(acc, field) -> {}
    [] OTHER ->
       {[directories |-> Append(acc.directories, directory),
         children |-> acc.children \cup (IF field.number = 2 THEN {Sum(field.message)} ELSE {}),
         rootSeen |-> acc.rootSeen \/ field.number = 1] :
          directory \in parseDirectory(field.message)}

\* Mutant: children that the tree does not contain are accepted.
ChildrenPresentMutant(tree) == TRUE

\* The loop over the directories' children.
ChildrenPresent(tree) ==
  \A i \in DOMAIN tree.directories :
    ToSet(tree.directories[i].directories) \subseteq tree.children

AddAll(files, refs) == ReadEach(refs, files, add)

FilesOf(directories) ==
  ReadEach(directories, <<>>, LAMBDA files, directory : AddAll(files, directory.files))

\* The files of the tree; whether a child or a file is refused first does not matter.
parseTree(data) ==
  UNION {FilesOf(tree.directories) :
    tree \in {t \in visitWireFields(data, [directories |-> <<>>, children |-> {},
                                           rootSeen |-> FALSE], TreeField) :
               t.rootSeen /\ ChildrenPresent(t)}}

-----------------------------------------------------------------------------
(* What the messages mean, without the order in which they are read.        *)

Refs == [hash : Hashes, size : 0..MaxInt64]
Wellformed(data) == \A i \in DOMAIN data : data[i].type # "truncated"
At(data, n) == {i \in DOMAIN data : data[i].number = n}
BytesAt(data, n) == \A i \in At(data, n) : data[i].type = "bytes"

Once(data, n) == \A i, j \in At(data, n) : i = j

\* data is a Digest message for ref.
Denotes(data, ref) ==
  /\ Wellformed(data) /\ BytesAt(data, 1)
  /\ Once(data, 1) /\ \E i \in At(data, 1) : data[i].text = ref.hash
  /\ Once(data, 2)
  /\ IF At(data, 2) = {} THEN ref.size = 0
     ELSE \E i \in At(data, 2) : data[i].type = "varint" /\ data[i].varint = ref.size

\* The references in the fields of number n.
DigestsAt(data, n) == {ref \in Refs : \E i \in At(data, n) : Denotes(data[i].message, ref)}

\* Every field of number n is a Digest message.
AllDigests(data, n) ==
  BytesAt(data, n) /\ \A i \in At(data, n) : \E ref \in Refs : Denotes(data[i].message, ref)

GoodFile(data) ==
  /\ Wellformed(data) /\ AllDigests(data, 2) /\ Once(data, 2) /\ BytesAt(data, 5)
  /\ At(data, 2) \cup At(data, 5) # {}

GoodOutputDirectory(data) ==
  /\ Wellformed(data)
  /\ \A n \in {3, 5} : AllDigests(data, n) /\ Once(data, n)
  /\ At(data, 3) \cup At(data, 5) # {}

\* The digest of an output stream that is not in the message itself.
Stream(data, raw, digest) ==
  IF At(data, raw) # {} \/ At(data, digest) = {} THEN {}
  ELSE LET last == CHOOSE i \in At(data, digest) : \A j \in At(data, digest) : j <= i
       IN  {ref \in Refs : Denotes(data[last].message, ref)}

BlobsOf(data) ==
  (UNION {DigestsAt(data[i].message, 2) :
            i \in {i \in At(data, 2) : At(data[i].message, 5) = {}}})
  \cup Stream(data, 5, 6) \cup Stream(data, 7, 8)

OutputsOf(data, n) == UNION {DigestsAt(data[i].message, n) : i \in At(data, 3)}

Consistent(refs) == \A r, s \in refs : r.hash = s.hash => r = s

GoodActionResult(data) ==
  /\ Wellformed(data) /\ BytesAt(data, 2) /\ BytesAt(data, 3) /\ BytesAt(data, 5)
  /\ BytesAt(data, 7) /\ AllDigests(data, 6) /\ AllDigests(data, 8)
  /\ \A i \in At(data, 2) : GoodFile(data[i].message)
  /\ \A i \in At(data, 3) : GoodOutputDirectory(data[i].message)
  /\ Consistent(BlobsOf(data))
  /\ Consistent(OutputsOf(data, 3)) /\ Consistent(OutputsOf(data, 5))

\* References of the nodes of a Directory message.
Nodes(data, n) == UNION {DigestsAt(data[i].message, 2) : i \in At(data, n)}

Directories(data) == {data[i].message : i \in At(data, 1) \cup At(data, 2)}

AsSets(r) == <<ToSet(r.blobs), ToSet(r.trees), ToSet(r.directories)>>

-----------------------------------------------------------------------------
(* What the parsers promise about a message and their result for it.        *)

\* Exactly the objects that an action result refers to and does not carry
\* itself, each once, in whatever order the fields come.
ReferencesOf(message, result) ==
  \A parsed \in result :
    /\ AsSets(parsed) = <<BlobsOf(message), OutputsOf(message, 3), OutputsOf(message, 5)>>
    /\ \A refs \in {parsed.blobs, parsed.trees, parsed.directories} :
         \A i, j \in DOMAIN refs : refs[i].hash = refs[j].hash => i = j

\* A tree contains every directory that one of its directories refers to, and
\* its files are those of all of them.
ClosedTree(message, result) ==
  \A files \in result :
    /\ At(message, 1) # {}
    /\ \A d \in Directories(message) :
         Nodes(d, 2) \subseteq {Sum(message[i].message) : i \in At(message, 2)}
    /\ ToSet(files) = UNION {Nodes(d, 1) : d \in Directories(message)}
    /\ Consistent(ToSet(files))
=============================================================================
