---------------------------- MODULE ResultValidation ----------------------------
(***************************************************************************)
(* validateActionResultClosure (action_result_validation.go:41-83) from    *)
(* the bytes of the action result to the answer: the parsers of            *)
(* ReapiMessages give the traversal of ActionResultValidation what it      *)
(* visits.  What is parsed is the action result, or the tree in the only   *)
(* output directory of one; the other objects have known contents.  A file *)
(* in the spool does not change, so its parser's result is known from the  *)
(* start.                                                                  *)
(***************************************************************************)
EXTENDS ActionResultValidation, Sequences

CONSTANTS
  MaxInt64, Sum(_),  \* of ReapiMessages
  Fields,            \* the fields of all messages
  Cases,             \* calls: what is parsed, and the other objects
  Disturbed          \* bound: the messages during whose validation objects come and go

\* A message is a sequence of fields, and so is the value of a field.  Varints
\* are unsigned.
ASSUME FieldsAssumption ==
  /\ MaxInt64 \in Nat
  /\ \A field \in Fields : field.message \in Seq(Fields) /\ field.varint \in Nat

\* A case that parses a tree is a call whose result refers to that tree.
ASSUME CasesAssumption ==
  \A c \in Cases :
    /\ c.kind \in {"action result", "tree"}
    /\ c.message \in Seq(Fields)
    /\ c.objects \in Inputs
    /\ c.kind = "tree" => \E ref \in c.objects.refs["tree"] : ref.hash = c.tree

VARIABLES
  kind, message,  \* what is parsed; does not change
  result          \* what the parser returns for it, empty for an error

Messages == INSTANCE ReapiMessages

messageVars == <<kind, message, result>>

NoneOf == [k \in Kinds |-> {}]

Elements(s) == {s[i] : i \in DOMAIN s}

\* The references of a result; of one that is refused none is looked at.
RefsOf(optional) ==
  [k \in Kinds |-> UNION {Elements(CASE k = "blob" -> parsed.blobs
                                     [] k = "tree" -> parsed.trees
                                     [] OTHER -> parsed.directories) : parsed \in optional}]

Parse(c) ==
  IF c.kind = "tree" THEN Messages!parseTree(c.message)
  ELSE Messages!parseActionResult(c.message)

\* The call of a case, for a read or a publication.
InputOf(c, parsed, persisted) ==
  IF c.kind = "tree"
    THEN [c.objects EXCEPT !.requirePersisted = persisted,
                           !.parses[c.tree] = parsed # {},
                           !.files[c.tree] = UNION {Elements(files) : files \in parsed}]
    ELSE [c.objects EXCEPT !.requirePersisted = persisted, !.refs = RefsOf(parsed)]

ReceivedInit ==
  /\ \E c \in Cases, persisted \in BOOLEAN :
       /\ kind = c.kind /\ message = c.message
       /\ result = Parse(c)
       /\ input = InputOf(c, result, persisted)
  /\ backend \in IF message \in Disturbed THEN SUBSET Hashes ELSE {Hashes}
  /\ Init

\* parseActionResult fails: nothing is looked up.
RefuseResult ==
  /\ kind = "action result" /\ result = {}
  /\ answer = "none"
  /\ Finish("invalid")
  /\ UNCHANGED <<input, validated, validatedObjects, closure, missing, spool, backend, lost>>

ValidateResult ==
  /\ kind = "action result" => result # {}
  /\ Validate

Disturb ==
  /\ message \in Disturbed
  /\ \E h \in Changing : Upload(h) \/ Save(h) \/ Evict(h)

Call == RefuseResult \/ ValidateResult

ReceivedNext == (Call \/ Disturb) /\ UNCHANGED messageVars

ReceivedSpec ==
  /\ ReceivedInit
  /\ [][ReceivedNext]_<<vars, messageVars>>

-----------------------------------------------------------------------------
(* Properties of the parsers, for every message.                            *)

\* parseActionResult returns exactly the objects that the result refers to and
\* does not carry itself, each once, in whatever order the fields come; it
\* refuses what is malformed or contradicts itself, and nothing else.
ExactReferences ==
  kind = "action result" =>
    /\ Messages!ReferencesOf(message, result)
    /\ (result # {}) <=> Messages!GoodActionResult(message)

\* parseTree accepts no tree that lacks a directory that one of its directories
\* refers to, and returns the files of all of them: nothing below the root is
\* left out of the validation.
TreeIsClosed == kind = "tree" => Messages!ClosedTree(message, result)

-----------------------------------------------------------------------------
(* The whole call.                                                          *)

\* What the bytes that were parsed refer to, by kind.
Named ==
  IF kind = "tree"
    THEN [NoneOf EXCEPT !["blob"] = UNION {Messages!Nodes(d, 1) : d \in Messages!Directories(message)}]
    ELSE [k \in Kinds |-> CASE k = "blob" -> Messages!BlobsOf(message)
                            [] k = "tree" -> Messages!OutputsOf(message, 3)
                            [] OTHER -> Messages!OutputsOf(message, 5)]

\* The one object that needs no upload.
EmptyRef == [hash |-> EmptyHash, size |-> 0]

\* "The adapter checks the complete output closure before serving or publishing
\* an action result" (README.md:191): a result is accepted only when every
\* object that its bytes name was visited, belongs to the closure, and is there
\* or was evicted meanwhile.
AcceptedNamesOnlyFound ==
  answer = "ok" =>
    \A k \in Kinds : \A ref \in Named[k] :
      \/ k = "blob" /\ ref = EmptyRef
      \/ /\ ref \in validated[k]
         /\ ref = EmptyRef \/ ref.hash \in closure
         /\ ref.hash \in backend \cup lost \cup (IF RequirePersisted THEN {} ELSE spool)
=============================================================================
