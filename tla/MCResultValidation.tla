--------------------------- MODULE MCResultValidation ---------------------------
(* Small instances of ResultValidation for TLC: every message of a few      *)
(* fields from pools of valid and broken ones, and closures in which files, *)
(* trees and directories share objects.                                     *)
EXTENDS ResultValidation, TLC

CONSTANTS empty, f, g, d, t, upper, MaxFields

-----------------------------------------------------------------------------
(* Messages. *)

Field(n, type) == [number |-> n, type |-> type, text |-> upper, varint |-> 0, message |-> <<>>]
Text(n, h) == [Field(n, "bytes") EXCEPT !.text = h]
Num(n, v) == [Field(n, "varint") EXCEPT !.varint = v]
Msg(n, m) == [Field(n, "bytes") EXCEPT !.message = m]
Cut == Field(9, "truncated")

Digest(h, n) == <<Text(1, h), Num(2, n)>>
D(n, h, size) == Msg(n, Digest(h, size))

\* Digest messages: without a size, in another order, with an unknown field,
\* and broken ones.
OddDigests ==
  {<<Text(1, f)>>, <<Num(2, 1), Text(1, f)>>, <<Text(1, f), Num(3, 7)>>}
BadDigests ==
  {<<Num(2, 1)>>, Digest(upper, 1), <<Text(1, f), Text(1, f)>>, <<Num(1, 0)>>,
   <<Text(1, f), Num(2, 1), Num(2, 1)>>, Digest(f, MaxInt64 + 1), <<Text(1, f), Cut>>,
   <<Text(1, f), Text(2, f)>>}

Files ==
  {<<D(2, f, 1)>>, <<D(2, f, 2)>>, <<D(2, g, 1)>>, <<Text(5, f), D(2, f, 2)>>,
   <<D(2, g, 2), Text(5, f)>>, <<Text(5, f)>>}
BadFiles ==
  {<<>>, <<D(2, f, 1), D(2, f, 1)>>, <<Num(2, 1)>>, <<D(2, f, 1), Num(5, 1)>>}
OutputDirectories ==
  {<<D(3, d, 2)>>, <<D(3, d, 1)>>, <<D(5, d, 2)>>, <<D(5, t, 2), D(3, d, 2)>>}
BadOutputDirectories == {<<>>, <<D(3, d, 1), D(3, d, 1)>>, <<Msg(5, <<>>)>>}

Streams ==
  {Text(5, f), D(6, f, 1), D(6, g, 2), Text(7, f), D(8, g, 1), D(8, f, 1)}

Pool ==
  {Msg(2, x) : x \in Files} \cup {Msg(3, x) : x \in OutputDirectories} \cup Streams
Bad ==
  {Msg(2, x) : x \in BadFiles} \cup {Msg(3, x) : x \in BadOutputDirectories}
  \cup {Msg(2, <<Msg(2, x)>>) : x \in OddDigests \cup BadDigests}
  \cup {Msg(6, x) : x \in BadDigests}
  \cup {Cut, Num(2, 1), Num(3, 1), Num(5, 1), Num(6, 1), Num(8, 1), Field(4, "other")}

SeqsOf(S, n) == UNION {[1..k -> S] : k \in 0..n}

PoolResults == SeqsOf(Pool, MaxFields) \cup SeqsOf(Pool \cup Bad, 2)

\* Directories: a leaf, one that contains it, one that contains that one, one
\* that contradicts the leaf, and broken ones.
Node(n, h, size) == Msg(n, <<D(2, h, size)>>)
Leaf == <<Node(1, f, 1)>>
Middle == <<Node(1, g, 1), Node(2, d, 1)>>
Top == <<Node(2, t, 2)>>
Other == <<Node(1, f, 2)>>
WrongSize == <<Node(2, d, 2)>>

MCSum(data) ==
  CASE data = Leaf -> [hash |-> d, size |-> 1]
    [] data = Middle -> [hash |-> t, size |-> 2]
    [] OTHER -> [hash |-> upper, size |-> 0]

TreePool ==
  {Msg(1, Top), Msg(1, Middle), Msg(1, <<>>), Msg(2, Leaf), Msg(2, Middle),
   Msg(1, WrongSize), Msg(2, Other), Msg(2, <<Msg(1, <<>>)>>), Num(1, 1), Field(3, "other"), Cut}

MCTrees == SeqsOf(TreePool, MaxFields)

-----------------------------------------------------------------------------
(* Objects: files have size 1, trees and directories 2. *)

R(h, n) == [hash |-> h, size |-> n]

Objects(files, directories, parses) ==
  [requirePersisted |-> FALSE, refs |-> NoneOf,
   size |-> (empty :> 0) @@ (f :> 1) @@ (g :> 1) @@ (d :> 2) @@ (t :> 2),
   parses |-> parses, files |-> files, directories |-> directories]

Nothing == [h \in Hashes |-> {}]
AllParse == [h \in Hashes |-> TRUE]

World ==
  Objects([Nothing EXCEPT ![d] = {R(f, 1)}, ![t] = {R(g, 1)}],
          [Nothing EXCEPT ![t] = {R(d, 2)}], AllParse)

\* d is a file too; t has the subdirectory d, in which f has this size.
Nested(size) ==
  Objects([Nothing EXCEPT ![t] = {R(f, 1)}, ![d] = {R(f, size)}],
          [Nothing EXCEPT ![t] = {R(d, 2)}], AllParse)

ResultCase(m, objects) ==
  [kind |-> "action result", message |-> m, tree |-> t, objects |-> objects]

TreeCase(m) ==
  [kind |-> "tree", message |-> m, tree |-> t,
   objects |-> [World EXCEPT !.refs["tree"] = {R(t, 2)}]]

\* A file, a tree and a directory that share files, an empty file among them.
Shared ==
  ResultCase(<<Msg(2, <<D(2, f, 1)>>), Msg(2, <<D(2, empty, 0)>>), Msg(3, <<D(3, t, 2)>>),
               Msg(3, <<D(5, d, 2)>>)>>,
             Objects([Nothing EXCEPT ![t] = {R(f, 1), R(g, 1)}, ![d] = {R(g, 1), R(empty, 0)}],
                     Nothing, AllParse))

\* A directory with the subdirectory d; d may also be a root.
OneRoot == <<Msg(2, <<D(2, g, 1)>>), Msg(2, <<D(2, d, 2)>>), Msg(3, <<D(5, t, 2)>>)>>
TwoRoots == OneRoot \o <<Msg(3, <<D(5, d, 2)>>)>>

\* Two objects in three references.
Small == <<Msg(2, <<D(2, f, 1)>>), Msg(3, <<D(5, d, 2)>>)>>

\* More objects than the limit.
Many ==
  <<Msg(2, <<D(2, f, 1)>>), Msg(2, <<D(2, g, 1)>>), Msg(2, <<D(2, d, 2)>>),
    Msg(2, <<D(2, t, 2)>>), Msg(3, <<D(5, t, 2)>>)>>

\* A tree that is declared with the wrong size, one that cannot be parsed.
TreeOf(size) == <<Msg(3, <<D(3, t, size)>>), Msg(6, Digest(f, 1))>>
Unparsable == Objects(Nothing, Nothing, [AllParse EXCEPT ![t] = FALSE])

Closures ==
  {Shared, ResultCase(OneRoot, Nested(1)), ResultCase(TwoRoots, Nested(0)),
   ResultCase(Small, Nested(1)), ResultCase(TreeOf(1), World), ResultCase(TreeOf(2), Unparsable)}

MCDisturbed == {c.message : c \in Closures}

MCCases ==
  Closures \cup {ResultCase(m, World) : m \in PoolResults \cup {Many}} \cup {TreeCase(m) : m \in MCTrees}

\* The fields of the messages, and those of their values.
FieldsOf(messages) == UNION {Elements(m) : m \in messages}
ValuesOf(fields) == {field.message : field \in fields}

MCFields ==
  LET outer == Pool \cup Bad \cup TreePool \cup FieldsOf({c.message : c \in Closures} \cup {Many})
      middle == FieldsOf(ValuesOf(outer))
      inner == FieldsOf(ValuesOf(middle))
  IN  outer \cup middle \cup inner
=============================================================================
