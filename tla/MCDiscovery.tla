------------------------------ MODULE MCDiscovery ------------------------------
(* Stored entries for TLC.  An entry says by name what each of its fields   *)
(* is, and NodeOf builds the node: valid entries in every combination, and  *)
(* one defect of every kind in every place.                                 *)
EXTENDS Discovery, TLC

D(n) == <<"digest", n>>
RawCID(n) == <<"raw", n>>
ManifestCID(n) == <<"dag-cbor", n>>
Key(prefix, n) == <<"pack key", prefix, n>>
Junk == <<"junk", 0>>

Pack(id, key, size) == Manifests!PackNode([ID |-> id, Key |-> key, Size |-> size])
Object(digest, cid, pack, size) ==
  Manifests!CASNode([Digest |-> digest, CID |-> cid, PackID |-> pack, Size |-> size])
Action(digest, cid, pack, size, closure) ==
  Manifests!ActionNode([Digest |-> digest, CID |-> cid, PackID |-> pack, Size |-> size,
              ClosurePacks |-> closure])

Without(node, field) == Manifests!Map([f \in DOMAIN node.value \ {field} |-> node.value[f]])
With(node, field, value) == Manifests!Map([node.value EXCEPT ![field] = value])

P1 == Pack(D(1), Key(1, 1), 9)
C1 == Object(D(1), RawCID(1), D(1), 3)
A1 == Action(D(1), RawCID(5), D(1), 2, <<D(2), D(1)>>)

Item(name) ==
  CASE name = "p1" -> P1
    [] name = "p1 again" -> Pack(D(1), Key(2, 1), 9)
    [] name = "p2" -> Pack(D(2), Key(1, 2), 7)
    [] name = "p id" -> Pack(Junk, Key(1, 1), 9)
    [] name = "p key" -> Pack(D(1), Key(1, 2), 9)
    [] name = "p size" -> Pack(D(1), Key(1, 1), 0)
    [] name = "p no size" -> Without(P1, "size")
    [] name = "p kind" -> With(P1, "id", Manifests!Int64(1))
    [] name = "c1" -> C1
    [] name = "c1 in p2" -> Object(D(1), RawCID(1), D(2), 3)
    [] name = "c2" -> Object(D(2), RawCID(2), D(2), 0)
    [] name = "c cid" -> Object(D(2), RawCID(1), D(1), 3)
    [] name = "c digest" -> Object(Junk, RawCID(1), D(1), 3)
    [] name = "c size" -> Object(D(1), RawCID(1), D(1), -1)
    [] name = "c no pack" -> Without(C1, "pack")
    [] name = "c kind" -> With(C1, "size", Manifests!Text(D(1)))
    [] name = "a1" -> A1
    [] name = "a1 other" -> Action(D(1), RawCID(6), D(2), 2, <<>>)
    [] name = "a2" -> Action(D(2), RawCID(5), D(1), 0, <<D(9)>>)
    [] name = "a cid" -> Action(D(1), Junk, D(1), 2, <<>>)
    [] name = "a closure" -> Action(D(1), RawCID(5), D(1), 2, <<D(1), Junk>>)
    [] name = "a closure kind" -> With(A1, "closure", Manifests!List(<<Manifests!Text(D(1)), Manifests!Int64(1)>>))
    [] name = "a no closure" -> Without(A1, "closure")
    [] name = "m1" -> Manifests!Text(ManifestCID(1))
    [] name = "m2" -> Manifests!Text(ManifestCID(2))
    [] name = "m junk" -> Manifests!Text(Junk)
    [] OTHER -> Manifests!Int64(0)

Items(names) == Manifests!List([i \in DOMAIN names |-> Item(names[i])])

WholeNode(e) ==
  Manifests!Map([actions |-> Items(e.actions), cas |-> Items(e.cas), packs |-> Items(e.packs),
       parents |-> Items(e.parents), version |-> Manifests!Int64(e.version)])

\* The defect of the whole: a field is missing or of another kind.
MCNodeOf(e) ==
  CASE e.defect = "none" -> WholeNode(e)
    [] e.defect = "not a map" -> Manifests!Int64(1)
    [] e.defect = "packs kind" -> With(WholeNode(e), "packs", Manifests!Int64(1))
    [] OTHER -> Without(WholeNode(e), e.defect)

MCCIDOf(e) == ManifestCID(e.content)
MCKeyCID(e) == ManifestCID(e.key)

Entry(v, ps, cs, as, ms, defect, content, key) ==
  [version |-> v, packs |-> ps, cas |-> cs, actions |-> as, parents |-> ms,
   defect |-> defect, content |-> content, key |-> key]

Lists(good, bad) ==
  {<<>>} \cup {<<x>> : x \in good \cup bad} \cup {<<x, y>> : x \in good, y \in good \cup bad}

GoodPacks == {"p1", "p2"}
BadPacks == {"p1 again", "p id", "p key", "p size", "p no size", "p kind", "int"}
GoodCAS == {"c1", "c1 in p2", "c2"}
BadCAS == {"c cid", "c digest", "c size", "c no pack", "c kind", "int"}
GoodActions == {"a1", "a1 other", "a2"}
BadActions == {"a cid", "a closure", "a closure kind", "a no closure", "int"}
GoodParents == {<<>>, <<"m2", "m1">>}
BadParents == {<<"m junk">>, <<"m1", "int">>, [i \in 1..6 |-> "m1"]}

Whole == Entry(1, <<"p1">>, <<"c1">>, <<"a1">>, <<"m1">>, "none", 3, 3)

AnyEntries ==
  {Entry(1, ps, cs, as, ms, "none", 3, 3) :
     ps \in Lists(GoodPacks, {}), cs \in Lists(GoodCAS, {}),
     as \in Lists(GoodActions, {}), ms \in GoodParents}
  \cup {[Whole EXCEPT !.packs = ps] : ps \in Lists(GoodPacks, BadPacks)}
  \cup {[Whole EXCEPT !.cas = cs] : cs \in Lists(GoodCAS, BadCAS)}
  \cup {[Whole EXCEPT !.actions = as] : as \in Lists(GoodActions, BadActions)}
  \cup {[Whole EXCEPT !.parents = ms] : ms \in BadParents}
  \cup {[Whole EXCEPT !.defect = d] : d \in {"not a map", "packs kind", "packs", "cas",
                                            "actions", "parents", "version"}}
  \cup {[Whole EXCEPT !.version = 2], [Whole EXCEPT !.key = 4],
        [Whole EXCEPT !.packs = <<"p1", "p2", "p1">>],
        [Whole EXCEPT !.cas = <<"c1", "c2", "c1">>]}

\* Manifests of several runners: the same objects and actions in other packs,
\* other results, a repeated pack under another prefix, and entries to ignore.
Merged(n) ==
  CASE n = 1 -> Entry(1, <<"p1 again">>, <<"c1">>, <<"a1">>, <<>>, "none", 1, 1)
    [] n = 2 -> Entry(1, <<"p2">>, <<"c1 in p2", "c2">>, <<"a1 other">>, <<"m1">>, "none", 2, 2)
    [] n = 3 -> Entry(1, <<"p1", "p2">>, <<"c2", "c1">>, <<"a2">>, <<"m1">>, "none", 3, 3)
    [] n = 4 -> Entry(1, <<"p2">>, <<"c1 in p2">>, <<>>, <<"m2", "m1">>, "none", 4, 4)
    [] n = 5 -> Entry(1, <<"p1">>, <<"c1">>, <<"a1", "a2">>, <<>>, "none", 5, 5)
    [] n = 6 -> Entry(1, <<"p1">>, <<"c1 in p2">>, <<>>, <<>>, "none", 6, 6)
    [] n = 7 -> Entry(1, <<"p2", "p1">>, <<"c1">>, <<"a1">>, <<"m2">>, "none", 7, 7)
    [] n = 8 -> Entry(1, <<"p1">>, <<"c1">>, <<"a2">>, <<>>, "none", 7, 8)

\* The second and third keys that are created are not of manifests.
MCForeign == {2, 3}

MCUploads ==
  {<<e>> : e \in AnyEntries}
  \cup {[i \in DOMAIN order |-> Merged(order[i])] :
          order \in {<<1, 2, 8, 3, 4, 7, 5>>, <<7, 6, 1, 5, 2, 1, 8>>, <<5, 4, 2, 3, 2, 1>>}}

Own(id, cid, objects, as, closure) ==
  [pack |-> [ID |-> D(id), Key |-> Key(3, id), Size |-> 5], cid |-> ManifestCID(cid),
   cas |-> [i \in DOMAIN objects |-> [Digest |-> D(objects[i]), Size |-> 1]],
   actions |-> [i \in DOMAIN as |->
     [Digest |-> D(as[i]), CID |-> RawCID(5), Size |-> 1, closure |-> closure]]]

MCOwnPacks ==
  {Own(3, 9, <<3>>, <<2, 1>>, {D(1), D(3)}), Own(4, 0, <<4, 1>>, <<3>>, {D(1)}),
   Own(5, 10, <<>>, <<4>>, {D(1), D(3)})}
=============================================================================
