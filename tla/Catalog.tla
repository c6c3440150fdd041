-------------------------------- MODULE Catalog --------------------------------
(***************************************************************************)
(* ActionsCatalog.List (internal/cache/catalog.go): the keys of the        *)
(* manifests are read page by page from the GitHub API while other jobs    *)
(* save and restore manifests and the service evicts entries.              *)
(*                                                                         *)
(* A key is a number: the order in which the entries were created.  The    *)
(* service is external.  List asks for no order, so the service lists the  *)
(* entry first that was saved or restored last, each page as the list is   *)
(* when the page is read.                                                  *)
(***************************************************************************)
EXTENDS Naturals, Sequences, FiniteSets, FiniteSetsExt

CONSTANTS
  PageSize,      \* entries per page: 100
  Limit,         \* Config.MaxManifests
  Foreign,       \* keys that do not begin with the prefix
  MaxKeys,       \* bound: entries ever created
  MaxEvictions,  \* bound
  MaxRestores    \* bound

ASSUME CatalogAssumption ==
  /\ PageSize \in Nat \ {0} /\ Limit \in Nat \ {0}
  /\ Foreign \subseteq Nat
  /\ MaxKeys \in Nat /\ MaxEvictions \in Nat /\ MaxRestores \in Nat

VARIABLES
  entries,   \* what the service lists now
  created,
  evictions, restores,
  present,   \* history: the entries at the beginning that are still there
  jumped,    \* history: entries that were moved off the pages still to be read
  page,
  keys,      \* what was read
  read,      \* the length of keys, where an entry that was read twice counts twice
  result     \* "listing", "ok", "limit" or "failed"

service == <<entries, created, evictions, restores, present, jumped>>
vars == <<service, page, keys, read, result>>

Elements(s) == {s[i] : i \in 1..Len(s)}

HasPrefix(k) == k \notin Foreign

\* The entries of the beginning were not restored yet; restores before the
\* first page is read bring them into any order.
Init ==
  /\ created \in 0..MaxKeys
  /\ entries = [i \in 1..created |-> created + 1 - i]
  /\ evictions = 0 /\ restores = 0
  /\ present = 1..created
  /\ jumped = {}
  /\ page = 1
  /\ keys = {} /\ read = 0
  /\ result = "listing"

-----------------------------------------------------------------------------
(* The service.                                                             *)

\* The entries that the service skips for the next page.
Offset == (page - 1) * PageSize

\* The list without its i-th entry.
Others(i) == SubSeq(entries, 1, i - 1) \o SubSeq(entries, i + 1, Len(entries))

Create ==
  /\ created < MaxKeys
  /\ created' = created + 1
  /\ entries' = <<created'>> \o entries
  /\ UNCHANGED <<evictions, restores, present, jumped, page, keys, read, result>>

Evict ==
  /\ evictions < MaxEvictions
  /\ \E i \in 1..Len(entries) :
       /\ entries' = Others(i)
       /\ present' = present \ {entries[i]}
  /\ evictions' = evictions + 1
  /\ UNCHANGED <<created, restores, jumped, page, keys, read, result>>

\* Another job restores an entry, as every server in packed mode does with the
\* manifests when it starts.
Restore ==
  /\ restores < MaxRestores
  /\ \E i \in 1..Len(entries) :
       /\ entries' = <<entries[i]>> \o Others(i)
       /\ jumped' = IF Offset \in 1..(i - 1) THEN jumped \cup {entries[i]} ELSE jumped
  /\ restores' = restores + 1
  /\ UNCHANGED <<created, evictions, present, page, keys, read, result>>

-----------------------------------------------------------------------------
(* One round of the loop of List.                                           *)

Page == SubSeq(entries, Offset + 1, Min({Offset + PageSize, Len(entries)}))

\* The entries of the page that begin with the prefix.
Matching == {i \in 1..Len(Page) : HasPrefix(Page[i])}

NumberRead == read + Cardinality(Matching)

\* Mutant: a page that is exactly full is the last one.
LastPageMutant == Len(Page) <= PageSize

LastPage == Len(Page) < PageSize

ReadPage ==
  /\ result = "listing"
  /\ IF NumberRead > Limit
       THEN result' = "limit" /\ UNCHANGED <<page, keys, read>>
       ELSE /\ keys' = keys \cup {Page[i] : i \in Matching}
            /\ read' = NumberRead
            /\ IF LastPage
                 THEN result' = "ok" /\ UNCHANGED page
                 ELSE page' = page + 1 /\ UNCHANGED result
  /\ UNCHANGED service

\* The request, its status or its body: keys that were read are dropped.
RequestFails ==
  /\ result = "listing"
  /\ result' = "failed"
  /\ keys' = {} /\ read' = 0
  /\ UNCHANGED <<service, page>>

-----------------------------------------------------------------------------
(* Type invariant; no more than limit keys are ever returned.               *)
TypeOK ==
  /\ created \in 0..MaxKeys
  /\ Elements(entries) \subseteq 1..created
  /\ Cardinality(Elements(entries)) = Len(entries)
  /\ present = {k \in Elements(entries) : k \in present}
  /\ evictions \in 0..MaxEvictions /\ restores \in 0..MaxRestores
  /\ jumped \subseteq 1..created
  /\ page \in 1..(MaxKeys + 1)
  /\ keys \subseteq (1..created) \ Foreign
  /\ Cardinality(keys) <= read /\ read <= Limit
  /\ result \in {"listing", "ok", "limit", "failed"}

(* catalog.go:104-116: entries that are saved while the pages are read push *)
(* others to later pages, where they are read twice.  An entry is missed    *)
(* only if it was restored itself while it was still to be read, or if an   *)
(* eviction moved it to a page that was read before, and an eviction moves  *)
(* one: a restore hides no entry but its own.                               *)
MissedArePaidFor ==
  /\ TypeOK
  /\ result = "ok" =>
       Cardinality(((present \ jumped) \ Foreign) \ keys) <= evictions
=============================================================================
