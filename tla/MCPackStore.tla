----------------------------- MODULE MCPackStore -----------------------------
(* Small instances of PackStore for TLC. *)
EXTENDS PackStore, TLC

CONSTANTS w1, w2, w3, c1, c2, a1, v1, v2

\* v1 refers to both objects (or to the only one), v2 to the first.
MCClosure == [v \in Results |-> IF v = v1 THEN CAS ELSE {c1} \cap CAS]

MCSize == [x \in CAS \cup Results |-> 2]

\* An injective order of pack names that puts bigger packs first.
Weight(x) == CASE x = c1 -> 1 [] x = c2 -> 2 [] x = v1 -> 4 [] x = v2 -> 8
MCPackRank ==
  [p \in Packs |-> 15 - MapThenSumSet(Weight, p.cas \cup p.res)]

\* The write-enabled runners are interchangeable; safety runs only.
RunnerSymmetry == Permutations(Writers)

\* Bound: the third runner, which merges what two others committed, has no faults.
ThirdIsUndisturbed == phase[w3] = "off" \/ faults = 0
=============================================================================
