-------------------------------- MODULE Reading --------------------------------
(***************************************************************************)
(* A loop over a sequence that ends with the first item it refuses.        *)
(***************************************************************************)
EXTENDS Naturals, Sequences

\* What Read makes of the items in order, or nothing once it refuses one.
ReadEach(items, start, Read(_, _)) ==
  LET read[n \in 0..Len(items)] ==
        IF n = 0 THEN {start} ELSE UNION {Read(acc, items[n]) : acc \in read[n - 1]}
  IN  read[Len(items)]
=============================================================================
