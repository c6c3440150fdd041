--------------------------- MODULE MCFlushSchedule ---------------------------
(* A small instance of FlushSchedule for TLC: objects of one and two bytes  *)
(* for packs of two, a result that refers to two of them, and a batch that  *)
(* the cache service refuses.                                               *)
EXTENDS FlushSchedule, TLC

CONSTANTS a, b, c, v

MCObjects == {a, b, c}

MCResults == {v}

MCClosure == (v :> {a, c})

MCSize == (a :> 1) @@ (b :> 2) @@ (c :> 1) @@ (v :> 1)

MCRefused == {{b}}
=============================================================================
