------------------------------ MODULE MCStartRun ------------------------------
(* Two starts at once.  k1 is asked for with a generated seed, whose schedule  *)
(* has two chunks, and with a manual one, which has none; k2 is there to take  *)
(* identifiers.                                                                *)
EXTENDS StartRun, TLC
CONSTANTS k1, k2
SomeAsked == {<<k1, 1>>, <<k1, 2>>, <<k2, 2>>}
SomeChunks == 1 :> 2 @@ 2 :> 0
Renamings ==
    Permutations(Callers) \cup Permutations(Profiles) \cup Permutations(RunIDs) \cup Permutations(Accesses)
=============================================================================
