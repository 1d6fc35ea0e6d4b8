--------------------------- MODULE MCCodeBoxQueue ---------------------------
(* The script queue with interchangeable workers and specs, for TLC.       *)
EXTENDS CodeBoxQueue, TLC

Symmetry ==
    Permutations(Producers) \cup Permutations(Runners)
        \cup Permutations(PrioritySpecs)
        \cup Permutations(Specs \ PrioritySpecs)
=============================================================================
