--------------------------- MODULE MCSharedMutex ---------------------------
(* TLC instances of SharedMutex; callers are interchangeable in safety runs. *)
EXTENDS SharedMutex, TLC

MCSymmetry == Permutations(Procs)
=============================================================================
