----------------------------- MODULE MCStorage -----------------------------
(* TLC instances of Storage. Requests, patches and stamps are model values   *)
(* that are only compared for equality, so their permutations are symmetric. *)
EXTENDS Storage, TLC

MCSymmetry ==
    Permutations(Requests) \cup Permutations(Patches) \cup Permutations(Stamps)
=============================================================================
