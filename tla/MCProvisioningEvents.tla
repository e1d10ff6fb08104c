------------------------ MODULE MCProvisioningEvents ------------------------
(* TLC instances of ProvisioningEvents; calls are interchangeable.           *)
EXTENDS ProvisioningEvents, TLC

MCSymmetry == Permutations(Calls)
=============================================================================
