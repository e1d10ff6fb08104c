------------------------ MODULE MCMachineAllocation ------------------------
(* Small instances of MachineAllocation.                                    *)
EXTENDS MachineAllocation, TLC

CONSTANTS m1, m2, r1, r2, r3, s1

(* Nobody names a machine or an ip.                                         *)
NamesNothing == [r \in Requests |-> Nobody]

(* The first request names a static ip.                                     *)
NameFirstIp == [r \in Requests |-> IF r = r1 THEN s1 ELSE Nobody]

(* The first request may differ from the others by what it names.           *)
Symmetry == Permutations(Requests \ {r1}) \cup Permutations(Machines)
=============================================================================
