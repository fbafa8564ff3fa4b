------------------------------ MODULE MCExclusion -------------------------------
(* Small instances of Exclusion.                                           *)
EXTENDS Exclusion

CONSTANTS c1, c2

UnaCpu == {c1}
DosCpus == {c1, c2}
Mutex == [s \in Semaforo |-> 1]

Simetria == Permutations(Cpu)
=============================================================================
