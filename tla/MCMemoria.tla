------------------------------ MODULE MCMemoria -------------------------------
(* Instances of Memoria with two interchangeable CPUs. *)
EXTENDS Memoria, TLC

CONSTANTS c1, c2
DosCpus == {c1, c2}
DosYUna == <<2, 1>>
Simetria == Permutations(Cpu)
=============================================================================
