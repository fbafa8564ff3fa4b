------------------------------ MODULE MCSistema -------------------------------
(* Small instances of Sistema: one or two interchangeable CPUs, semaphores *)
(* that start at one unit or at none.                                      *)
EXTENDS Sistema

CONSTANTS c1, c2

UnaCpu == {c1}
DosCpus == {c1, c2}
Mutex == [s \in Semaforo |-> 1]
Inicial == [s \in Semaforo |-> IF s = "m" THEN 1 ELSE 0]

Simetria == Permutations(Cpu)
=============================================================================
