------------------------------ MODULE MCConsola -------------------------------
(* Small instances of ConsolaKernel. *)
EXTENDS ConsolaKernel

CONSTANTS c1, c2

UnaCpu == {c1}
DosCpus == {c1, c2}
Mutex == [s \in Semaforo |-> 1]
===============================================================================
