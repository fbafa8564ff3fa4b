------------------------------ MODULE MCArchivos ------------------------------
(* Instances of Archivos with two programs and two files. *)
EXTENDS Archivos, TLC

CONSTANTS f1, f2, p1, p2
DosArchivos == {f1, f2}
DosProgramas == {p1, p2}
Simetria == Permutations(Archivo) \cup Permutations(Pid)
===============================================================================
