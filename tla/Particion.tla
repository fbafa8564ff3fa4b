------------------------------ MODULE Particion -------------------------------
(* What a file system promises about the blocks of its partition: each one is *)
(* free, out of use or of one file, a file takes only free ones and gives all *)
(* of its own back when it is deleted.                                        *)
CONSTANTS Archivo, Bloque, Nadie

VARIABLE dueno

Init == dueno = [b \in Bloque |-> Nadie]

Tomar(f, b) ==
  /\ dueno[b] = Nadie
  /\ dueno' = [dueno EXCEPT ![b] = f]

Devolver(f) == dueno' = [b \in Bloque |-> IF dueno[b] = f THEN Nadie ELSE dueno[b]]

Next == \E f \in Archivo : Devolver(f) \/ \E b \in Bloque : Tomar(f, b)
Spec == Init /\ [][Next]_dueno
===============================================================================
