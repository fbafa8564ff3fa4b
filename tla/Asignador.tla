------------------------------ MODULE Asignador -------------------------------
(***************************************************************************)
(* What a script expects of ALOCAR and LIBERAR: it is given places inside  *)
(* a page that overlap none of those it holds, and it returns them.        *)
(***************************************************************************)
EXTENDS Integers

CONSTANTS TamPage,   (* bytes of a page                                      *)
          Pedidos    (* sizes that the script asks for                       *)

VARIABLE ocupado     (* the places the script holds                          *)

Lugares(n) == [pagina : Nat \ {0}, ini : 0..(TamPage - n), tam : {n}]

Separados(x, y) ==
  \/ x.pagina # y.pagina
  \/ x.ini + x.tam <= y.ini
  \/ y.ini + y.tam <= x.ini

Init == ocupado = {}

Asignar(n) == \E x \in ocupado' :
  /\ x \in Lugares(n)
  /\ \A y \in ocupado : Separados(x, y)
  /\ ocupado' = ocupado \cup {x}

Devolver == \E x \in ocupado : ocupado' = ocupado \ {x}

Terminar == ocupado' = {}

Next == Devolver \/ Terminar \/ \E n \in Pedidos : Asignar(n)

Spec == Init /\ [][Next]_ocupado
=============================================================================
