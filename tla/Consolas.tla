------------------------------- MODULE Consolas -------------------------------
(***************************************************************************)
(* The program consoles.  Each program has a connection of its own, opened *)
(* by hiloPrograma; the user may ask for its end (FINALIZAR, DESCONECTAR)  *)
(* or the console process may go away.  The answers of the kernel are only *)
(* shown, so nothing is kept of them here.                                 *)
(***************************************************************************)
EXTENDS Canales

(* A console sends one program and waits for its pid: a connection that    *)
(* the kernel has yet to accept.                                           *)
IniciarPrograma(proximo) ==
  /\ proximo + llegadas <= MaxPid
  /\ llegadas' = llegadas + 1
  /\ UNCHANGED <<enlace, aKernel, aCpu, pedido>>

(* FINALIZAR pid, and DESCONECTAR for every program of the console.        *)
PedirFinalizar(p) ==
  /\ pedido[p] = "nada"
  /\ pedido' = [pedido EXCEPT ![p] = "finalizar"]
  /\ UNCHANGED <<enlace, aKernel, aCpu, llegadas>>

(* The console process ends and its sockets are closed.                    *)
CerrarConsola(p) ==
  /\ pedido[p] = "nada"
  /\ pedido' = [pedido EXCEPT ![p] = "cierre"]
  /\ UNCHANGED <<enlace, aKernel, aCpu, llegadas>>
=============================================================================
