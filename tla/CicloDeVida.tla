----------------------------- MODULE CicloDeVida ------------------------------
(***************************************************************************)
(* What the kernel promises about each process: it goes through the states *)
(* of the five-state diagram, it ends once, and its console is told one    *)
(* code, that of the end, at that very moment.                             *)
(***************************************************************************)
CONSTANTS
  Proceso,    (* the processes                                               *)
  Codigo,     (* the codes a console may be told                             *)
  SinCodigo   (* nothing has been told yet                                   *)

VARIABLES estado, informado

vars == <<estado, informado>>

Vivos == {"new", "ready", "exec", "blocked"}

Init ==
  /\ estado = [p \in Proceso |-> "inexistente"]
  /\ informado = [p \in Proceso |-> SinCodigo]

Cambiar(p, desde, hasta) ==
  /\ estado[p] = desde
  /\ estado' = [estado EXCEPT ![p] = hasta]
  /\ UNCHANGED informado

Crear(p) == Cambiar(p, "inexistente", "new")
Admitir(p) == Cambiar(p, "new", "ready")
Despachar(p) == Cambiar(p, "ready", "exec")
Desalojar(p) == Cambiar(p, "exec", "ready")
Bloquear(p) == Cambiar(p, "exec", "blocked")
Desbloquear(p) == Cambiar(p, "blocked", "ready")

Terminar(p, codigo) ==
  /\ estado[p] \in Vivos
  /\ estado' = [estado EXCEPT ![p] = "exit"]
  /\ informado' = [informado EXCEPT ![p] = codigo]

Next == \E p \in Proceso :
  \/ Crear(p) \/ Admitir(p) \/ Despachar(p) \/ Desalojar(p)
  \/ Bloquear(p) \/ Desbloquear(p)
  \/ \E codigo \in Codigo : Terminar(p, codigo)

Spec == Init /\ [][Next]_vars
=============================================================================
