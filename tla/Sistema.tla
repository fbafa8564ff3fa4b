------------------------------- MODULE Sistema --------------------------------
(***************************************************************************)
(* The kernel, the CPUs and the consoles together, and what they achieve.  *)
(***************************************************************************)
EXTENDS Planificador, Procesador, Consolas

CONSTANT MaxValor  (* bound: value a semaphore may reach                     *)

ASSUME ConstantesSistema == MaxValor \in Nat

vars == <<kernel, canales, procesador>>

Init == InitKernel /\ InitCanales /\ InitProcesador

(* A console knows the pid once the kernel has accepted its program.       *)
ConoceElPid(p) == p < numeroPid

PuedeMatar(p) ==
  /\ ConoceElPid(p)
  /\ IF p \in En("new") THEN "matar_new" \in Eventos ELSE "matar" \in Eventos

Consola ==
  /\ \/ IniciarPrograma(numeroPid)
     \/ \E p \in Pid : PuedeMatar(p) /\ (PedirFinalizar(p) \/ CerrarConsola(p))
  /\ UNCHANGED <<kernel, procesador>>

RespetaCota(s) == s \in Semaforo => valor[s] < MaxValor

(* What a CPU does by itself.                                              *)
TrabajoDeCpu(c) ==
  /\ \/ RecibirContexto(c) \/ RecibirOtraCosa(c)
     \/ \E tipo \in Pedidos : \E s \in Semaforo \cup {SinNombre} :
          RespetaCota(s) /\ Pedir(c, tipo, s)
     \/ RecibirRespuesta(c) \/ RecibirRespuestaInesperada(c)
     \/ \E tipo \in Finales : \E s \in Nombre \cup {SinNombre} : FinDeRafaga(c, tipo, s)
     \/ MoverCursor(c)
  /\ UNCHANGED kernel

(* What is done to it.                                                     *)
SucesoDeCpu(c) ==
  /\ Conectar(c) \/ Sigusr1(c) \/ CaerCpu(c)
  /\ UNCHANGED kernel

PasoDeKernel == NextKernel /\ UNCHANGED procesador

Next == PasoDeKernel \/ Consola \/ \E c \in Cpu : TrabajoDeCpu(c) \/ SucesoDeCpu(c)

Spec == Init /\ [][Next]_vars

(* The kernel's thread goes on while it is not blocked in select(), which  *)
(* returns when there is something to read; a CPU that is not waiting for  *)
(* a message goes on with its burst, which has a bounded number of         *)
(* instructions, and one that waits reads the message that arrives.        *)
(* Nobody is forced to connect a CPU, to start a program or to end one.    *)
Justicia == WF_vars(PasoDeKernel) /\ \A c \in Cpu : WF_vars(TrabajoDeCpu(c))

SpecJusta == Spec /\ Justicia
-----------------------------------------------------------------------------
(* Types of the kernel's, the sockets' and the CPUs' variables.            *)
TipoCorrecto == TypeOK /\ TypeOKProcesador

(* A PCB is in one place: every program that was accepted is in exactly    *)
(* one of the five lists, once, although each function that moves it       *)
(* searches one list only and removes and adds in two operations.          *)
UnicaLista ==
  /\ \A e, d \in Estados : \A j \in DOMAIN listas[e], k \in DOMAIN listas[d] :
        listas[e][j] = listas[d][k] => e = d /\ j = k
  /\ \A p \in Pid : p < numeroPid <=> \E e \in Estados : p \in En(e)

EnSistema == Len(listas["ready"]) + Len(listas["exec"]) + Len(listas["blocked"])

(* procesosEnSistema, which five functions adjust on their own, is the     *)
(* number of admitted processes that have not ended.                       *)
CuentaSistema == procesosEnSistema = EnSistema

(* The degree of multiprogramming bounds the processes in the system.      *)
GradoRespetado == EnSistema <= Grado

(* Units and waiters do not coexist: a queue is empty whenever its         *)
(* semaphore is positive, so no process sleeps beside a unit it could use. *)
SinUnidadOciosa == \A s \in Semaforo : pilaEspera[s] # <<>> => valor[s] = 0

Espera(p) == p \in En("blocked") /\ exitCode[p] = "ESPERANDO_SEMAFORO"

(* A process that sleeps on a semaphore can be woken: it is in the queue   *)
(* of that semaphore, once, and in no other.                               *)
DormidoEnCola ==
  \A p \in Pid : Espera(p) /\ nombreSemaforo[p] \in Semaforo =>
    /\ \E k \in DOMAIN pilaEspera[nombreSemaforo[p]] : pilaEspera[nombreSemaforo[p]][k] = p
    /\ \A s \in Semaforo : \A j, k \in DOMAIN pilaEspera[s] :
         pilaEspera[s][j] = p /\ pilaEspera[s][k] = p => s = nombreSemaforo[p] /\ j = k

(* A SIGNAL is never spent on a process that cannot use it: those in the   *)
(* queue of a semaphore are asleep on it.                                  *)
ColaDeDormidos ==
  \A s \in Semaforo : \A p \in ToSet(pilaEspera[s]) :
    Espera(p) /\ nombreSemaforo[p] = s

(* With processes that are killed, the queue may also hold dead ones: the  *)
(* code that ends a process does not take it out of its semaphore.  Nobody *)
(* who is READY or running is there.                                       *)
ColaDeDormidosOMuertos ==
  \A s \in Semaforo : \A p \in ToSet(pilaEspera[s]) :
    p \in En("exit") \/ (Espera(p) /\ nombreSemaforo[p] = s)

(* The places where a CPU holds a process: its context is on the way to    *)
(* the CPU, is being run, or is on the way back.                           *)
Tenencias(p) ==
  {<<c, "ida">> : c \in {d \in Cpu : MensajeKernel("ENVIAR_CONTEXTO", p) \in ToSet(aCpu[d])}}
  \cup {<<c, "cpu">> : c \in {d \in Cpu : estadoCpu[d] \in {"ejecuta", "respuesta"} /\ pidCpu[d] = p}}
  \cup {<<c, "vuelta">> : c \in {d \in Cpu : \E m \in ToSet(aKernel[d]) : m.pid = p /\ m.tipo \in Finales}}

(* No process runs on two CPUs at once, killed or not.                     *)
UnaSolaCpu == \A p \in Pid : Cardinality(Tenencias(p)) <= 1

(* A process in EXEC is really at a CPU.                                   *)
ExecEnCpu == \A p \in En("exec") : Tenencias(p) # {}

(* A process that is not in EXEC and has not been ended from outside is at *)
(* no CPU: a context is never copied to two states.                        *)
FueraDeExecSinCpu == \A p \in En("ready") \cup En("blocked") : Tenencias(p) = {}

(* A CPU that waits for a context has given its process back: the kernel   *)
(* knows it is free, or a message that will tell it is on its way.         *)
OciosaAvisada ==
  \A c \in Cpu : estadoCpu[c] = "contexto" /\ enlace[c] = "abierto" =>
    libre[c] \/ aKernel[c] # <<>> \/ aCpu[c] # <<>>

(* Memory follows the life of the process: frames belong exactly to the    *)
(* processes that have been admitted and have not ended.                   *)
PaginasDeVivos == conPaginas = En("ready") \cup En("exec") \cup En("blocked")

(* A process that can run carries no mark of a semaphore: an awakened      *)
(* waiter, or one whose file operation was served, goes on with code 0.    *)
ListoSinMarca ==
  \A p \in En("new") \cup En("ready") \cup En("exec") : exitCode[p] = "CORRECTO"

Estado(p) == IF p < numeroPid THEN CHOOSE e \in Estados : p \in En(e) ELSE "inexistente"

Ciclo == INSTANCE CicloDeVida WITH
  Proceso <- Pid, Codigo <- CodigosFinales, SinCodigo <- SinAviso,
  estado <- [p \in Pid |-> Estado(p)], informado <- aviso

(* The kernel implements the life cycle of every process: main() and       *)
(* actualizarEstadoSistema move it only along the five-state diagram, and  *)
(* its console is told one code, once, when it ends.                       *)
CumpleCiclo == Ciclo!Spec

(* A ready process runs in the end if some CPU is connected: the free CPUs *)
(* take from the head of READY, and every burst ends and gives one back.   *)
ListoEjecuta ==
  \A p \in Pid : (p \in En("ready") /\ cpus # <<>>) ~> p \in En("exec") \cup En("exit")

(* A waiter that was given a unit leaves BLOCKED: actualizarEstadoSistema, *)
(* that needs two passes to see it and may jump over it, runs again.       *)
DespiertoSigue ==
  \A p \in Pid : exitCode[p] = "TERMINO_ESPERA" ~> p \in En("ready") \cup En("exit")

(* A program whose console asks for its end, or goes away, does end, and   *)
(* the kernel has then reported a code for it.                             *)
PedidoTermina ==
  \A p \in Pid : pedido[p] \in {"finalizar", "cierre"} ~> aviso[p] # SinAviso
=============================================================================
