------------------------------- MODULE Canales -------------------------------
(***************************************************************************)
(* The sockets that join the kernel, the CPUs and the consoles.            *)
(*                                                                         *)
(* A connection is a pair of FIFO queues of messages.  The order of the    *)
(* bytes and the framing are those of com_enviarMensaje and                *)
(* com_recibirMensaje, which send and read whole messages; a message is    *)
(* kept as its type, the pid it carries and, for WAIT and SIGNAL, the      *)
(* name of the semaphore.  A descriptor stands for one connection for      *)
(* ever: the reuse of a closed descriptor number is not modelled.          *)
(***************************************************************************)
EXTENDS Integers, Sequences, SequencesExt

CONSTANTS
  MaxPid,     (* bound: programs that ever connect; their pids are 1..MaxPid *)
  Cpu,        (* the CPU processes                                           *)
  Semaforo,   (* SEM_IDS of kernel.cfg                                       *)
  Nombre,     (* the semaphore names the scripts use                         *)
  Uso,        (* the messages that the instructions of the scripts send      *)
  Eventos     (* the failures and commands that the environment may cause    *)

(***************************************************************************)
(* What the environment may do, besides running correct scripts:           *)
(*   matar        a console finalizes or closes an admitted program        *)
(*   matar_new    a console does so to a program still in "new"            *)
(*   error_es     the file system or the file tables refuse an operation   *)
(*   alocar       a request of heap memory fails                           *)
(*   cursor       a script moves the cursor of a file                      *)
(*   sigusr1      a CPU is asked to leave after its burst                  *)
(*   cae_cpu      a CPU dies at any point                                  *)
(*   teclado      somebody types at the kernel, whose select watches fd 0  *)
(***************************************************************************)
TodosLosEventos == {"matar", "matar_new", "error_es", "alocar", "cursor",
                    "sigusr1", "cae_cpu", "teclado"}

Pid == 1..MaxPid

VARIABLES
  enlace,     (* enlace[c]: the TCP connection of CPU c, seen from the CPU   *)
  aKernel,    (* aKernel[c]: messages from CPU c the kernel has not read     *)
  aCpu,       (* aCpu[c]: messages from the kernel that c has not read       *)
  llegadas,   (* consoles whose connection the kernel has not accepted       *)
  pedido      (* pedido[p]: what the console of p has sent and is not read   *)

canales == <<enlace, aKernel, aCpu, llegadas, pedido>>

(* RPC of a CPU that only return a value: they change nothing that the     *)
(* scheduler decides with.                                                 *)
Consultas == {"LIBERAR", "VARIABLE_LECTURA", "VARIABLE_ESCRITURA"}

(* Messages with which a CPU gives its process back.                       *)
Finales == {"FINALIZO_EJECUCION", "FINALIZO_QUANTUM", "FINALIZO_CON_ERROR",
            "FINALIZO_STACKOVERFLOW", "PIDIO_ARCHIVO", "WAIT"}

Pedidos == Consultas \cup {"ALOCAR", "SIGNAL"}

ASSUME ConstantesCanales ==
  /\ MaxPid \in Nat \ {0}
  /\ Semaforo \subseteq Nombre
  /\ Uso \subseteq Pedidos \cup Finales
  /\ Eventos \subseteq TodosLosEventos

SinNombre == "-"

MensajesCpu == [tipo : Pedidos \cup Finales,
                pid  : Pid,
                sem  : Nombre \cup {SinNombre}]

(* The answer to an RPC carries the type of the request.                   *)
MensajesKernel == [tipo : Pedidos \cup {"ENVIAR_CONTEXTO", "FINALIZO_PROGRAMA"},
                   pid  : Pid]

(* com_enviarMensaje on the two directions of a CPU connection.            *)
MensajeCpu(tipo, p, s) == [tipo |-> tipo, pid |-> p, sem |-> s]
MensajeKernel(tipo, p) == [tipo |-> tipo, pid |-> p]

EnviarACpu(c, tipo, p) ==
  aCpu' = [aCpu EXCEPT ![c] = Append(@, MensajeKernel(tipo, p))]

TypeOKCanales ==
  /\ enlace \in [Cpu -> {"ausente", "pendiente", "abierto", "cerrado"}]
  /\ aKernel \in [Cpu -> Seq(MensajesCpu)]
  /\ aCpu \in [Cpu -> Seq(MensajesKernel)]
  /\ llegadas \in 0..MaxPid
  /\ pedido \in [Pid -> {"nada", "finalizar", "cierre", "cerrado"}]

InitCanales ==
  /\ enlace = [c \in Cpu |-> "ausente"]
  /\ aKernel = [c \in Cpu |-> <<>>]
  /\ aCpu = [c \in Cpu |-> <<>>]
  /\ llegadas = 0
  /\ pedido = [p \in Pid |-> "nada"]
=============================================================================
