------------------------------ MODULE Procesador ------------------------------
(***************************************************************************)
(* The CPU processes: the main loop of cpu.c and the primitives that talk  *)
(* to the kernel.  What the instructions compute is left out: a burst is   *)
(* the messages it exchanges.  The instructions that send nothing are      *)
(* silent, so a burst may end at any moment, and at most Quantum of its    *)
(* instructions are requests.                                              *)
(***************************************************************************)
EXTENDS Canales

CONSTANT Quantum  (* bound: requests of one burst (QUANTUM of kernel.cfg)   *)

ASSUME ConstantesProcesador == Quantum \in Nat

VARIABLES
  estadoCpu,   (* what each CPU process is doing                             *)
  pidCpu,      (* pcbActivo->pid while a burst runs, 0 out of it: the next   *)
               (* context replaces a pcbActivo that nobody reads any more    *)
  rpc,         (* the request whose answer the CPU waits for                 *)
  restante,    (* requests the burst may still make                          *)
  sigusr1      (* the flag that capturarSigusr1 sets                         *)

procesador == <<estadoCpu, pidCpu, rpc, restante, sigusr1>>

(*   contexto    in com_recibirMensaje, for CK_ENVIAR_CONTEXTO             *)
(*   ejecuta     in the loop of a burst                                    *)
(*   respuesta   in com_recibirMensaje, for the answer to a request        *)
(*   terminado   the process has ended and its sockets are closed          *)
(*   desfasado   it has loaded as a context a message that is none         *)
EstadosCpu == {"contexto", "ejecuta", "respuesta", "terminado", "desfasado"}

TypeOKProcesador ==
  /\ estadoCpu \in [Cpu -> EstadosCpu]
  /\ pidCpu \in [Cpu -> Pid \cup {0}]
  /\ rpc \in [Cpu -> Pedidos \cup {"ninguno"}]
  /\ restante \in [Cpu -> 0..Quantum]
  /\ sigusr1 \in [Cpu -> BOOLEAN]

InitProcesador ==
  /\ estadoCpu = [c \in Cpu |-> "contexto"]
  /\ pidCpu = [c \in Cpu |-> 0]
  /\ rpc = [c \in Cpu |-> "ninguno"]
  /\ restante = [c \in Cpu |-> 0]
  /\ sigusr1 = [c \in Cpu |-> FALSE]

Pasar(c, desde, hasta) ==
  /\ estadoCpu[c] = desde
  /\ estadoCpu' = [estadoCpu EXCEPT ![c] = hasta]

EnviarAKernel(c, mensajes) == aKernel' = [aKernel EXCEPT ![c] = @ \o mensajes]

Leer(c) == aCpu' = [aCpu EXCEPT ![c] = Tail(@)]

Descartar(c) ==
  /\ pidCpu' = [pidCpu EXCEPT ![c] = 0]
  /\ restante' = [restante EXCEPT ![c] = 0]

(* (variant: the loop of the burst goes on)                                *)
SeguirRafaga(c, desde) ==
  /\ Pasar(c, desde, "ejecuta")
  /\ UNCHANGED <<pidCpu, restante, enlace>>

(* The loop "while (!sigusr1)" either waits for another context or ends,   *)
(* and the end of the process closes the connection.                       *)
TerminarRafaga(c, desde) ==
  /\ Descartar(c)
  /\ \/ /\ ~sigusr1[c]
        /\ Pasar(c, desde, "contexto")
        /\ UNCHANGED enlace
     \/ /\ sigusr1[c]
        /\ Pasar(c, desde, "terminado")
        /\ enlace' = [enlace EXCEPT ![c] = "cerrado"]
-----------------------------------------------------------------------------
Conectar(c) ==
  /\ enlace[c] = "ausente"
  /\ enlace' = [enlace EXCEPT ![c] = "pendiente"]
  /\ UNCHANGED <<procesador, aKernel, aCpu, llegadas, pedido>>

RecibirContexto(c) ==
  /\ aCpu[c] # <<>> /\ Head(aCpu[c]).tipo = "ENVIAR_CONTEXTO"
  /\ Pasar(c, "contexto", "ejecuta")
  /\ Leer(c)
  /\ pidCpu' = [pidCpu EXCEPT ![c] = Head(aCpu[c]).pid]
  /\ restante' = [restante EXCEPT ![c] = Quantum]
  /\ UNCHANGED <<rpc, sigusr1, enlace, aKernel, llegadas, pedido>>

(* The type of the message is only logged: cargarPCB reads it anyway.      *)
RecibirOtraCosa(c) ==
  /\ aCpu[c] # <<>> /\ Head(aCpu[c]).tipo # "ENVIAR_CONTEXTO"
  /\ Pasar(c, "contexto", "desfasado")
  /\ Leer(c)
  /\ UNCHANGED <<pidCpu, rpc, restante, sigusr1, enlace, aKernel, llegadas, pedido>>

(* alocar, liberar, signalUP, obtenerValorCompartida and                   *)
(* asignarValorCompartida send a request and wait for its answer.          *)
Pedir(c, tipo, s) ==
  /\ tipo \in Uso /\ restante[c] > 0
  /\ s \in Semaforo <=> tipo = "SIGNAL"
  /\ Pasar(c, "ejecuta", "respuesta")
  /\ EnviarAKernel(c, <<MensajeCpu(tipo, pidCpu[c], s)>>)
  /\ rpc' = [rpc EXCEPT ![c] = tipo]
  /\ restante' = [restante EXCEPT ![c] = @ - 1]
  /\ UNCHANGED <<pidCpu, sigusr1, enlace, aCpu, llegadas, pedido>>

RecibirRespuesta(c) ==
  /\ aCpu[c] # <<>> /\ Head(aCpu[c]).tipo = rpc[c]
  /\ Pasar(c, "respuesta", "ejecuta")
  /\ Leer(c)
  /\ rpc' = [rpc EXCEPT ![c] = "ninguno"]
  /\ UNCHANGED <<pidCpu, restante, sigusr1, enlace, aKernel, llegadas, pedido>>

(* Any other message makes the CPU answer FINALIZO_CON_ERROR.  estadoEnCPU *)
(* is still EJECUTANDO, so the burst goes on; but signalUP and             *)
(* asignarValorCompartida then look at resultado_respuesta, and a 0 stops  *)
(* the burst, which reports again: a context has none, which is read as 0, *)
(* and the answer to another request has a 0 or a 1.                       *)
MiranResultado == {"SIGNAL", "VARIABLE_ESCRITURA"}

RecibirRespuestaInesperada(c) ==
  LET error == MensajeCpu("FINALIZO_CON_ERROR", pidCpu[c], SinNombre) IN
  /\ aCpu[c] # <<>> /\ Head(aCpu[c]).tipo # rpc[c]
  /\ Leer(c)
  /\ rpc' = [rpc EXCEPT ![c] = "ninguno"]
  /\ \/ /\ rpc[c] \notin MiranResultado \/ Head(aCpu[c]).tipo \in Pedidos
        /\ Pasar(c, "respuesta", "ejecuta")
        /\ EnviarAKernel(c, <<error>>)
        /\ UNCHANGED <<enlace, pidCpu, restante>>
     \/ /\ rpc[c] \in MiranResultado
        /\ TerminarRafaga(c, "respuesta")
        /\ EnviarAKernel(c, <<error, error>>)
  /\ UNCHANGED <<sigusr1, llegadas, pedido>>

(* The burst ends with a message that carries the context back: the        *)
(* quantum is over, the script ends or fails, or it asks for an operation  *)
(* that the kernel serves while the process is blocked.                    *)
FinDeRafaga(c, tipo, s) ==
  /\ tipo \in Uso
  /\ s \in Nombre <=> tipo = "WAIT"
  /\ TerminarRafaga(c, "ejecuta")
  /\ EnviarAKernel(c, <<MensajeCpu(tipo, pidCpu[c], s)>>)
  /\ UNCHANGED <<rpc, sigusr1, aCpu, llegadas, pedido>>

(* moverCursor ends the burst too, and nothing is sent.                    *)
MoverCursor(c) ==
  /\ "cursor" \in Eventos
  /\ TerminarRafaga(c, "ejecuta")
  /\ UNCHANGED <<rpc, sigusr1, aKernel, aCpu, llegadas, pedido>>

(* The handler only sets the flag; a recv in progress is resumed.          *)
Sigusr1(c) ==
  /\ "sigusr1" \in Eventos
  /\ ~sigusr1[c] /\ estadoCpu[c] # "terminado" /\ enlace[c] = "abierto"
  /\ sigusr1' = [sigusr1 EXCEPT ![c] = TRUE]
  /\ UNCHANGED <<canales, estadoCpu, pidCpu, rpc, restante>>

CaerCpu(c) ==
  /\ "cae_cpu" \in Eventos
  /\ enlace[c] = "abierto" /\ estadoCpu[c] # "terminado"
  /\ estadoCpu' = [estadoCpu EXCEPT ![c] = "terminado"]
  /\ enlace' = [enlace EXCEPT ![c] = "cerrado"]
  /\ Descartar(c)
  /\ UNCHANGED <<rpc, sigusr1, aKernel, aCpu, llegadas, pedido>>
=============================================================================
