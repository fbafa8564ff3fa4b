----------------------------- MODULE Planificador -----------------------------
(***************************************************************************)
(* The main thread of the kernel: the select loop of main() and            *)
(* actualizarEstadoSistema(), which move the PCBs between the five state   *)
(* lists, serve the semaphores and hand processes to the CPUs.             *)
(*                                                                         *)
(* The thread runs one iteration of the loop as the phases of "fase":      *)
(*   select    blocked in select()                                         *)
(*   eventos   handlers of the descriptors that select() reported          *)
(*   bloqueados, nuevos, despacho                                          *)
(*             the three loops of actualizarEstadoSistema()                *)
(* Each loop body is one step; "indice" is the loop variable, counted from *)
(* 1, so that an element removed from the list being walked makes the loop *)
(* jump over the next one exactly as list_remove(l, i) and ++i do.         *)
(***************************************************************************)
EXTENDS Canales

CONSTANTS
  SemInit,         (* SEM_INIT: the initial value of each semaphore          *)
  Grado,           (* gradoMultiprogramacion                                 *)
  Modulo           (* procesosEnSistema is unsigned: it counts mod Modulo    *)

ASSUME ConstantesPlanificador ==
  /\ SemInit \in [Semaforo -> Nat]
  /\ Grado \in Nat
  /\ Modulo \in Nat /\ Modulo > MaxPid /\ Modulo > Grado

VARIABLES
  listas,            (* listas->new, ready, exec, blocked and exit           *)
  numeroPid,         (* next pid; listas->programas is 1..numeroPid-1        *)
  exitCode,          (* pcb->exitCode                                        *)
  operacionES,       (* pcb->operacionES                                     *)
  nombreSemaforo,    (* pcb->nombreSemaforo                                  *)
  valor,             (* t_var_comp.valor of each semaphore                   *)
  pilaEspera,        (* t_var_comp.pilaEspera, a queue of PCBs               *)
  procesosEnSistema,
  cpus,              (* listas->cpus                                         *)
  activo, libre,     (* t_cpu.activo and t_cpu.libre                         *)
  aviso,             (* codigo_retorno sent to the console of each process   *)
  conPaginas,        (* pids that own frames in the memory process           *)
  fase, indice,      (* where the thread is                                  *)
  readfds            (* the descriptors that select() reported               *)

pcbs == <<numeroPid, exitCode, operacionES, nombreSemaforo>>
semaforos == <<valor, pilaEspera>>
tablaCpus == <<cpus, activo, libre>>
control == <<fase, indice, readfds>>
kernel == <<listas, pcbs, semaforos, procesosEnSistema, tablaCpus, aviso,
            conPaginas, control>>

Estados == {"new", "ready", "exec", "blocked", "exit"}
Fases == {"select", "eventos", "bloqueados", "nuevos", "despacho"}

(* Exit codes of kernel.h.  ERROR_ES stands for the four codes with which  *)
(* atenderES ends a process; the last two are marks of the semaphores.     *)
CodigosFinales == {"CORRECTO", "COMANDO_FINALIZAR", "EXCEPCION_MEMORIA",
                   "STACKOVERFLOW", "LIMITE_PAGINA", "ERROR_ES"}
Codigos == CodigosFinales \cup {"ESPERANDO_SEMAFORO", "TERMINO_ESPERA"}
SinAviso == "ninguno"

Operaciones == {"archivo", "wait", "atendida"}

Nada == [cpu |-> FALSE, programa |-> FALSE, programas |-> {}, cpus |-> {}]

TypeOK ==
  /\ TypeOKCanales
  /\ listas \in [Estados -> Seq(Pid)]
  /\ numeroPid \in 1..(MaxPid + 1)
  /\ exitCode \in [Pid -> Codigos]
  /\ operacionES \in [Pid -> Operaciones]
  /\ nombreSemaforo \in [Pid -> Nombre \cup {SinNombre}]
  /\ valor \in [Semaforo -> Nat]
  /\ pilaEspera \in [Semaforo -> Seq(Pid)]
  /\ procesosEnSistema \in 0..(Modulo - 1)
  /\ cpus \in Seq(Cpu)
  /\ activo \in [Cpu -> BOOLEAN]
  /\ libre \in [Cpu -> BOOLEAN]
  /\ aviso \in [Pid -> Codigos \cup {SinAviso}]
  /\ conPaginas \in SUBSET Pid
  /\ fase \in Fases
  /\ indice \in Nat \ {0}
  /\ readfds \in [cpu : BOOLEAN, programa : BOOLEAN,
                  programas : SUBSET Pid, cpus : SUBSET Cpu]

InitKernel ==
  /\ listas = [e \in Estados |-> <<>>]
  /\ numeroPid = 1
  /\ exitCode = [p \in Pid |-> "CORRECTO"]
  /\ operacionES = [p \in Pid |-> "atendida"]  (* never read before it is set *)
  /\ nombreSemaforo = [p \in Pid |-> SinNombre]
  /\ valor = SemInit
  /\ pilaEspera = [s \in Semaforo |-> <<>>]
  /\ procesosEnSistema = 0
  /\ cpus = <<>>
  /\ activo = [c \in Cpu |-> FALSE]
  /\ libre = [c \in Cpu |-> FALSE]
  /\ aviso = [p \in Pid |-> SinAviso]
  /\ conPaginas = {}
  /\ fase = "select"
  /\ indice = 1
  /\ readfds = Nada
-----------------------------------------------------------------------------
(* The lists.                                                              *)

En(e) == ToSet(listas[e])

(* (variant: the element stays in the list it comes from)                  *)
MoverSinQuitar(e, k, d) ==
  listas' = [listas EXCEPT ![d] = Append(listas[d], listas[e][k])]

(* Every move of the kernel takes one PCB out of a list and adds it at the *)
(* end of another.                                                         *)
MoverDesde(e, k, d) ==
  listas' = [listas EXCEPT ![e] = RemoveAt(listas[e], k),
                           ![d] = Append(listas[d], listas[e][k])]

Posicion(e, p) == CHOOSE k \in DOMAIN listas[e] : listas[e][k] = p

Mover(e, p, d) == MoverDesde(e, Posicion(e, p), d)

(* (variant: the process is left where it was)                             *)
NoMoverDeExec(p, d) == UNCHANGED listas

(* The functions that move a process out of EXEC look for its pid there    *)
(* and do nothing when somebody else has already taken it away.            *)
MoverDeExec(p, d) ==
  IF p \in En("exec") THEN Mover("exec", p, d) ELSE UNCHANGED listas

(* (variants: one of the three effects is forgotten)                       *)
LiberarSinMemoria(p, codigo) ==
  /\ UNCHANGED conPaginas
  /\ aviso' = [aviso EXCEPT ![p] = codigo]
  /\ procesosEnSistema' = (procesosEnSistema + Modulo - 1) % Modulo

LiberarSinAviso(p, codigo) ==
  /\ conPaginas' = conPaginas \ {p}
  /\ UNCHANGED aviso
  /\ procesosEnSistema' = (procesosEnSistema + Modulo - 1) % Modulo

LiberarSinContar(p, codigo) ==
  /\ conPaginas' = conPaginas \ {p}
  /\ aviso' = [aviso EXCEPT ![p] = codigo]
  /\ UNCHANGED procesosEnSistema

(* What every end of a process does: memory frees its pages, its console   *)
(* is told the code and the process no longer counts.                      *)
LiberarRecursos(p, codigo) ==
  /\ conPaginas' = conPaginas \ {p}
  /\ aviso' = [aviso EXCEPT ![p] = codigo]
  /\ procesosEnSistema' = (procesosEnSistema + Modulo - 1) % Modulo

ConservaRecursos == UNCHANGED <<conPaginas, aviso, procesosEnSistema>>

FinalizarProgramaConError(e, p, codigo) ==
  /\ exitCode' = [exitCode EXCEPT ![p] = codigo]
  /\ Mover(e, p, "exit")
  /\ LiberarRecursos(p, codigo)

FinalizarPrograma(p, codigo) ==
  \/ \E e \in Estados \ {"exit"} :
        /\ p \in En(e)
        /\ FinalizarProgramaConError(e, p, codigo)
  \/ /\ \A e \in Estados \ {"exit"} : p \notin En(e)
     /\ UNCHANGED <<listas, exitCode>>
     /\ ConservaRecursos

MoverProgramaDeExecAExit(p) ==
  \/ /\ p \in En("exec")
     /\ Mover("exec", p, "exit")
     /\ LiberarRecursos(p, exitCode'[p])
  \/ /\ p \notin En("exec")
     /\ UNCHANGED listas
     /\ ConservaRecursos
-----------------------------------------------------------------------------
(* select(): the readable descriptors at the moment of the call.           *)
Legibles ==
  [cpu       |-> \E c \in Cpu : enlace[c] = "pendiente",
   programa  |-> llegadas > 0,
   programas |-> {p \in 1..(numeroPid - 1) : pedido[p] \in {"finalizar", "cierre"}},
   cpus      |-> {c \in ToSet(cpus) : aKernel[c] # <<>> \/ enlace[c] = "cerrado"}]

Select ==
  /\ fase = "select"
  /\ Legibles # Nada \/ "teclado" \in Eventos
  /\ readfds' = Legibles
  /\ fase' = "eventos"
  /\ indice' = 1
  /\ UNCHANGED <<canales, listas, pcbs, semaforos, procesosEnSistema, tablaCpus,
                 aviso, conPaginas>>

(* The listeners come first, CPUs before programs.                         *)
NuevoCpu(c) ==
  /\ fase = "eventos" /\ readfds.cpu
  /\ enlace[c] = "pendiente"
  /\ enlace' = [enlace EXCEPT ![c] = "abierto"]
  /\ cpus' = Append(cpus, c)
  /\ activo' = [activo EXCEPT ![c] = TRUE]
  /\ libre' = [libre EXCEPT ![c] = TRUE]
  /\ readfds' = [readfds EXCEPT !.cpu = FALSE]
  /\ UNCHANGED <<aKernel, aCpu, llegadas, pedido, listas, pcbs, semaforos,
                 procesosEnSistema, aviso, conPaginas, fase, indice>>

NuevoPrograma ==
  /\ fase = "eventos" /\ ~readfds.cpu /\ readfds.programa
  /\ numeroPid <= MaxPid
  /\ llegadas' = llegadas - 1
  /\ listas' = [listas EXCEPT !["new"] = Append(@, numeroPid)]
  /\ numeroPid' = numeroPid + 1
  /\ exitCode' = [exitCode EXCEPT ![numeroPid] = "CORRECTO"]
  /\ readfds' = [readfds EXCEPT !.programa = FALSE]
  /\ UNCHANGED <<enlace, aKernel, aCpu, pedido, operacionES, nombreSemaforo,
                 semaforos, procesosEnSistema, tablaCpus, aviso, conPaginas,
                 fase, indice>>

(* Then the programs, in the order of listas->programas, which is that of  *)
(* the pids.  A closed console is treated as a FINALIZAR command.          *)
AtenderPrograma(p) ==
  /\ fase = "eventos" /\ ~readfds.cpu /\ ~readfds.programa
  /\ p \in readfds.programas
  /\ \A q \in readfds.programas : p <= q
  /\ pedido' = [pedido EXCEPT ![p] = IF @ = "cierre" THEN "cerrado" ELSE "nada"]
  /\ FinalizarPrograma(p, "COMANDO_FINALIZAR")
  /\ readfds' = [readfds EXCEPT !.programas = @ \ {p}]
  /\ UNCHANGED <<enlace, aKernel, aCpu, llegadas, numeroPid, operacionES,
                 nombreSemaforo, semaforos, tablaCpus, fase, indice>>
-----------------------------------------------------------------------------
(* Then the CPUs, by position in listas->cpus.                             *)

TurnoDeCpus ==
  /\ fase = "eventos" /\ ~readfds.cpu /\ ~readfds.programa
  /\ readfds.programas = {}

(* k is the next position whose CPU select() reported.                     *)
EsTurno(k) ==
  /\ cpus[k] \in readfds.cpus
  /\ \A j \in indice..(k - 1) : cpus[j] \notin readfds.cpus

(* com_recibirMensaje on the CPU whose turn it is.                         *)
Recibir(c, m) ==
  /\ TurnoDeCpus
  /\ \E k \in indice..Len(cpus) :
       EsTurno(k) /\ c = cpus[k] /\ indice' = k + 1
  /\ aKernel[c] # <<>> /\ m = Head(aKernel[c])
  /\ aKernel' = [aKernel EXCEPT ![c] = Tail(@)]
  /\ UNCHANGED <<enlace, llegadas, pedido, numeroPid, fase, readfds, cpus>>

(* (variant: the CPU is not marked free)                                   *)
DevolverSinLiberar(c) ==
  /\ activo' = [activo EXCEPT ![c] = TRUE]
  /\ UNCHANGED <<libre, aCpu>>

(* actPCB: the context in the message replaces the one in the PCB, and its *)
(* field continua_activo, which is never zero, says the CPU goes on.       *)
DevolverCpu(c) ==
  /\ activo' = [activo EXCEPT ![c] = TRUE]
  /\ libre' = [libre EXCEPT ![c] = TRUE]
  /\ UNCHANGED aCpu

(* actPCB = false: the CPU keeps its process.                              *)
SigueEnCpu(c) == UNCHANGED <<activo, libre>>

FinalizoEjecucion(c, m) ==
  /\ m.tipo = "FINALIZO_EJECUCION"
  /\ exitCode' = exitCode
  /\ MoverProgramaDeExecAExit(m.pid)
  /\ DevolverCpu(c)
  /\ UNCHANGED <<operacionES, nombreSemaforo, semaforos>>

FinalizoConError(c, m) ==
  /\ m.tipo \in {"FINALIZO_CON_ERROR", "FINALIZO_STACKOVERFLOW"}
  /\ exitCode' = [exitCode EXCEPT ![m.pid] =
                    IF m.tipo = "FINALIZO_STACKOVERFLOW" THEN "STACKOVERFLOW"
                                                         ELSE "EXCEPCION_MEMORIA"]
  /\ MoverProgramaDeExecAExit(m.pid)
  /\ DevolverCpu(c)
  /\ UNCHANGED <<operacionES, nombreSemaforo, semaforos>>

FinalizoQuantum(c, m) ==
  /\ m.tipo = "FINALIZO_QUANTUM"
  /\ MoverDeExec(m.pid, "ready")
  /\ DevolverCpu(c)
  /\ ConservaRecursos
  /\ UNCHANGED <<exitCode, operacionES, nombreSemaforo, semaforos>>

(* The five file operations: what atenderES is to do is left in the PCB.   *)
PidioArchivo(c, m) ==
  /\ m.tipo = "PIDIO_ARCHIVO"
  /\ MoverDeExec(m.pid, "blocked")
  /\ operacionES' = [operacionES EXCEPT ![m.pid] = "archivo"]
  /\ DevolverCpu(c)
  /\ ConservaRecursos
  /\ UNCHANGED <<exitCode, nombreSemaforo, semaforos>>

Wait(c, m) ==
  /\ m.tipo = "WAIT"
  /\ nombreSemaforo' = [nombreSemaforo EXCEPT ![m.pid] = m.sem]
  /\ operacionES' = [operacionES EXCEPT ![m.pid] = "wait"]
  /\ MoverDeExec(m.pid, "blocked")
  /\ DevolverCpu(c)
  /\ ConservaRecursos
  /\ UNCHANGED <<exitCode, semaforos>>

(* (variant: the unit is added although a waiter takes it)                 *)
DespertarYSumar(s) ==
  /\ valor' = [valor EXCEPT ![s] = @ + 1]
  /\ IF pilaEspera[s] # <<>>
     THEN /\ exitCode' = [exitCode EXCEPT ![Head(pilaEspera[s])] = "TERMINO_ESPERA"]
          /\ pilaEspera' = [pilaEspera EXCEPT ![s] = Tail(@)]
     ELSE UNCHANGED <<exitCode, pilaEspera>>

(* A unit goes to the process that has waited longest, if there is one.    *)
DespertarOSumar(s) ==
  IF pilaEspera[s] # <<>>
  THEN /\ exitCode' = [exitCode EXCEPT ![Head(pilaEspera[s])] = "TERMINO_ESPERA"]
       /\ pilaEspera' = [pilaEspera EXCEPT ![s] = Tail(@)]
       /\ UNCHANGED valor
  ELSE /\ valor' = [valor EXCEPT ![s] = @ + 1]
       /\ UNCHANGED <<exitCode, pilaEspera>>

(* SIGNAL answers the CPU, which goes on with the same process.            *)
Signal(c, m) ==
  /\ m.tipo = "SIGNAL"
  /\ nombreSemaforo' = [nombreSemaforo EXCEPT ![m.pid] = m.sem]
  /\ EnviarACpu(c, "SIGNAL", m.pid)
  /\ DespertarOSumar(m.sem)
  /\ ConservaRecursos
  /\ UNCHANGED <<listas, operacionES>>
  /\ SigueEnCpu(c)

Consulta(c, m) ==
  /\ m.tipo \in Consultas
  /\ EnviarACpu(c, m.tipo, m.pid)
  /\ ConservaRecursos
  /\ UNCHANGED <<listas, exitCode, operacionES, nombreSemaforo, semaforos>>
  /\ SigueEnCpu(c)

AlocarBien(c, m) ==
  /\ m.tipo = "ALOCAR"
  /\ EnviarACpu(c, "ALOCAR", m.pid)
  /\ conPaginas' = conPaginas \cup {m.pid}
  /\ UNCHANGED <<listas, exitCode, operacionES, nombreSemaforo, semaforos,
                 aviso, procesosEnSistema>>
  /\ SigueEnCpu(c)

(* A failed reservation ends the process and frees the CPU in the table.   *)
(* The request has no continua_activo, which is then read as 0.  When the  *)
(* page that cannot be had is the first of the heap nothing is answered.   *)
AlocarMal(c, m) ==
  /\ m.tipo = "ALOCAR" /\ "alocar" \in Eventos
  /\ FinalizarPrograma(m.pid, "LIMITE_PAGINA")
  /\ EnviarACpu(c, "FINALIZO_PROGRAMA", m.pid) \/ UNCHANGED aCpu
  /\ activo' = [activo EXCEPT ![c] = FALSE]
  /\ libre' = [libre EXCEPT ![c] = TRUE]
  /\ UNCHANGED <<operacionES, nombreSemaforo, semaforos>>

AtenderCpu(c) ==
  \E m \in ToSet(aKernel[c]) :
    /\ Recibir(c, m)
    /\ \/ FinalizoEjecucion(c, m)
       \/ FinalizoConError(c, m)
       \/ FinalizoQuantum(c, m)
       \/ PidioArchivo(c, m)
       \/ Wait(c, m)
       \/ Signal(c, m)
       \/ Consulta(c, m)
       \/ AlocarBien(c, m)
       \/ AlocarMal(c, m)

(* End of file: the CPU leaves the table, its process stays where it was.  *)
DesconexionCpu(c) ==
  /\ TurnoDeCpus
  /\ aKernel[c] = <<>>
  /\ \E k \in indice..Len(cpus) :
       EsTurno(k) /\ c = cpus[k] /\ cpus' = RemoveAt(cpus, k) /\ indice' = k + 1
  /\ UNCHANGED <<canales, listas, pcbs, semaforos, procesosEnSistema, activo,
                 libre, aviso, conPaginas, fase, readfds>>

FinDeEventos ==
  /\ TurnoDeCpus
  /\ \A k \in indice..Len(cpus) : cpus[k] \notin readfds.cpus
  /\ fase' = "bloqueados"
  /\ indice' = 1
  /\ readfds' = Nada
  /\ UNCHANGED <<canales, listas, pcbs, semaforos, procesosEnSistema, tablaCpus,
                 aviso, conPaginas>>
-----------------------------------------------------------------------------
(* actualizarEstadoSistema(), first loop: serve the blocked processes.     *)

EnBloqueado(p) ==
  /\ fase = "bloqueados"
  /\ indice <= Len(listas["blocked"])
  /\ p = listas["blocked"][indice]
  /\ indice' = indice + 1
  /\ UNCHANGED <<canales, numeroPid, nombreSemaforo, tablaCpus, fase, readfds>>

(* (variants: the wake-up is seen before it is given; it is never seen)    *)
DespertarAntes(p) == exitCode' = [exitCode EXCEPT ![p] = "CORRECTO"]
NoDespertar(p) == UNCHANGED exitCode

BorrarMarca(p) ==
  exitCode' = [exitCode EXCEPT ![p] = IF @ = "TERMINO_ESPERA" THEN "CORRECTO" ELSE @]

(* A process in a semaphore's queue is left alone.  One that was signalled *)
(* only changes its mark: it is served in the next call.                   *)
PasarBloqueado(p) ==
  /\ EnBloqueado(p)
  /\ exitCode[p] \in {"TERMINO_ESPERA", "ESPERANDO_SEMAFORO"}
  /\ BorrarMarca(p)
  /\ ConservaRecursos
  /\ UNCHANGED <<listas, operacionES, semaforos>>

PorAtender(p) ==
  /\ EnBloqueado(p)
  /\ exitCode[p] \notin {"TERMINO_ESPERA", "ESPERANDO_SEMAFORO"}
  /\ operacionES' = [operacionES EXCEPT ![p] = "atendida"]

ABlockedReady == MoverDesde("blocked", indice, "ready") /\ ConservaRecursos

(* atenderES: a file operation, or the second visit of a signalled waiter. *)
AtenderES(p) ==
  /\ PorAtender(p)
  /\ operacionES[p] # "wait"
  /\ exitCode' = [exitCode EXCEPT ![p] = "CORRECTO"]
  /\ ABlockedReady
  /\ UNCHANGED semaforos

AtenderESConError(p) ==
  /\ PorAtender(p)
  /\ operacionES[p] = "archivo" /\ "error_es" \in Eventos
  /\ FinalizarProgramaConError("blocked", p, "ERROR_ES")
  /\ UNCHANGED semaforos

(* (variants: nobody looks whether there is a unit; the unit is not taken; *)
(* who must sleep does not join the queue)                                 *)
TomarSinMirar(p, s) ==
  /\ valor' = [valor EXCEPT ![s] = @ - 1]
  /\ exitCode' = [exitCode EXCEPT ![p] = "CORRECTO"]
  /\ UNCHANGED pilaEspera

EntrarSinTomar(p, s) ==
  IF valor[s] > 0
  THEN exitCode' = [exitCode EXCEPT ![p] = "CORRECTO"] /\ UNCHANGED <<valor, pilaEspera>>
  ELSE /\ pilaEspera' = [pilaEspera EXCEPT ![s] = Append(@, p)]
       /\ exitCode' = [exitCode EXCEPT ![p] = "ESPERANDO_SEMAFORO"]
       /\ UNCHANGED valor

DormirSinEncolar(p, s) ==
  /\ exitCode' = [exitCode EXCEPT ![p] = IF valor[s] > 0 THEN "CORRECTO"
                                                        ELSE "ESPERANDO_SEMAFORO"]
  /\ valor' = [valor EXCEPT ![s] = IF @ > 0 THEN @ - 1 ELSE @]
  /\ UNCHANGED pilaEspera

(* The process joins the queue; when there is a unit its head takes it.    *)
TomarODormir(p, s) ==
  LET cola == Append(pilaEspera[s], p) IN
  IF valor[s] > 0
  THEN /\ valor' = [valor EXCEPT ![s] = @ - 1]
       /\ pilaEspera' = [pilaEspera EXCEPT ![s] = Tail(cola)]
       /\ exitCode' = [exitCode EXCEPT ![p] = "ESPERANDO_SEMAFORO",
                                       ![Head(cola)] = "CORRECTO"]
  ELSE /\ pilaEspera' = [pilaEspera EXCEPT ![s] = cola]
       /\ exitCode' = [exitCode EXCEPT ![p] = "ESPERANDO_SEMAFORO"]
       /\ UNCHANGED valor

(* (variant: it leaves BLOCKED whatever atenderES said)                    *)
SalirSiempre(p) == ABlockedReady

SalirSiPuede(p) ==
  \/ exitCode'[p] = "CORRECTO" /\ ABlockedReady
  \/ exitCode'[p] # "CORRECTO" /\ UNCHANGED listas /\ ConservaRecursos

(* atenderES: WAIT.  Only a process that got a unit leaves BLOCKED now.    *)
AtenderWait(p) ==
  /\ PorAtender(p)
  /\ operacionES[p] = "wait"
  /\ nombreSemaforo[p] \in Semaforo
  /\ TomarODormir(p, nombreSemaforo[p])
  /\ SalirSiPuede(p)

(* atenderES: WAIT on a name that is not in SEM_IDS.                       *)
AtenderWaitDesconocido(p) ==
  /\ PorAtender(p)
  /\ operacionES[p] = "wait"
  /\ nombreSemaforo[p] \notin Semaforo
  /\ exitCode' = [exitCode EXCEPT ![p] = "ESPERANDO_SEMAFORO"]
  /\ ConservaRecursos
  /\ UNCHANGED <<listas, semaforos>>

(* The end of one loop of actualizarEstadoSistema is the start of the next.*)
FinDeLazo(f, largo, siguiente) ==
  /\ fase = f
  /\ indice > largo
  /\ fase' = siguiente
  /\ indice' = 1
  /\ UNCHANGED <<canales, listas, pcbs, semaforos, procesosEnSistema, tablaCpus,
                 aviso, conPaginas, readfds>>

FinBloqueados == FinDeLazo("bloqueados", Len(listas["blocked"]), "nuevos")
FinNuevos == FinDeLazo("nuevos", Len(listas["new"]), "despacho")
FinDespacho == FinDeLazo("despacho", Len(cpus), "select")

(* (variant: the comparison admits one more)                               *)
CupoDeMas == Grado >= procesosEnSistema
Cupo == Grado > procesosEnSistema

(* One page of memory for each piece of the script and one for the stack.  *)
ReservarMemoriaParaProceso(p) == conPaginas' = conPaginas \cup {p}

(* Second loop: admit while the degree of multiprogramming allows it.      *)
AdmitirNuevo ==
  /\ fase = "nuevos"
  /\ indice <= Len(listas["new"])
  /\ Cupo
  /\ MoverDesde("new", indice, "ready")
  /\ ReservarMemoriaParaProceso(listas["new"][indice])
  /\ procesosEnSistema' = (procesosEnSistema + 1) % Modulo
  /\ indice' = indice + 1
  /\ UNCHANGED <<canales, pcbs, semaforos, tablaCpus, aviso, fase, readfds>>

PasarNuevo ==
  /\ fase = "nuevos"
  /\ indice <= Len(listas["new"])
  /\ ~Cupo
  /\ indice' = indice + 1
  /\ UNCHANGED <<canales, listas, pcbs, semaforos, procesosEnSistema, tablaCpus,
                 aviso, conPaginas, fase, readfds>>

(* Third loop: give the oldest ready process to each free CPU.             *)
Despachable(c) == activo[c] /\ libre[c] /\ listas["ready"] # <<>>

(* (variant: the process also stays in READY)                              *)
AExecSinQuitar == listas' = [listas EXCEPT !["exec"] = Append(@, Head(listas["ready"]))]
AExec == MoverDesde("ready", 1, "exec")

EnviarProcesoACpu(c) ==
  /\ fase = "despacho"
  /\ indice <= Len(cpus) /\ c = cpus[indice]
  /\ Despachable(c)
  /\ EnviarACpu(c, "ENVIAR_CONTEXTO", Head(listas["ready"]))
  /\ AExec
  /\ libre' = [libre EXCEPT ![c] = FALSE]
  /\ indice' = indice + 1
  /\ UNCHANGED <<enlace, aKernel, llegadas, pedido, pcbs, semaforos,
                 procesosEnSistema, cpus, activo, aviso, conPaginas, fase, readfds>>

PasarCpu ==
  /\ fase = "despacho"
  /\ indice <= Len(cpus)
  /\ ~Despachable(cpus[indice])
  /\ indice' = indice + 1
  /\ UNCHANGED <<canales, listas, pcbs, semaforos, procesosEnSistema, tablaCpus,
                 aviso, conPaginas, fase, readfds>>
-----------------------------------------------------------------------------
NextKernel ==
  \/ Select
  \/ \E c \in Cpu : NuevoCpu(c) \/ AtenderCpu(c) \/ DesconexionCpu(c)
  \/ NuevoPrograma
  \/ \E p \in Pid : AtenderPrograma(p)
  \/ FinDeEventos
  \/ \E p \in Pid : PasarBloqueado(p) \/ AtenderES(p) \/ AtenderESConError(p)
                    \/ AtenderWait(p) \/ AtenderWaitDesconocido(p)
  \/ FinBloqueados \/ AdmitirNuevo \/ PasarNuevo \/ FinNuevos
  \/ \E c \in Cpu : EnviarProcesoACpu(c)
  \/ PasarCpu \/ FinDespacho
=============================================================================
