------------------------------- MODULE Exclusion -------------------------------
(***************************************************************************)
(* The system with scripts that use each semaphore as their authors do:    *)
(* every process takes a unit with WAIT before it gives one with SIGNAL,   *)
(* never takes two of the same and ends without any.  What the semaphores  *)
(* of the kernel then promise is what a lock promises.                     *)
(***************************************************************************)
EXTENDS Sistema

VARIABLES
  dentro,     (* dentro[s]: processes that have taken a unit of s            *)
  turno       (* turno[p]: the semaphore that p waits for, or SinNombre      *)

todo == <<vars, dentro, turno>>

InitExclusion ==
  /\ Init
  /\ dentro = [s \in Semaforo |-> {}]
  /\ turno = [p \in Pid |-> SinNombre]

(* WAIT and SIGNAL return when the instruction after them can run: a       *)
(* process that waits is inside when it is ready again.                    *)
VuelveListo(p) == p \in En("blocked") /\ p \in (ToSet(listas["ready"]))'

PasoDeKernelX ==
  /\ PasoDeKernel
  /\ dentro' = [s \in Semaforo |->
                  dentro[s] \cup {p \in Pid : VuelveListo(p) /\ turno[p] = s}]
  /\ turno' = [p \in Pid |-> IF VuelveListo(p) THEN SinNombre ELSE turno[p]]

PideWait(c, s) ==
  /\ \A r \in Semaforo : pidCpu[c] \notin dentro[r]
  /\ FinDeRafaga(c, "WAIT", s)
  /\ turno' = [turno EXCEPT ![pidCpu[c]] = s]
  /\ UNCHANGED <<kernel, dentro>>

PideSignal(c, s) ==
  /\ pidCpu[c] \in dentro[s]
  /\ Pedir(c, "SIGNAL", s)
  /\ dentro' = [dentro EXCEPT ![s] = @ \ {pidCpu[c]}]
  /\ UNCHANGED <<kernel, turno>>

Termina(c) ==
  /\ \A s \in Semaforo : pidCpu[c] \notin dentro[s]
  /\ FinDeRafaga(c, "FINALIZO_EJECUCION", SinNombre)
  /\ UNCHANGED <<kernel, dentro, turno>>

OtroPasoDeCpu(c) ==
  /\ \/ RecibirContexto(c) \/ RecibirRespuesta(c)
     \/ FinDeRafaga(c, "FINALIZO_QUANTUM", SinNombre)
  /\ UNCHANGED <<kernel, dentro, turno>>

TrabajoDeCpuX(c) ==
  \/ \E s \in Semaforo : PideWait(c, s) \/ PideSignal(c, s)
  \/ Termina(c)
  \/ OtroPasoDeCpu(c)

NextExclusion ==
  \/ PasoDeKernelX
  \/ Consola /\ UNCHANGED <<dentro, turno>>
  \/ \E c \in Cpu : Conectar(c) /\ UNCHANGED <<kernel, dentro, turno>>
  \/ \E c \in Cpu : TrabajoDeCpuX(c)

SpecExclusion == InitExclusion /\ [][NextExclusion]_todo

(* Besides the fairness of the kernel and the CPUs: the script of a        *)
(* process that is inside reaches its SIGNAL.                              *)
JusticiaExclusion ==
  /\ WF_todo(PasoDeKernelX)
  /\ \A c \in Cpu : WF_todo(TrabajoDeCpuX(c))
  /\ \A p \in Pid, s \in Semaforo :
       SF_todo(\E c \in Cpu : pidCpu[c] = p /\ PideSignal(c, s))

SpecExclusionJusta == SpecExclusion /\ JusticiaExclusion
-----------------------------------------------------------------------------
(* The semaphores exclude: at any moment no more processes are inside than *)
(* units there were at the start, whatever SIGNAL, WAIT and the two passes *)
(* of actualizarEstadoSistema are doing; with SEM_INIT=1, at most one.     *)
ExclusionMutua ==
  \A s \in Semaforo : valor[s] + Cardinality(dentro[s]) <= SemInit[s]

(* Nobody waits for ever: the queue is served in the order of arrival, so  *)
(* a process that waits gets in while those inside give their units back.  *)
SinInanicion ==
  \A p \in Pid, s \in Semaforo :
    p \in ToSet(pilaEspera[s]) ~> p \in dentro[s]
=============================================================================
