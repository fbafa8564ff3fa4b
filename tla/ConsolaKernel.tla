---------------------------- MODULE ConsolaKernel -----------------------------
(* The second thread of the kernel (consolaKernel, kernel.c:1809) beside the  *)
(* main one. It reads commands and carries them out on the same lists, with   *)
(* no lock: it ends a process, runs actualizarEstadoSistema when the degree   *)
(* is entered, and pauses the main thread. The body of each loop and of each  *)
(* command is one step, so what is checked here is what is left when no two   *)
(* of them touch a list at once, which nothing in the code ensures.           *)
EXTENDS Sistema

CONSTANT Comandos  \* the commands that are entered

ASSUME ConstantesConsola == Comandos \subseteq {"stop", "grado", "fin", "fin_new"}

VARIABLES
  sistemaPausado,
  mutexTomado,   \* mutexSistemaPausado
  esperaMutex,   \* the main thread is between the test and the lock, or in it
  soltando,      \* the console is between "sistemaPausado = 0" and the unlock
  faseC, indiceC,  \* the loop of actualizarEstadoSistema that the console runs
  iteraciones    \* history: iterations that the main thread began in this pause

pausa == <<sistemaPausado, mutexTomado, esperaMutex, soltando, iteraciones>>
consola == <<faseC, indiceC>>
varsC == <<vars, pausa, consola>>

InitC ==
  /\ Init
  /\ sistemaPausado = FALSE /\ mutexTomado = FALSE /\ esperaMutex = FALSE /\ soltando = FALSE
  /\ faseC = "select" /\ indiceC = 1
  /\ iteraciones = 0

(* actualizarEstadoSistema, run by the console; "select" is out of it.        *)
Hilo == INSTANCE Planificador WITH fase <- faseC, indice <- indiceC
-------------------------------------------------------------------------------
(* The main thread. It looks at sistemaPausado when select() has returned.    *)
SelectPausable ==
  /\ Select
  /\ esperaMutex' = sistemaPausado
  /\ UNCHANGED <<sistemaPausado, mutexTomado, soltando, iteraciones>>

(* (variant: nobody takes the mutex) *)
PasarSinTomarMutex ==
  /\ esperaMutex /\ ~mutexTomado
  /\ esperaMutex' = FALSE
  /\ iteraciones' = IF sistemaPausado THEN iteraciones + 1 ELSE 0
  /\ UNCHANGED <<mutexTomado, sistemaPausado, soltando>>

(* The mutex is free the first time: that iteration is not stopped.           *)
TomarMutex ==
  /\ esperaMutex /\ ~mutexTomado
  /\ mutexTomado' = TRUE
  /\ esperaMutex' = FALSE
  /\ iteraciones' = IF sistemaPausado THEN iteraciones + 1 ELSE 0
  /\ UNCHANGED <<sistemaPausado, soltando>>

HiloPrincipal ==
  \/ SelectPausable /\ UNCHANGED <<procesador, consola>>
  \/ TomarMutex /\ UNCHANGED <<vars, consola>>
  \/ ~esperaMutex /\ fase # "select" /\ PasoDeKernel /\ UNCHANGED <<pausa, consola>>
-------------------------------------------------------------------------------
(* The console's thread, when it reads the keyboard.                          *)
LeeTeclado == faseC = "select" /\ ~soltando

(* stopPlani. *)
Detener ==
  /\ LeeTeclado /\ ~sistemaPausado /\ "stop" \in Comandos
  /\ sistemaPausado' = TRUE
  /\ iteraciones' = 0
  /\ UNCHANGED <<vars, consola, mutexTomado, esperaMutex, soltando>>

Reanudar ==
  /\ LeeTeclado /\ sistemaPausado
  /\ sistemaPausado' = FALSE
  /\ soltando' = TRUE
  /\ iteraciones' = 0
  /\ UNCHANGED <<vars, consola, mutexTomado, esperaMutex>>

(* (variant: the mutex is left as it is) *)
NoSoltarMutex ==
  /\ soltando /\ soltando' = FALSE
  /\ UNCHANGED <<vars, consola, sistemaPausado, mutexTomado, esperaMutex, iteraciones>>

SoltarMutex ==
  /\ soltando /\ soltando' = FALSE
  /\ mutexTomado' = FALSE
  /\ UNCHANGED <<vars, consola, sistemaPausado, esperaMutex, iteraciones>>

(* finalizarProceso: any pid may be entered, known or not; one that is in no  *)
(* list or already in EXIT changes nothing. What the end of one in NEW breaks *)
(* is in the run grado: it is a command of its own, that a run may leave out. *)
FinalizarProceso(p) ==
  /\ LeeTeclado
  /\ IF p \in En("new") THEN "fin_new" \in Comandos ELSE "fin" \in Comandos
  /\ FinalizarPrograma(p, "COMANDO_FINALIZAR")
  /\ UNCHANGED <<canales, numeroPid, operacionES, nombreSemaforo, semaforos, tablaCpus,
                 control, procesador, pausa, consola>>

(* modificarGradoMult. The degree that is entered is the one there was: what  *)
(* changes here is who runs actualizarEstadoSistema.                          *)
ModificarGradoMult ==
  /\ LeeTeclado /\ "grado" \in Comandos
  /\ faseC' = "bloqueados" /\ indiceC' = 1
  /\ UNCHANGED <<vars, pausa>>

ActualizarEstadoSistema ==
  /\ \/ \E p \in Pid : Hilo!PasarBloqueado(p) \/ Hilo!AtenderES(p) \/ Hilo!AtenderESConError(p)
                       \/ Hilo!AtenderWait(p) \/ Hilo!AtenderWaitDesconocido(p)
     \/ Hilo!FinBloqueados \/ Hilo!AdmitirNuevo \/ Hilo!PasarNuevo \/ Hilo!FinNuevos
     \/ \E c \in Cpu : Hilo!EnviarProcesoACpu(c)
     \/ Hilo!PasarCpu \/ Hilo!FinDespacho
  /\ UNCHANGED <<fase, indice, procesador, pausa>>

HiloConsola ==
  \/ Detener \/ Reanudar \/ SoltarMutex
  \/ \E p \in Pid : FinalizarProceso(p)
  \/ ModificarGradoMult \/ ActualizarEstadoSistema

NextC ==
  \/ HiloPrincipal \/ HiloConsola
  \/ Consola /\ UNCHANGED <<pausa, consola>>
  \/ \E c \in Cpu : (TrabajoDeCpu(c) \/ SucesoDeCpu(c)) /\ UNCHANGED <<pausa, consola>>

SpecC == InitC /\ [][NextC]_varsC
-------------------------------------------------------------------------------
(* Properties. *)

(* Types of what this module adds. *)
TipoConsola ==
  /\ sistemaPausado \in BOOLEAN /\ mutexTomado \in BOOLEAN
  /\ esperaMutex \in BOOLEAN /\ soltando \in BOOLEAN
  /\ faseC \in Fases \ {"eventos"} /\ indiceC \in Nat \ {0}
  /\ iteraciones \in Nat

(* A pause lets one more iteration of the main loop begin at most, whenever   *)
(* it comes and however often it was paused and resumed before, although the  *)
(* mutex that stops the loop is taken by one thread and released by the other *)
(* (kernel.c:146, 2097).                                                      *)
PausaDetiene == sistemaPausado => iteraciones <= 1

(* Who waits for the mutex waits for a pause that is still on, or is about to *)
(* get it: resuming never leaves the planning stopped.                        *)
EsperaLaReanudacion == esperaMutex /\ mutexTomado => sistemaPausado \/ soltando
===============================================================================
