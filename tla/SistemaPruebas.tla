---------------------------- MODULE SistemaPruebas ----------------------------
(***************************************************************************)
(* Proofs about the whole system, for any number of programs, CPUs and     *)
(* semaphores, any initial values and any degree of multiprogramming:      *)
(*   TipoSiempreCorrecto   types, with the invariant InvTipo               *)
(*   SiempreEnUnaLista     every PCB is in exactly one list                *)
(*   NuncaUnidadOciosa     nobody sleeps beside an available unit          *)
(* The argument for the lists: every step of the kernel but NuevoPrograma  *)
(* is one move between two lists, or none (CambioDeListas).                *)
(***************************************************************************)
EXTENDS Sistema, SequenceTheorems, TLAPS

(* RemoveAt gives a sequence one shorter: what was before place k stays    *)
(* and what was after it moves one place down.                             *)
LEMMA QuitarDeSecuencia ==
  ASSUME NEW S, NEW s \in Seq(S), NEW k \in 1..Len(s)
  PROVE  /\ RemoveAt(s, k) \in Seq(S)
         /\ Len(RemoveAt(s, k)) = Len(s) - 1
         /\ \A i \in 1..(Len(s) - 1) :
              RemoveAt(s, k)[i] = IF i < k THEN s[i] ELSE s[i + 1]
<1> DEFINE a == SubSeq(s, 1, k - 1)
           b == SubSeq(s, k + 1, Len(s))
<1>1. /\ k \in Nat /\ Len(s) \in Nat /\ 1 <= k /\ k <= Len(s)
      /\ \A i \in 1..Len(s) : s[i] \in S
  BY LenProperties, ElementOfSeq
<1>2. /\ a \in Seq(S)
      /\ Len(a) = k - 1
      /\ \A i \in 1..(k - 1) : a[i] = s[i]
  <2>1. 1 \in Int /\ k - 1 \in Int /\ \A i \in 1..(k - 1) : s[i] \in S
    BY <1>1
  <2>. HIDE DEF a
  <2>2. /\ a \in Seq(S) 
        /\ Len(a) = IF 1 <= k - 1 THEN k - 1 - 1 + 1 ELSE 0
        /\ \A i \in 1..(k - 1 - 1 + 1) : a[i] = s[1 + i - 1]
    BY <2>1, SubSeqProperties DEF a
  <2>. QED BY <2>2, <1>1
<1>3. /\ b \in Seq(S)
      /\ Len(b) = Len(s) - k
      /\ \A i \in 1..(Len(s) - k) : b[i] = s[k + i]
  <2>1. k + 1 \in Int /\ Len(s) \in Int /\ \A i \in (k + 1)..Len(s) : s[i] \in S
    BY <1>1
  <2>. HIDE DEF b
  <2>2. /\ b \in Seq(S) 
        /\ Len(b) = IF k + 1 <= Len(s) THEN Len(s) - (k + 1) + 1 ELSE 0
        /\ \A i \in 1..(Len(s) - (k + 1) + 1) : b[i] = s[k + 1 + i - 1]
    BY <2>1, SubSeqProperties DEF b
  <2>. QED BY <2>2, <1>1
<1>4. RemoveAt(s, k) = a \o b
  BY DEF RemoveAt
<1>. HIDE DEF a, b
<1>5. /\ a \o b \in Seq(S)
      /\ Len(a \o b) = Len(a) + Len(b)
      /\ \A i \in 1..(Len(a) + Len(b)) :
           (a \o b)[i] = IF i <= Len(a) THEN a[i] ELSE b[i - Len(a)]
  BY <1>2, <1>3, ConcatProperties
<1>. QED BY <1>1, <1>2, <1>3, <1>4, <1>5
-----------------------------------------------------------------------------
(* What a step of the kernel may do to the lists, other than accepting a   *)
(* program: nothing, or one move from a list to another.                   *)
CambioDeListas ==
  \/ UNCHANGED listas
  \/ \E e, d \in Estados : e # d /\ \E k \in 1..Len(listas[e]) : MoverDesde(e, k, d)

TipoListas == listas \in [Estados -> Seq(Pid)]

(* The place that a search of a list finds holds the process searched.     *)
LEMMA PosicionEnLista ==
  ASSUME TipoListas, NEW e \in Estados, NEW p \in En(e)
  PROVE  /\ Posicion(e, p) \in 1..Len(listas[e])
         /\ listas[e][Posicion(e, p)] = p
<1>1. listas[e] \in Seq(Pid) /\ DOMAIN listas[e] = 1..Len(listas[e])
  BY DEF TipoListas
<1>2. \E k \in DOMAIN listas[e] : listas[e][k] = p
  BY DEF En, ToSet
<1>. QED BY <1>1, <1>2 DEF Posicion

(* Moving a process that is in a list is one move of CambioDeListas.       *)
LEMMA MoverCambia ==
  ASSUME TipoListas, NEW e \in Estados, NEW d \in Estados, e # d,
         NEW p \in En(e), Mover(e, p, d)
  PROVE  CambioDeListas
BY PosicionEnLista DEF Mover, CambioDeListas

(* So is moving the process at a place.                                    *)
LEMMA MoverDesdeCambia ==
  ASSUME TipoListas, NEW e \in Estados, NEW d \in Estados, e # d,
         NEW k \in 1..Len(listas[e]), MoverDesde(e, k, d)
  PROVE  CambioDeListas
BY DEF CambioDeListas

(* A move keeps the lists well typed.                                      *)
LEMMA CambioTipado ==
  ASSUME TipoListas, CambioDeListas
  PROVE  TipoListas'
<1>1. CASE UNCHANGED listas
  BY <1>1 DEF TipoListas
<1>2. ASSUME NEW e \in Estados, NEW d \in Estados, e # d,
             NEW k \in 1..Len(listas[e]), MoverDesde(e, k, d)
      PROVE  TipoListas'
  <2>1. listas[e] \in Seq(Pid) /\ listas[d] \in Seq(Pid)
    BY DEF TipoListas
  <2>2. RemoveAt(listas[e], k) \in Seq(Pid)
    BY <2>1, QuitarDeSecuencia
  <2>3. Append(listas[d], listas[e][k]) \in Seq(Pid)
    BY <2>1, ElementOfSeq
  <2>. QED BY <2>2, <2>3, <1>2 DEF MoverDesde, TipoListas
<1>. QED BY <1>1, <1>2 DEF CambioDeListas
-----------------------------------------------------------------------------
(* moverProgramaDeExecAReady and ...ABlocked change the lists by one move  *)
(* at most.                                                                *)
LEMMA ListasEnMoverDeExec ==
  ASSUME TipoListas, NEW p, NEW d \in {"ready", "blocked"}, MoverDeExec(p, d)
  PROVE  CambioDeListas
<1>1. CASE p \in En("exec")
  BY <1>1, MoverCambia DEF MoverDeExec, Estados
<1>2. CASE p \notin En("exec")
  BY <1>2 DEF MoverDeExec, CambioDeListas
<1>. QED BY <1>1, <1>2

(* So does moverProgramaDeExecAExit.                                       *)
LEMMA ListasEnExecAExit ==
  ASSUME TipoListas, NEW p, MoverProgramaDeExecAExit(p)
  PROVE  CambioDeListas
<1>1. CASE p \in En("exec") /\ Mover("exec", p, "exit")
  BY <1>1, MoverCambia DEF Estados
<1>2. CASE UNCHANGED listas
  BY <1>2 DEF CambioDeListas
<1>. QED BY <1>1, <1>2 DEF MoverProgramaDeExecAExit

(* So does finalizarPrograma, whatever list the process is in.             *)
LEMMA ListasEnFinalizar ==
  ASSUME TipoListas, NEW p, NEW codigo, FinalizarPrograma(p, codigo)
  PROVE  CambioDeListas
<1>1. ASSUME NEW e \in Estados \ {"exit"}, p \in En(e), Mover(e, p, "exit")
      PROVE  CambioDeListas
  BY <1>1, MoverCambia DEF Estados
<1>2. CASE UNCHANGED listas
  BY <1>2 DEF CambioDeListas
<1>. QED BY <1>1, <1>2 DEF FinalizarPrograma, FinalizarProgramaConError
-----------------------------------------------------------------------------
(* Types are inductive once it is known that the listener of programs is   *)
(* reported only while a connection waits for accept().                    *)
TipoKernel == TypeOK /\ (readfds.programa => llegadas > 0)

InvTipo == TipoKernel /\ TypeOKProcesador

USE DEF Estados

(* The types hold at the start.                                            *)
LEMMA TipoInicial == Init => InvTipo
BY ConstantesCanales, ConstantesPlanificador, ConstantesProcesador, EmptySeq
DEF Init, InitKernel, InitCanales, InitProcesador, InvTipo, TipoKernel, TypeOK,
    TypeOKCanales, TypeOKProcesador, Nada, Fases, Codigos, CodigosFinales,
    Operaciones, Pid, EstadosCpu, MensajesCpu, MensajesKernel

(* A message at the head of a channel, and what is left after it is read,  *)
(* are well typed.                                                         *)
LEMMA TipoMensaje ==
  ASSUME TypeOK, NEW c \in Cpu, NEW m \in ToSet(aKernel[c])
  PROVE  m \in MensajesCpu /\ m.pid \in Pid /\ m.sem \in Nombre \cup {SinNombre}
<1>1. aKernel[c] \in Seq(MensajesCpu)
  BY DEF TypeOK, TypeOKCanales
<1>2. PICK i \in DOMAIN aKernel[c] : m = aKernel[c][i]
  BY DEF ToSet
<1>3. m \in MensajesCpu
  BY <1>1, <1>2, ElementOfSeq, LenProperties
<1>. QED BY <1>3 DEF MensajesCpu

(* What a list holds is a pid.                                             *)
LEMMA TipoEnLista ==
  ASSUME TipoListas, NEW e \in Estados, NEW k \in 1..Len(listas[e])
  PROVE  listas[e][k] \in Pid
BY ElementOfSeq DEF TipoListas

(* Ending a process keeps the types; the count stays below Modulo.         *)
LEMMA TipoLiberar ==
  ASSUME TypeOK, NEW p, NEW codigo \in Codigos, LiberarRecursos(p, codigo)
  PROVE  /\ conPaginas' \in SUBSET Pid
         /\ aviso' \in [Pid -> Codigos \cup {SinAviso}]
         /\ procesosEnSistema' \in 0..(Modulo - 1)
<1>1. \A x \in Nat : x % Modulo \in 0..(Modulo - 1)
  BY ConstantesPlanificador, ConstantesCanales
<1>2. procesosEnSistema + Modulo - 1 \in Nat
  BY ConstantesPlanificador DEF TypeOK
<1>. QED BY <1>1, <1>2 DEF LiberarRecursos, TypeOK

(* What the two ways of ending a process leave well typed.                 *)
TipoFin ==
  /\ TipoListas'
  /\ exitCode' \in [Pid -> Codigos]
  /\ conPaginas' \in SUBSET Pid
  /\ aviso' \in [Pid -> Codigos \cup {SinAviso}]
  /\ procesosEnSistema' \in 0..(Modulo - 1)

(* Leaving the resources alone keeps their types.                          *)
LEMMA TipoConserva ==
  ASSUME TypeOK, ConservaRecursos, exitCode' \in [Pid -> Codigos], TipoListas'
  PROVE  TipoFin
BY DEF ConservaRecursos, TypeOK, TipoFin

(* finalizarPrograma keeps the types of what it changes.                   *)
LEMMA TipoFinalizar ==
  ASSUME TypeOK, NEW p \in Pid, NEW codigo \in Codigos, FinalizarPrograma(p, codigo)
  PROVE  TipoFin
<1>1. TipoListas'
  BY ListasEnFinalizar, CambioTipado DEF TypeOK, TipoListas
<1>2. CASE UNCHANGED exitCode /\ ConservaRecursos
  BY <1>1, <1>2 DEF TipoFin, TypeOK, ConservaRecursos
<1>3. CASE /\ exitCode' = [exitCode EXCEPT ![p] = codigo]
           /\ LiberarRecursos(p, codigo)
  BY <1>1, <1>3, TipoLiberar DEF TipoFin, TypeOK
<1>. QED BY <1>2, <1>3 DEF FinalizarPrograma, FinalizarProgramaConError

(* moverProgramaDeExecAExit keeps the types of what it changes.            *)
LEMMA TipoExecAExit ==
  ASSUME TypeOK, NEW p \in Pid, exitCode' \in [Pid -> Codigos],
         MoverProgramaDeExecAExit(p)
  PROVE  TipoFin
<1>1. TipoListas'
  BY ListasEnExecAExit, CambioTipado DEF TypeOK, TipoListas
<1>2. CASE ConservaRecursos
  BY <1>1, <1>2 DEF TipoFin, TypeOK, ConservaRecursos
<1>3. CASE LiberarRecursos(p, exitCode'[p])
  BY <1>1, <1>3, TipoLiberar DEF TipoFin
<1>. QED BY <1>2, <1>3 DEF MoverProgramaDeExecAExit

(* A move out of EXEC keeps the lists well typed.                          *)
LEMMA TipoMoverDeExec ==
  ASSUME TypeOK, NEW p \in Pid, NEW d \in {"ready", "blocked"}, MoverDeExec(p, d)
  PROVE  TipoListas'
BY ListasEnMoverDeExec, CambioTipado DEF TypeOK, TipoListas
-----------------------------------------------------------------------------
(* The steps of the kernel, in the order of its loop.                      *)

(* Select keeps the types.                                                 *)
LEMMA TipoSelect ==
  ASSUME TipoKernel, Select
  PROVE  TipoKernel'
<1>1. Legibles \in [cpu : BOOLEAN, programa : BOOLEAN,
                    programas : SUBSET Pid, cpus : SUBSET Cpu]
  <2>1. {p \in 1..(numeroPid - 1) : pedido[p] \in {"finalizar", "cierre"}} \in SUBSET Pid
    BY ConstantesCanales DEF TipoKernel, TypeOK, Pid
  <2>2. {c \in ToSet(cpus) : aKernel[c] # <<>> \/ enlace[c] = "cerrado"} \in SUBSET Cpu
    BY LenProperties, ElementOfSeq DEF TipoKernel, TypeOK, ToSet
  <2>. QED BY <2>1, <2>2 DEF Legibles
<1>2. Legibles.programa => llegadas > 0
  BY DEF Legibles
<1>3. TypeOKCanales'
  BY DEF TipoKernel, TypeOK, TypeOKCanales, Select, canales
<1>4. TypeOK'
  BY <1>1, <1>3 DEF TipoKernel, TypeOK, Select, canales, pcbs, semaforos, tablaCpus, Fases
<1>. QED BY <1>1, <1>2, <1>4 DEF TipoKernel, Select, canales

(* NuevoCpu keeps the types.                                               *)
LEMMA TipoNuevoCpu ==
  ASSUME TipoKernel, NEW c \in Cpu, NuevoCpu(c)
  PROVE  TipoKernel'
<1>1. TypeOKCanales'
  BY DEF TipoKernel, TypeOK, TypeOKCanales, NuevoCpu
<1>2. /\ readfds' \in [cpu : BOOLEAN, programa : BOOLEAN,
                       programas : SUBSET Pid, cpus : SUBSET Cpu]
      /\ readfds'.programa = readfds.programa
  BY DEF TipoKernel, TypeOK, NuevoCpu
<1>3. /\ cpus' \in Seq(Cpu)
      /\ activo' \in [Cpu -> BOOLEAN]
      /\ libre' \in [Cpu -> BOOLEAN]
  BY DEF TipoKernel, TypeOK, NuevoCpu
<1>4. TypeOK'
  BY <1>1, <1>2, <1>3 DEF TipoKernel, TypeOK, NuevoCpu, pcbs, semaforos
<1>. QED BY <1>2, <1>4 DEF TipoKernel, NuevoCpu

(* NuevoPrograma keeps the types.                                          *)
LEMMA TipoNuevoPrograma ==
  ASSUME TipoKernel, NuevoPrograma
  PROVE  TipoKernel'
<1>1. numeroPid \in Pid /\ numeroPid' \in 1..(MaxPid + 1)
  BY ConstantesCanales DEF TipoKernel, TypeOK, NuevoPrograma, Pid
<1>2. TypeOKCanales'
  BY ConstantesCanales DEF TipoKernel, TypeOK, TypeOKCanales, NuevoPrograma
<1>3. listas' \in [Estados -> Seq(Pid)]
  BY <1>1 DEF TipoKernel, TypeOK, NuevoPrograma
<1>4. /\ readfds' \in [cpu : BOOLEAN, programa : BOOLEAN,
                       programas : SUBSET Pid, cpus : SUBSET Cpu]
      /\ ~readfds'.programa
  BY DEF TipoKernel, TypeOK, NuevoPrograma
<1>5. exitCode' \in [Pid -> Codigos]
  BY <1>1 DEF TipoKernel, TypeOK, NuevoPrograma, Codigos, CodigosFinales
<1>6. TypeOK'
  BY <1>1, <1>2, <1>3, <1>4, <1>5 DEF TipoKernel, TypeOK, NuevoPrograma, semaforos, tablaCpus
<1>. QED BY <1>4, <1>6 DEF TipoKernel

(* AtenderPrograma keeps the types.                                        *)
LEMMA TipoAtenderPrograma ==
  ASSUME TipoKernel, NEW p \in Pid, AtenderPrograma(p)
  PROVE  TipoKernel'
<1>1. TipoFin
  BY TipoFinalizar DEF TipoKernel, AtenderPrograma, Codigos, CodigosFinales
<1>2. TypeOKCanales'
  BY DEF TipoKernel, TypeOK, TypeOKCanales, AtenderPrograma
<1>3. /\ readfds' \in [cpu : BOOLEAN, programa : BOOLEAN,
                       programas : SUBSET Pid, cpus : SUBSET Cpu]
      /\ ~readfds'.programa
  BY DEF TipoKernel, TypeOK, AtenderPrograma
<1>4. TypeOK'
  BY <1>1, <1>2, <1>3
     DEF TipoKernel, TypeOK, TipoFin, TipoListas, AtenderPrograma, semaforos, tablaCpus
<1>. QED BY <1>3, <1>4 DEF TipoKernel
-----------------------------------------------------------------------------
(* What the handler of each message must leave well typed.                 *)
TipoTrato ==
  /\ TipoFin
  /\ aCpu' \in [Cpu -> Seq(MensajesKernel)]
  /\ operacionES' \in [Pid -> Operaciones]
  /\ nombreSemaforo' \in [Pid -> Nombre \cup {SinNombre}]
  /\ valor' \in [Semaforo -> Nat]
  /\ pilaEspera' \in [Semaforo -> Seq(Pid)]
  /\ activo' \in [Cpu -> BOOLEAN]
  /\ libre' \in [Cpu -> BOOLEAN]

(* actPCB keeps the table of the CPUs well typed.                          *)
LEMMA TipoDevolver ==
  ASSUME TypeOK, NEW c \in Cpu, DevolverCpu(c)
  PROVE  /\ aCpu' \in [Cpu -> Seq(MensajesKernel)]
         /\ activo' \in [Cpu -> BOOLEAN]
         /\ libre' \in [Cpu -> BOOLEAN]
BY DEF TypeOK, TypeOKCanales, DevolverCpu

(* Sending to a CPU keeps the channels well typed.                         *)
LEMMA TipoEnviar ==
  ASSUME TypeOK, NEW c \in Cpu, NEW p \in Pid,
         NEW tipo \in Pedidos \cup {"ENVIAR_CONTEXTO", "FINALIZO_PROGRAMA"},
         EnviarACpu(c, tipo, p)
  PROVE  aCpu' \in [Cpu -> Seq(MensajesKernel)]
<1>1. MensajeKernel(tipo, p) \in MensajesKernel
  BY DEF MensajeKernel, MensajesKernel
<1>. QED BY <1>1 DEF EnviarACpu, TypeOK, TypeOKCanales

(* SIGNAL keeps the marks, the values and the queues well typed.           *)
LEMMA TipoDespertar ==
  ASSUME TypeOK, NEW s, DespertarOSumar(s)
  PROVE  /\ exitCode' \in [Pid -> Codigos]
         /\ valor' \in [Semaforo -> Nat]
         /\ pilaEspera' \in [Semaforo -> Seq(Pid)]
<1>1. CASE pilaEspera[s] # <<>>
  <2>1. ASSUME s \in Semaforo PROVE Tail(pilaEspera[s]) \in Seq(Pid)
    <3>1. pilaEspera[s] \in Seq(Pid)
      BY <2>1 DEF TypeOK
    <3>. QED BY <1>1, <3>1, HeadTailProperties
  <2>2. pilaEspera' \in [Semaforo -> Seq(Pid)]
    BY <1>1, <2>1 DEF DespertarOSumar, TypeOK
  <2>3. exitCode' \in [Pid -> Codigos] /\ valor' \in [Semaforo -> Nat]
    BY <1>1 DEF DespertarOSumar, TypeOK, Codigos
  <2>. QED BY <2>2, <2>3
<1>2. CASE pilaEspera[s] = <<>>
  <2>1. /\ valor' = [valor EXCEPT ![s] = @ + 1]
        /\ exitCode' = exitCode /\ pilaEspera' = pilaEspera
    BY <1>2 DEF DespertarOSumar
  <2>2. valor \in [Semaforo -> Nat]
    BY DEF TypeOK
  <2>3. valor' \in [Semaforo -> Nat]
    <3>1. \A r \in Semaforo : valor[r] + 1 \in Nat
      BY <2>2
    <3>. QED BY <2>1, <2>2, <3>1
  <2>. QED BY <2>1, <2>3 DEF TypeOK
<1>. QED BY <1>1, <1>2

(* Each message handler keeps the types of what it changes.                *)
LEMMA TipoTratado ==
  ASSUME TipoKernel, NEW c \in Cpu, NEW m \in ToSet(aKernel[c]), 
         \/ FinalizoEjecucion(c, m)
         \/ FinalizoConError(c, m)
         \/ FinalizoQuantum(c, m)
         \/ PidioArchivo(c, m)
         \/ Wait(c, m)
         \/ Signal(c, m)
         \/ Consulta(c, m)
         \/ AlocarBien(c, m)
         \/ AlocarMal(c, m)
  PROVE  TipoTrato
<1>. USE DEF TipoKernel
<1>m. m.pid \in Pid /\ m.sem \in Nombre \cup {SinNombre}
  BY TipoMensaje
<1>t. TipoListas /\ (UNCHANGED listas => TipoListas')
  BY DEF TypeOK, TipoListas
<1>1. CASE FinalizoEjecucion(c, m)
  <2>1. TipoFin
    BY <1>1, <1>m, TipoExecAExit DEF FinalizoEjecucion, TypeOK
  <2>. QED BY <1>1, <2>1, TipoDevolver DEF FinalizoEjecucion, TipoTrato, TypeOK, semaforos
<1>2. CASE FinalizoConError(c, m)
  <2>1. exitCode' \in [Pid -> Codigos]
    BY <1>2 DEF FinalizoConError, TypeOK, Codigos, CodigosFinales
  <2>2. TipoFin
    BY <1>2, <1>m, <2>1, TipoExecAExit DEF FinalizoConError
  <2>. QED BY <1>2, <2>2, TipoDevolver DEF FinalizoConError, TipoTrato, TypeOK, semaforos
<1>3. CASE FinalizoQuantum(c, m)
  <2>1. TipoFin
    BY <1>3, <1>m, TipoMoverDeExec, TipoConserva DEF FinalizoQuantum, TypeOK
  <2>. QED BY <1>3, <2>1, TipoDevolver DEF FinalizoQuantum, TipoTrato, TypeOK, semaforos
<1>4. CASE PidioArchivo(c, m)
  <2>1. TipoFin
    BY <1>4, <1>m, TipoMoverDeExec, TipoConserva DEF PidioArchivo, TypeOK
  <2>2. operacionES' \in [Pid -> Operaciones]
    BY <1>4 DEF PidioArchivo, TypeOK, Operaciones
  <2>. QED BY <1>4, <2>1, <2>2, TipoDevolver DEF PidioArchivo, TipoTrato, TypeOK, semaforos
<1>5. CASE Wait(c, m)
  <2>1. TipoFin
    BY <1>5, <1>m, TipoMoverDeExec, TipoConserva DEF Wait, TypeOK
  <2>2. /\ operacionES' \in [Pid -> Operaciones]
        /\ nombreSemaforo' \in [Pid -> Nombre \cup {SinNombre}]
    BY <1>5, <1>m DEF Wait, TypeOK, Operaciones
  <2>. QED BY <1>5, <2>1, <2>2, TipoDevolver DEF Wait, TipoTrato, TypeOK, semaforos
<1>6. CASE Signal(c, m)
  <2>1. aCpu' \in [Cpu -> Seq(MensajesKernel)]
    BY <1>6, <1>m, TipoEnviar DEF Signal, Pedidos
  <2>2. /\ exitCode' \in [Pid -> Codigos]
        /\ valor' \in [Semaforo -> Nat]
        /\ pilaEspera' \in [Semaforo -> Seq(Pid)]
    BY <1>6, TipoDespertar DEF Signal
  <2>3. TipoFin
    BY <1>6, <1>t, <2>2, TipoConserva DEF Signal
  <2>4. nombreSemaforo' \in [Pid -> Nombre \cup {SinNombre}]
    BY <1>6, <1>m DEF Signal, TypeOK
  <2>. QED BY <1>6, <2>1, <2>2, <2>3, <2>4 DEF Signal, SigueEnCpu, TipoTrato, TypeOK
<1>7. CASE Consulta(c, m)
  <2>1. aCpu' \in [Cpu -> Seq(MensajesKernel)]
    BY <1>7, <1>m, TipoEnviar DEF Consulta, Pedidos
  <2>2. TipoFin
    BY <1>7, <1>t, TipoConserva DEF Consulta, TypeOK
  <2>. QED BY <1>7, <2>1, <2>2 DEF Consulta, SigueEnCpu, TipoTrato, TypeOK, semaforos
<1>8. CASE AlocarBien(c, m)
  <2>1. aCpu' \in [Cpu -> Seq(MensajesKernel)]
    BY <1>8, <1>m, TipoEnviar DEF AlocarBien, Pedidos
  <2>2. TipoFin
    BY <1>8, <1>t, <1>m DEF AlocarBien, TypeOK, TipoFin
  <2>. QED BY <1>8, <2>1, <2>2 DEF AlocarBien, SigueEnCpu, TipoTrato, TypeOK, semaforos
<1>9. CASE AlocarMal(c, m)
  <2>1. aCpu' \in [Cpu -> Seq(MensajesKernel)]
    BY <1>9, <1>m, TipoEnviar DEF AlocarMal, TypeOK, TypeOKCanales
  <2>2. TipoFin
    BY <1>9, <1>m, TipoFinalizar DEF AlocarMal, Codigos, CodigosFinales
  <2>. QED BY <1>9, <2>1, <2>2 DEF AlocarMal, TipoTrato, TypeOK, semaforos
<1>. QED BY <1>1, <1>2, <1>3, <1>4, <1>5, <1>6, <1>7, <1>8, <1>9

(* AtenderCpu keeps the types.                                             *)
LEMMA TipoAtenderCpu ==
  ASSUME TipoKernel, NEW c \in Cpu, AtenderCpu(c)
  PROVE  TipoKernel'
<1>1. PICK m \in ToSet(aKernel[c]) : Recibir(c, m) /\ TipoTrato
  BY TipoTratado DEF AtenderCpu
<1>2. Tail(aKernel[c]) \in Seq(MensajesCpu)
  BY <1>1, HeadTailProperties DEF Recibir, TipoKernel, TypeOK, TypeOKCanales
<1>3. TypeOKCanales'
  BY <1>1, <1>2 DEF Recibir, TipoKernel, TypeOK, TypeOKCanales, TipoTrato
<1>4. indice' \in Nat \ {0}
  BY <1>1 DEF Recibir, TipoKernel, TypeOK
<1>5. TypeOK'
  BY <1>1, <1>3, <1>4 DEF Recibir, TipoKernel, TypeOK, TipoTrato, TipoFin, TipoListas
<1>. QED BY <1>1, <1>5 DEF Recibir, TipoKernel

(* DesconexionCpu keeps the types.                                         *)
LEMMA TipoDesconexionCpu ==
  ASSUME TipoKernel, NEW c \in Cpu, DesconexionCpu(c)
  PROVE  TipoKernel'
<1>1. PICK k \in indice..Len(cpus) : cpus' = RemoveAt(cpus, k) /\ indice' = k + 1
  BY DEF DesconexionCpu
<1>2. k \in 1..Len(cpus) /\ indice' \in Nat \ {0}
  BY <1>1 DEF TipoKernel, TypeOK
<1>3. cpus' \in Seq(Cpu)
  BY <1>1, <1>2, QuitarDeSecuencia DEF TipoKernel, TypeOK
<1>4. TypeOKCanales'
  BY DEF DesconexionCpu, TipoKernel, TypeOK, TypeOKCanales, canales
<1>5. TypeOK'
  BY <1>2, <1>3, <1>4 DEF DesconexionCpu, TipoKernel, TypeOK, pcbs, semaforos
<1>. QED BY <1>5 DEF DesconexionCpu, TipoKernel, canales

(* FinDeEventos keeps the types.                                           *)
LEMMA TipoFinDeEventos ==
  ASSUME TipoKernel, FinDeEventos
  PROVE  TipoKernel'
<1>1. TypeOKCanales'
  BY DEF FinDeEventos, TipoKernel, TypeOK, TypeOKCanales, canales
<1>2. readfds' \in [cpu : BOOLEAN, programa : BOOLEAN,
                    programas : SUBSET Pid, cpus : SUBSET Cpu] /\ ~readfds'.programa
  BY DEF FinDeEventos, Nada
<1>3. TypeOK'
  BY <1>1, <1>2 DEF FinDeEventos, TipoKernel, TypeOK, pcbs, semaforos, tablaCpus, Fases
<1>. QED BY <1>2, <1>3 DEF TipoKernel
-----------------------------------------------------------------------------
(* actualizarEstadoSistema.                                                *)

(* The process that the first loop visits is a pid.                        *)
LEMMA TipoEnBloqueado ==
  ASSUME TipoKernel, NEW p \in Pid, EnBloqueado(p)
  PROVE  /\ indice \in 1..Len(listas["blocked"])
         /\ indice' \in Nat \ {0}
         /\ TypeOKCanales'
BY DEF EnBloqueado, TipoKernel, TypeOK, TypeOKCanales, canales

(* A step of the first loop needs only the types of what it changes.       *)
LEMMA TipoBloqueado ==
  ASSUME TipoKernel, NEW p \in Pid, EnBloqueado(p), TipoFin,
         operacionES' \in [Pid -> Operaciones],
         valor' \in [Semaforo -> Nat],
         pilaEspera' \in [Semaforo -> Seq(Pid)]
  PROVE  TipoKernel'
<1>1. TypeOK'
  BY TipoEnBloqueado DEF EnBloqueado, TipoKernel, TypeOK, TipoFin, TipoListas, tablaCpus
<1>. QED BY <1>1 DEF EnBloqueado, TipoKernel, canales

(* Leaving BLOCKED keeps the types.                                        *)
LEMMA TipoABlockedReady ==
  ASSUME TipoKernel, NEW p \in Pid, EnBloqueado(p), ABlockedReady,
         exitCode' \in [Pid -> Codigos]
  PROVE  TipoFin
<1>1. CambioDeListas
  BY TipoEnBloqueado, MoverDesdeCambia DEF ABlockedReady, TipoKernel, TypeOK, TipoListas
<1>2. TipoListas'
  BY <1>1, CambioTipado DEF TipoKernel, TypeOK, TipoListas
<1>. QED BY <1>2, TipoConserva DEF ABlockedReady, TipoKernel

(* PasarBloqueado keeps the types.                                         *)
LEMMA TipoPasarBloqueado ==
  ASSUME TipoKernel, NEW p \in Pid, PasarBloqueado(p)
  PROVE  TipoKernel'
<1>1. exitCode' \in [Pid -> Codigos]
  BY DEF PasarBloqueado, BorrarMarca, TipoKernel, TypeOK, Codigos, CodigosFinales
<1>2. TipoFin
  BY <1>1, TipoConserva DEF PasarBloqueado, TipoKernel, TypeOK, TipoListas
<1>. QED BY <1>2, TipoBloqueado DEF PasarBloqueado, TipoKernel, TypeOK, semaforos

(* atenderES keeps the type of operacionES.                                *)
LEMMA TipoPorAtender ==
  ASSUME TipoKernel, NEW p \in Pid, PorAtender(p)
  PROVE  EnBloqueado(p) /\ operacionES' \in [Pid -> Operaciones]
BY DEF PorAtender, TipoKernel, TypeOK, Operaciones

(* AtenderES keeps the types.                                              *)
LEMMA TipoAtenderES ==
  ASSUME TipoKernel, NEW p \in Pid, AtenderES(p)
  PROVE  TipoKernel'
<1>1. exitCode' \in [Pid -> Codigos]
  BY DEF AtenderES, TipoKernel, TypeOK, Codigos, CodigosFinales
<1>2. TipoFin
  BY <1>1, TipoPorAtender, TipoABlockedReady DEF AtenderES
<1>. QED BY <1>2, TipoPorAtender, TipoBloqueado DEF AtenderES, TipoKernel, TypeOK, semaforos

(* AtenderESConError keeps the types.                                      *)
LEMMA TipoAtenderESConError ==
  ASSUME TipoKernel, NEW p \in Pid, AtenderESConError(p)
  PROVE  TipoKernel'
<1>1. EnBloqueado(p) /\ p \in En("blocked")
  BY TipoEnBloqueado, TipoPorAtender
     DEF AtenderESConError, EnBloqueado, En, ToSet, TipoKernel, TypeOK
<1>2. FinalizarPrograma(p, "ERROR_ES")
  BY <1>1 DEF AtenderESConError, FinalizarPrograma
<1>3. TipoFin
  BY <1>2, TipoFinalizar DEF TipoKernel, Codigos, CodigosFinales
<1>. QED BY <1>3, TipoPorAtender, TipoBloqueado
         DEF AtenderESConError, TipoKernel, TypeOK, semaforos

(* WAIT keeps the types: the value is lowered only when it is positive.    *)
LEMMA TipoTomar ==
  ASSUME TypeOK, NEW p \in Pid, NEW s \in Semaforo, TomarODormir(p, s)
  PROVE  /\ exitCode' \in [Pid -> Codigos]
         /\ valor' \in [Semaforo -> Nat]
         /\ pilaEspera' \in [Semaforo -> Seq(Pid)]
<1> DEFINE cola == Append(pilaEspera[s], p)
<1>1. /\ cola \in Seq(Pid) /\ cola # <<>>
      /\ Tail(cola) \in Seq(Pid)
  <2>1. pilaEspera[s] \in Seq(Pid)
    BY DEF TypeOK
  <2>2. cola \in Seq(Pid) /\ cola # <<>>
    BY <2>1
  <2>. QED BY <2>2, HeadTailProperties
<1>2. CASE valor[s] > 0
  <2>1. /\ valor' = [valor EXCEPT ![s] = @ - 1]
        /\ pilaEspera' = [pilaEspera EXCEPT ![s] = Tail(cola)]
        /\ exitCode' = [exitCode EXCEPT ![p] = "ESPERANDO_SEMAFORO",
                                        ![Head(cola)] = "CORRECTO"]
    BY <1>2 DEF TomarODormir
  <2>. HIDE DEF cola
  <2>2. valor \in [Semaforo -> Nat] /\ valor[s] - 1 \in Nat
    BY <1>2 DEF TypeOK
  <2>3. valor' \in [Semaforo -> Nat]
    BY <2>1, <2>2
  <2>4. pilaEspera' \in [Semaforo -> Seq(Pid)]
    BY <1>1, <2>1 DEF TypeOK
  <2>5. exitCode' \in [Pid -> Codigos]
    BY <2>1 DEF TypeOK, Codigos, CodigosFinales
  <2>. QED BY <2>3, <2>4, <2>5
<1>3. CASE ~(valor[s] > 0)
  <2>1. /\ valor' = valor
        /\ pilaEspera' = [pilaEspera EXCEPT ![s] = cola]
        /\ exitCode' = [exitCode EXCEPT ![p] = "ESPERANDO_SEMAFORO"]
    BY <1>3 DEF TomarODormir
  <2>. HIDE DEF cola
  <2>. QED BY <1>1, <2>1 DEF TypeOK, Codigos
<1>. QED BY <1>2, <1>3

(* AtenderWait keeps the types.                                            *)
LEMMA TipoAtenderWait ==
  ASSUME TipoKernel, NEW p \in Pid, AtenderWait(p)
  PROVE  TipoKernel'
<1>1. /\ exitCode' \in [Pid -> Codigos]
      /\ valor' \in [Semaforo -> Nat]
      /\ pilaEspera' \in [Semaforo -> Seq(Pid)]
  BY TipoTomar DEF AtenderWait, TipoKernel
<1>2. CASE ABlockedReady
  <2>1. TipoFin
    BY <1>1, <1>2, TipoPorAtender, TipoABlockedReady DEF AtenderWait
  <2>. QED BY <1>1, <2>1, TipoPorAtender, TipoBloqueado DEF AtenderWait
<1>3. CASE UNCHANGED listas /\ ConservaRecursos
  <2>1. TipoFin
    BY <1>1, <1>3, TipoConserva DEF TipoKernel, TypeOK, TipoListas
  <2>. QED BY <1>1, <2>1, TipoPorAtender, TipoBloqueado DEF AtenderWait
<1>. QED BY <1>2, <1>3 DEF AtenderWait, SalirSiPuede

(* AtenderWaitDesconocido keeps the types.                                 *)
LEMMA TipoAtenderWaitDesconocido ==
  ASSUME TipoKernel, NEW p \in Pid, AtenderWaitDesconocido(p)
  PROVE  TipoKernel'
<1>1. exitCode' \in [Pid -> Codigos]
  BY DEF AtenderWaitDesconocido, TipoKernel, TypeOK, Codigos
<1>2. TipoFin
  BY <1>1, TipoConserva DEF AtenderWaitDesconocido, TipoKernel, TypeOK, TipoListas
<1>. QED BY <1>2, TipoPorAtender, TipoBloqueado
         DEF AtenderWaitDesconocido, TipoKernel, TypeOK, semaforos

(* FinDeLazo keeps the types.                                              *)
LEMMA TipoFinDeLazo ==
  ASSUME TipoKernel, NEW f, NEW largo, NEW siguiente \in Fases,
         FinDeLazo(f, largo, siguiente)
  PROVE  TipoKernel'
<1>1. TypeOKCanales'
  BY DEF FinDeLazo, TipoKernel, TypeOK, TypeOKCanales, canales
<1>2. TypeOK'
  BY <1>1 DEF FinDeLazo, TipoKernel, TypeOK, pcbs, semaforos, tablaCpus
<1>. QED BY <1>2 DEF FinDeLazo, TipoKernel, canales

(* Nuevos keeps the types.                                                 *)
LEMMA TipoNuevos ==
  ASSUME TipoKernel, AdmitirNuevo \/ PasarNuevo \/ PasarCpu
  PROVE  TipoKernel'
<1>1. TypeOKCanales' /\ indice' \in Nat \ {0}
  <2>1. UNCHANGED canales /\ indice' = indice + 1
    BY DEF AdmitirNuevo, PasarNuevo, PasarCpu
  <2>2. TypeOKCanales /\ indice \in Nat \ {0}
    BY DEF TipoKernel, TypeOK
  <2>3. TypeOKCanales'
    BY <2>1, <2>2 DEF TypeOKCanales, canales
  <2>. QED BY <2>1, <2>2, <2>3
<1>2. CASE AdmitirNuevo
  <2>1. indice \in 1..Len(listas["new"])
    BY <1>2 DEF AdmitirNuevo, TipoKernel, TypeOK
  <2>2. TipoListas'
    BY <1>2, <2>1, MoverDesdeCambia, CambioTipado
       DEF AdmitirNuevo, TipoKernel, TypeOK, TipoListas
  <2>3. conPaginas' \in SUBSET Pid
    BY <1>2, <2>1, TipoEnLista DEF AdmitirNuevo, ReservarMemoriaParaProceso, TipoKernel, TypeOK, TipoListas
  <2>4. procesosEnSistema' \in 0..(Modulo - 1)
    <3>1. \A x \in Nat : x % Modulo \in 0..(Modulo - 1)
      BY ConstantesPlanificador, ConstantesCanales
    <3>. QED BY <1>2, <3>1 DEF AdmitirNuevo, ReservarMemoriaParaProceso, TipoKernel, TypeOK
  <2>5. TypeOK'
    BY <1>1, <1>2, <2>2, <2>3, <2>4
       DEF AdmitirNuevo, TipoKernel, TypeOK, TipoListas, pcbs, semaforos, tablaCpus
  <2>. QED BY <1>2, <2>5 DEF AdmitirNuevo, TipoKernel, canales
<1>3. CASE PasarNuevo \/ PasarCpu
  <2>1. TypeOK'
    BY <1>1, <1>3 DEF PasarNuevo, PasarCpu, TipoKernel, TypeOK, pcbs, semaforos, tablaCpus
  <2>. QED BY <1>3, <2>1 DEF PasarNuevo, PasarCpu, TipoKernel, canales
<1>. QED BY <1>2, <1>3

(* EnviarProceso keeps the types.                                          *)
LEMMA TipoEnviarProceso ==
  ASSUME TipoKernel, NEW c \in Cpu, EnviarProcesoACpu(c)
  PROVE  TipoKernel'
<1>1. 1 \in 1..Len(listas["ready"]) /\ Head(listas["ready"]) \in Pid
  <2>1. listas["ready"] \in Seq(Pid) /\ listas["ready"] # <<>>
    BY DEF EnviarProcesoACpu, Despachable, TipoKernel, TypeOK
  <2>. QED BY <2>1, HeadTailProperties, EmptySeq
<1>2. TipoListas'
  BY <1>1, MoverDesdeCambia, CambioTipado
     DEF EnviarProcesoACpu, AExec, TipoKernel, TypeOK, TipoListas
<1>3. aCpu' \in [Cpu -> Seq(MensajesKernel)]
  BY <1>1, TipoEnviar DEF EnviarProcesoACpu, TipoKernel
<1>4. TypeOKCanales'
  BY <1>3 DEF EnviarProcesoACpu, TipoKernel, TypeOK, TypeOKCanales
<1>5. libre' \in [Cpu -> BOOLEAN] /\ indice' \in Nat \ {0}
  BY DEF EnviarProcesoACpu, TipoKernel, TypeOK
<1>6. TypeOK'
  BY <1>2, <1>4, <1>5
     DEF EnviarProcesoACpu, TipoKernel, TypeOK, TipoListas, pcbs, semaforos
<1>. QED BY <1>6 DEF EnviarProcesoACpu, TipoKernel

(* Every step of the kernel keeps its types.                               *)
LEMMA TipoNextKernel ==
  ASSUME TipoKernel, NextKernel
  PROVE  TipoKernel'
<1>1. FinBloqueados \/ FinNuevos \/ FinDespacho => TipoKernel'
  BY TipoFinDeLazo DEF FinBloqueados, FinNuevos, FinDespacho, Fases
<1>. QED BY <1>1, TipoSelect, TipoNuevoCpu, TipoNuevoPrograma, TipoAtenderPrograma,
            TipoAtenderCpu, TipoDesconexionCpu, TipoFinDeEventos,
            TipoPasarBloqueado, TipoAtenderES, TipoAtenderESConError, TipoAtenderWait,
            TipoAtenderWaitDesconocido, TipoNuevos, TipoEnviarProceso
         DEF NextKernel
-----------------------------------------------------------------------------
(* The CPUs and the consoles.  They change the sockets and leave the       *)
(* kernel's own variables alone.                                           *)

(* A step of somebody else keeps the types of the kernel if it keeps those *)
(* of the sockets.                                                         *)
LEMMA TipoSinKernel ==
  ASSUME TipoKernel, UNCHANGED kernel, TypeOKCanales', llegadas' >= llegadas
  PROVE  TipoKernel'
<1>1. TypeOK'
  BY DEF TipoKernel, TypeOK, kernel, pcbs, semaforos, tablaCpus, control
<1>2. llegadas \in Int /\ llegadas' \in Int
  BY DEF TipoKernel, TypeOK, TypeOKCanales
<1>. QED BY <1>1, <1>2 DEF TipoKernel, kernel, control

TipoRafaga ==
  /\ estadoCpu' \in [Cpu -> EstadosCpu]
  /\ pidCpu' \in [Cpu -> Pid \cup {0}]
  /\ restante' \in [Cpu -> 0..Quantum]
  /\ enlace' \in [Cpu -> {"ausente", "pendiente", "abierto", "cerrado"}]

(* Only a burst has a process: a CPU that is running one knows its pid.    *)
ConPid == \A c \in Cpu : estadoCpu[c] \in {"ejecuta", "respuesta"} => pidCpu[c] # 0

InvCpu == TypeOKCanales /\ TypeOKProcesador /\ ConPid

(* The end of a burst keeps the types.                                     *)
LEMMA TipoTerminarRafaga ==
  ASSUME InvCpu, NEW c \in Cpu, NEW desde, TerminarRafaga(c, desde)
  PROVE  TipoRafaga /\ ConPid'
<1>1. /\ pidCpu' = [pidCpu EXCEPT ![c] = 0]
      /\ pidCpu' \in [Cpu -> Pid \cup {0}]
      /\ restante' \in [Cpu -> 0..Quantum]
  BY ConstantesProcesador DEF InvCpu, TerminarRafaga, Descartar, TypeOKProcesador
<1>2. CASE Pasar(c, desde, "contexto") /\ UNCHANGED enlace
  <2>1. estadoCpu' = [estadoCpu EXCEPT ![c] = "contexto"]
    BY <1>2 DEF Pasar
  <2>. QED BY <1>1, <1>2, <2>1
           DEF InvCpu, ConPid, TipoRafaga, TypeOKCanales, TypeOKProcesador, EstadosCpu
<1>3. CASE Pasar(c, desde, "terminado") /\ enlace' = [enlace EXCEPT ![c] = "cerrado"]
  <2>1. estadoCpu' = [estadoCpu EXCEPT ![c] = "terminado"]
    BY <1>3 DEF Pasar
  <2>. QED BY <1>1, <1>3, <2>1
           DEF InvCpu, ConPid, TipoRafaga, TypeOKCanales, TypeOKProcesador, EstadosCpu
<1>. QED BY <1>2, <1>3 DEF TerminarRafaga

(* A message that a burst sends is well typed.                             *)
LEMMA TipoMensajeCpu ==
  ASSUME InvCpu, NEW c \in Cpu, estadoCpu[c] \in {"ejecuta", "respuesta"},
         NEW tipo \in Pedidos \cup Finales, NEW s \in Nombre \cup {SinNombre}
  PROVE  MensajeCpu(tipo, pidCpu[c], s) \in MensajesCpu
<1>1. pidCpu[c] \in Pid
  BY DEF InvCpu, ConPid, TypeOKProcesador
<1>. QED BY <1>1 DEF MensajeCpu, MensajesCpu

(* Sending to the kernel keeps the channels well typed.                    *)
LEMMA TipoEnviarAKernel ==
  ASSUME TypeOKCanales, NEW c \in Cpu, NEW m \in MensajesCpu,
         EnviarAKernel(c, <<m>>) \/ EnviarAKernel(c, <<m, m>>)
  PROVE  aKernel' \in [Cpu -> Seq(MensajesCpu)]
<1>1. PICK ms \in Seq(MensajesCpu) : EnviarAKernel(c, ms)
  <2>1. <<m>> \in Seq(MensajesCpu) /\ <<m, m>> \in Seq(MensajesCpu)
    OBVIOUS
  <2>. QED BY <2>1
<1>2. aKernel[c] \o ms \in Seq(MensajesCpu)
  BY ConcatProperties DEF TypeOKCanales
<1>. QED BY <1>1, <1>2 DEF EnviarAKernel, TypeOKCanales

(* Reading a message keeps the channels well typed.                        *)
LEMMA TipoLeer ==
  ASSUME TypeOKCanales, NEW c \in Cpu, aCpu[c] # <<>>, Leer(c)
  PROVE  /\ aCpu' \in [Cpu -> Seq(MensajesKernel)]
         /\ Head(aCpu[c]) \in MensajesKernel
<1>1. aCpu[c] \in Seq(MensajesKernel)
  BY DEF TypeOKCanales
<1>2. Head(aCpu[c]) \in MensajesKernel /\ Tail(aCpu[c]) \in Seq(MensajesKernel)
  BY <1>1, HeadTailProperties
<1>. QED BY <1>2 DEF Leer, TypeOKCanales

(* RecibirContexto keeps the types.                                        *)
LEMMA TipoRecibirContexto ==
  ASSUME InvCpu, NEW c \in Cpu, RecibirContexto(c)
  PROVE  InvCpu'
<1>1. aCpu' \in [Cpu -> Seq(MensajesKernel)] /\ Head(aCpu[c]).pid \in Pid
  BY TipoLeer DEF InvCpu, RecibirContexto, MensajesKernel
<1>2. estadoCpu' = [estadoCpu EXCEPT ![c] = "ejecuta"]
  BY DEF RecibirContexto, Pasar
<1>3. 0 \notin Pid /\ Quantum \in 0..Quantum
  BY ConstantesCanales, ConstantesProcesador DEF Pid
<1>. QED BY <1>1, <1>2, <1>3
         DEF InvCpu, ConPid, RecibirContexto, TypeOKCanales, TypeOKProcesador, EstadosCpu

(* RecibirOtraCosa keeps the types.                                        *)
LEMMA TipoRecibirOtraCosa ==
  ASSUME InvCpu, NEW c \in Cpu, RecibirOtraCosa(c)
  PROVE  InvCpu'
<1>1. aCpu' \in [Cpu -> Seq(MensajesKernel)]
  BY TipoLeer DEF InvCpu, RecibirOtraCosa
<1>2. estadoCpu' = [estadoCpu EXCEPT ![c] = "desfasado"]
  BY DEF RecibirOtraCosa, Pasar
<1>. QED BY <1>1, <1>2
         DEF InvCpu, ConPid, RecibirOtraCosa, TypeOKCanales, TypeOKProcesador, EstadosCpu

(* Pedir keeps the types.                                                  *)
LEMMA TipoPedir ==
  ASSUME InvCpu, NEW c \in Cpu, NEW tipo \in Pedidos,
         NEW s \in Semaforo \cup {SinNombre}, Pedir(c, tipo, s)
  PROVE  InvCpu'
<1>1. estadoCpu[c] = "ejecuta" /\ estadoCpu' = [estadoCpu EXCEPT ![c] = "respuesta"]
  BY DEF Pedir, Pasar
<1>2. MensajeCpu(tipo, pidCpu[c], s) \in MensajesCpu
  BY <1>1, TipoMensajeCpu, ConstantesCanales
<1>3. aKernel' \in [Cpu -> Seq(MensajesCpu)]
  BY <1>2, TipoEnviarAKernel DEF InvCpu, Pedir
<1>4. restante' \in [Cpu -> 0..Quantum]
  BY ConstantesProcesador DEF InvCpu, Pedir, TypeOKProcesador
<1>. QED BY <1>1, <1>3, <1>4
         DEF InvCpu, ConPid, Pedir, TypeOKCanales, TypeOKProcesador, EstadosCpu

(* RecibirRespuesta keeps the types.                                       *)
LEMMA TipoRecibirRespuesta ==
  ASSUME InvCpu, NEW c \in Cpu, RecibirRespuesta(c)
  PROVE  InvCpu'
<1>1. aCpu' \in [Cpu -> Seq(MensajesKernel)]
  BY TipoLeer DEF InvCpu, RecibirRespuesta
<1>2. estadoCpu[c] = "respuesta" /\ estadoCpu' = [estadoCpu EXCEPT ![c] = "ejecuta"]
  BY DEF RecibirRespuesta, Pasar
<1>. QED BY <1>1, <1>2
         DEF InvCpu, ConPid, RecibirRespuesta, TypeOKCanales, TypeOKProcesador, EstadosCpu

(* RespuestaInesperada keeps the types.                                    *)
LEMMA TipoRespuestaInesperada ==
  ASSUME InvCpu, NEW c \in Cpu, RecibirRespuestaInesperada(c)
  PROVE  InvCpu'
<1> DEFINE error == MensajeCpu("FINALIZO_CON_ERROR", pidCpu[c], SinNombre)
<1>1. aCpu' \in [Cpu -> Seq(MensajesKernel)] /\ estadoCpu[c] = "respuesta"
  BY TipoLeer DEF InvCpu, RecibirRespuestaInesperada, TerminarRafaga, Pasar
<1>2. error \in MensajesCpu
  BY <1>1, TipoMensajeCpu DEF Finales
<1>3. CASE /\ Pasar(c, "respuesta", "ejecuta")
           /\ EnviarAKernel(c, <<error>>)
           /\ UNCHANGED <<enlace, pidCpu, restante>>
  <2>1. aKernel' \in [Cpu -> Seq(MensajesCpu)]
    BY <1>2, <1>3, TipoEnviarAKernel DEF InvCpu
  <2>2. estadoCpu' = [estadoCpu EXCEPT ![c] = "ejecuta"]
    BY <1>3 DEF Pasar
  <2>. QED BY <1>1, <1>3, <2>1, <2>2
           DEF InvCpu, ConPid, RecibirRespuestaInesperada, TypeOKCanales,
               TypeOKProcesador, EstadosCpu
<1>4. CASE TerminarRafaga(c, "respuesta") /\ EnviarAKernel(c, <<error, error>>)
  <2>1. aKernel' \in [Cpu -> Seq(MensajesCpu)]
    BY <1>2, <1>4, TipoEnviarAKernel DEF InvCpu
  <2>2. TipoRafaga /\ ConPid'
    BY <1>4, TipoTerminarRafaga
  <2>. QED BY <1>1, <2>1, <2>2
           DEF InvCpu, RecibirRespuestaInesperada, TypeOKCanales, TypeOKProcesador, TipoRafaga
<1>. QED BY <1>3, <1>4 DEF RecibirRespuestaInesperada

(* FinDeRafaga keeps the types.                                            *)
LEMMA TipoFinDeRafaga ==
  ASSUME InvCpu, NEW c \in Cpu, NEW tipo \in Finales,
         NEW s \in Nombre \cup {SinNombre}, FinDeRafaga(c, tipo, s)
  PROVE  InvCpu'
<1>1. estadoCpu[c] = "ejecuta"
  BY DEF FinDeRafaga, TerminarRafaga, Pasar
<1>2. MensajeCpu(tipo, pidCpu[c], s) \in MensajesCpu
  BY <1>1, TipoMensajeCpu
<1>4. aKernel' \in [Cpu -> Seq(MensajesCpu)]
  BY <1>2, TipoEnviarAKernel DEF InvCpu, FinDeRafaga
<1>3. TipoRafaga /\ ConPid'
  BY TipoTerminarRafaga DEF FinDeRafaga
<1>. QED BY <1>3, <1>4
         DEF InvCpu, FinDeRafaga, TypeOKCanales, TypeOKProcesador, TipoRafaga

(* MoverCursor keeps the types.                                            *)
LEMMA TipoMoverCursor ==
  ASSUME InvCpu, NEW c \in Cpu, MoverCursor(c)
  PROVE  InvCpu'
<1>1. TipoRafaga /\ ConPid'
  BY TipoTerminarRafaga DEF MoverCursor
<1>. QED BY <1>1 DEF InvCpu, MoverCursor, TypeOKCanales, TypeOKProcesador, TipoRafaga

(* Sucesos keeps the types.                                                *)
LEMMA TipoSucesos ==
  ASSUME InvCpu, NEW c \in Cpu, Conectar(c) \/ Sigusr1(c) \/ CaerCpu(c)
  PROVE  InvCpu'
<1>1. CASE Conectar(c)
  BY <1>1 DEF InvCpu, ConPid, Conectar, TypeOKCanales, TypeOKProcesador, procesador
<1>2. CASE Sigusr1(c)
  BY <1>2 DEF InvCpu, ConPid, Sigusr1, TypeOKCanales, TypeOKProcesador, canales
<1>3. CASE CaerCpu(c)
  <2>1. pidCpu' = [pidCpu EXCEPT ![c] = 0] /\ restante' = [restante EXCEPT ![c] = 0]
    BY <1>3 DEF CaerCpu, Descartar
  <2>2. estadoCpu' = [estadoCpu EXCEPT ![c] = "terminado"]
    BY <1>3 DEF CaerCpu
  <2>. QED BY <1>3, <2>1, <2>2, ConstantesProcesador
           DEF InvCpu, ConPid, CaerCpu, TypeOKCanales, TypeOKProcesador, EstadosCpu
<1>. QED BY <1>1, <1>2, <1>3

(* Consola keeps the types.                                                *)
LEMMA TipoPasoConsola ==
  ASSUME InvTipo, ConPid, Consola
  PROVE  InvTipo' /\ ConPid'
<1>1. TypeOKProcesador' /\ ConPid'
  BY DEF Consola, procesador, InvTipo, TypeOKProcesador, ConPid
<1>2. TypeOKCanales' /\ llegadas' >= llegadas
  <2>1. TypeOKCanales /\ numeroPid \in 1..(MaxPid + 1) /\ MaxPid \in Nat
    BY ConstantesCanales DEF InvTipo, TipoKernel, TypeOK
  <2>2. CASE IniciarPrograma(numeroPid)
    BY <2>1, <2>2 DEF IniciarPrograma, TypeOKCanales
  <2>3. ASSUME NEW p \in Pid, PedirFinalizar(p) \/ CerrarConsola(p)
        PROVE  TypeOKCanales' /\ llegadas' >= llegadas
    BY <2>1, <2>3 DEF PedirFinalizar, CerrarConsola, TypeOKCanales
  <2>. QED BY <2>2, <2>3 DEF Consola
<1>3. TipoKernel'
  BY <1>2, TipoSinKernel DEF InvTipo, Consola
<1>. QED BY <1>1, <1>3 DEF InvTipo

(* Every step of a CPU keeps the types.                                    *)
LEMMA TipoCpu ==
  ASSUME InvTipo, ConPid, NEW c \in Cpu, TrabajoDeCpu(c) \/ SucesoDeCpu(c)
  PROVE  InvTipo' /\ ConPid'
<1>1. InvCpu
  BY DEF InvTipo, TipoKernel, TypeOK, InvCpu
<1>2. InvCpu'
  BY <1>1, TipoRecibirContexto, TipoRecibirOtraCosa, TipoPedir, TipoRecibirRespuesta,
     TipoRespuestaInesperada, TipoFinDeRafaga, TipoMoverCursor, TipoSucesos
     DEF TrabajoDeCpu, SucesoDeCpu
<1>3. llegadas' = llegadas /\ UNCHANGED kernel
  BY DEF TrabajoDeCpu, SucesoDeCpu, RecibirContexto, RecibirOtraCosa, Pedir,
         RecibirRespuesta, RecibirRespuestaInesperada, FinDeRafaga, MoverCursor,
         Conectar, Sigusr1, CaerCpu, canales
<1>4. llegadas' >= llegadas
  BY <1>1, <1>3 DEF InvCpu, TypeOKCanales
<1>5. TipoKernel'
  BY <1>2, <1>3, <1>4, TipoSinKernel DEF InvTipo, InvCpu
<1>. QED BY <1>2, <1>5 DEF InvTipo, InvCpu
-----------------------------------------------------------------------------
(* Every step of the system keeps the types.                               *)
LEMMA TipoNext ==
  ASSUME InvTipo, ConPid, [Next]_vars
  PROVE  InvTipo' /\ ConPid'
<1>1. CASE PasoDeKernel
  BY <1>1, TipoNextKernel
     DEF PasoDeKernel, InvTipo, ConPid, TypeOKProcesador, procesador
<1>2. CASE Consola
  BY <1>2, TipoPasoConsola
<1>3. CASE \E c \in Cpu : TrabajoDeCpu(c) \/ SucesoDeCpu(c)
  BY <1>3, TipoCpu
<1>4. CASE UNCHANGED vars
  <2>1. TypeOKCanales' /\ TypeOKProcesador' /\ ConPid' /\ llegadas' >= llegadas
    BY <1>4 DEF vars, canales, procesador, InvTipo, TipoKernel, TypeOK,
                TypeOKCanales, TypeOKProcesador, ConPid
  <2>. QED BY <1>4, <2>1, TipoSinKernel DEF vars, InvTipo
<1>. QED BY <1>1, <1>2, <1>3, <1>4 DEF Next

(* The typing invariant is inductive.                                      *)
LEMMA InvTipoInductivo ==
  Spec => [](InvTipo /\ ConPid)
<1>1. Init => InvTipo /\ ConPid
  BY TipoInicial DEF Init, InitProcesador, ConPid
<1>2. InvTipo /\ ConPid /\ [Next]_vars => InvTipo' /\ ConPid'
  BY TipoNext
<1>. QED BY <1>1, <1>2, PTL DEF Spec

(* TypeOK and TypeOKProcesador hold for any number of programs, CPUs and   *)
(* semaforos and whatever the scripts, the consoles and the failures do:   *)
(* in particular procesosEnSistema stays in the range of its type and a    *)
(* semaphore is never taken below zero.                                    *)
THEOREM TipoSiempreCorrecto == Spec => []TipoCorrecto
<1>1. InvTipo /\ ConPid => TipoCorrecto
  BY DEF InvTipo, TipoKernel, TipoCorrecto
<1>. QED BY <1>1, InvTipoInductivo, PTL
-----------------------------------------------------------------------------
(* UnicaLista.  Every step of the kernel but NuevoPrograma is one move.    *)

(* The handler of each message changes the lists by one move at most.      *)
LEMMA ListasEnTratado ==
  ASSUME TipoListas, NEW c, NEW m,
         \/ FinalizoEjecucion(c, m)
         \/ FinalizoConError(c, m)
         \/ FinalizoQuantum(c, m)
         \/ PidioArchivo(c, m)
         \/ Wait(c, m)
         \/ Signal(c, m)
         \/ Consulta(c, m)
         \/ AlocarBien(c, m)
         \/ AlocarMal(c, m)
  PROVE  CambioDeListas
<1>1. CASE FinalizoEjecucion(c, m) \/ FinalizoConError(c, m)
  BY <1>1, ListasEnExecAExit DEF FinalizoEjecucion, FinalizoConError
<1>2. CASE FinalizoQuantum(c, m) \/ PidioArchivo(c, m) \/ Wait(c, m)
  BY <1>2, ListasEnMoverDeExec DEF FinalizoQuantum, PidioArchivo, Wait
<1>3. CASE Signal(c, m) \/ Consulta(c, m) \/ AlocarBien(c, m)
  BY <1>3 DEF Signal, Consulta, AlocarBien, CambioDeListas
<1>4. CASE AlocarMal(c, m)
  BY <1>4, ListasEnFinalizar DEF AlocarMal
<1>. QED BY <1>1, <1>2, <1>3, <1>4

(* Every step of the kernel changes the lists by one move at most or       *)
(* accepts a program.                                                      *)
LEMMA ListasEnNextKernel ==
  ASSUME TipoKernel, NextKernel
  PROVE  NuevoPrograma \/ (CambioDeListas /\ numeroPid' = numeroPid)
<1>t. TipoListas /\ (UNCHANGED listas => CambioDeListas)
  BY DEF TipoKernel, TypeOK, TipoListas, CambioDeListas
<1>1. CASE Select \/ FinDeEventos \/ PasarNuevo \/ PasarCpu
           \/ FinBloqueados \/ FinNuevos \/ FinDespacho
  BY <1>1, <1>t DEF Select, FinDeEventos, PasarNuevo, PasarCpu, FinBloqueados,
                    FinNuevos, FinDespacho, FinDeLazo, pcbs
<1>2. ASSUME NEW c \in Cpu, NuevoCpu(c) \/ DesconexionCpu(c)
      PROVE  CambioDeListas /\ numeroPid' = numeroPid
  BY <1>2, <1>t DEF NuevoCpu, DesconexionCpu, pcbs
<1>3. ASSUME NEW p \in Pid, AtenderPrograma(p)
      PROVE  CambioDeListas /\ numeroPid' = numeroPid
  BY <1>3, <1>t, ListasEnFinalizar DEF AtenderPrograma
<1>4. ASSUME NEW c \in Cpu, AtenderCpu(c)
      PROVE  CambioDeListas /\ numeroPid' = numeroPid
  BY <1>4, <1>t, ListasEnTratado DEF AtenderCpu, Recibir
<1>5. ASSUME NEW p \in Pid, EnBloqueado(p), ABlockedReady
      PROVE  CambioDeListas
  BY <1>5, <1>t, TipoEnBloqueado, MoverDesdeCambia DEF ABlockedReady
<1>6. ASSUME NEW p \in Pid,
             \/ PasarBloqueado(p) \/ AtenderES(p) \/ AtenderESConError(p)
             \/ AtenderWait(p) \/ AtenderWaitDesconocido(p)
      PROVE  CambioDeListas /\ numeroPid' = numeroPid
  <2>1. EnBloqueado(p) /\ numeroPid' = numeroPid
    BY <1>6 DEF PasarBloqueado, AtenderES, AtenderESConError, AtenderWait,
                AtenderWaitDesconocido, PorAtender, EnBloqueado
  <2>2. CASE PasarBloqueado(p) \/ AtenderWaitDesconocido(p)
    BY <2>1, <2>2, <1>t DEF PasarBloqueado, AtenderWaitDesconocido
  <2>3. CASE AtenderES(p) \/ AtenderWait(p)
    BY <2>1, <2>3, <1>5, <1>t DEF AtenderES, AtenderWait, SalirSiPuede
  <2>4. CASE AtenderESConError(p)
    <3>1. p \in En("blocked")
      BY <2>1, TipoEnBloqueado DEF EnBloqueado, En, ToSet, TipoKernel, TypeOK
    <3>. QED BY <2>1, <2>4, <3>1, <1>t, MoverCambia
             DEF AtenderESConError, FinalizarProgramaConError
  <2>. QED BY <1>6, <2>2, <2>3, <2>4
<1>7. CASE AdmitirNuevo
  <2>1. indice \in 1..Len(listas["new"])
    BY <1>7 DEF AdmitirNuevo, TipoKernel, TypeOK
  <2>. QED BY <1>7, <1>t, <2>1, MoverDesdeCambia DEF AdmitirNuevo, pcbs
<1>8. ASSUME NEW c \in Cpu, EnviarProcesoACpu(c)
      PROVE  CambioDeListas /\ numeroPid' = numeroPid
  <2>1. 1 \in 1..Len(listas["ready"])
    BY <1>8, EmptySeq DEF EnviarProcesoACpu, Despachable, TipoKernel, TypeOK
  <2>. QED BY <1>8, <1>t, <2>1, MoverDesdeCambia DEF EnviarProcesoACpu, AExec, pcbs
<1>. QED BY <1>1, <1>2, <1>3, <1>4, <1>6, <1>7, <1>8 DEF NextKernel

(* A move keeps every process in one place.                                *)
LEMMA UnicaTrasMover ==
  ASSUME TipoListas, UnicaLista, numeroPid' = numeroPid,
         NEW e \in Estados, NEW d \in Estados, e # d,
         NEW k \in 1..Len(listas[e]), MoverDesde(e, k, d)
  PROVE  UnicaLista'
<1> DEFINE Lista(x, j) == IF x = d /\ j > Len(listas[d]) THEN e ELSE x
           Lugar(x, j) == IF x = d /\ j > Len(listas[d]) THEN k
                          ELSE IF x = e /\ j >= k THEN j + 1 ELSE j
<1>1. /\ \A x \in Estados : listas[x] \in Seq(Pid) /\ DOMAIN listas[x] = 1..Len(listas[x])
      /\ \A x \in Estados : Len(listas[x]) \in Nat
  BY LenProperties DEF TipoListas
<1>2. /\ listas'[e] = RemoveAt(listas[e], k)
      /\ listas'[d] = Append(listas[d], listas[e][k])
      /\ \A x \in Estados : x # e /\ x # d => listas'[x] = listas[x]
  BY DEF MoverDesde, TipoListas
<1>3. /\ Len(listas'[e]) = Len(listas[e]) - 1
      /\ DOMAIN listas'[e] = 1..(Len(listas[e]) - 1)
      /\ \A i \in 1..(Len(listas[e]) - 1) :
           listas'[e][i] = IF i < k THEN listas[e][i] ELSE listas[e][i + 1]
  <2>1. listas[e] \in Seq(Pid)
    BY <1>1
  <2>2. /\ RemoveAt(listas[e], k) \in Seq(Pid)
        /\ Len(RemoveAt(listas[e], k)) = Len(listas[e]) - 1
        /\ \A i \in 1..(Len(listas[e]) - 1) : RemoveAt(listas[e], k)[i] =
             IF i < k THEN listas[e][i] ELSE listas[e][i + 1]
    BY <2>1, QuitarDeSecuencia
  <2>3. DOMAIN RemoveAt(listas[e], k) = 1..(Len(listas[e]) - 1)
    BY <2>2, LenProperties
  <2>. QED BY <1>2, <2>2, <2>3
<1>k. k \in Nat /\ 1 <= k /\ k <= Len(listas[e])
  BY <1>1
<1>4. /\ DOMAIN listas'[d] = 1..(Len(listas[d]) + 1)
      /\ \A i \in 1..Len(listas[d]) : listas'[d][i] = listas[d][i]
      /\ listas'[d][Len(listas[d]) + 1] = listas[e][k]
  <2>1. listas[d] \in Seq(Pid) /\ listas[e][k] \in Pid
    BY <1>1, ElementOfSeq
  <2>. QED BY <1>2, <2>1
(* Each place of the new lists holds what one place of the old ones held,  *)
(* no two the same, and no old place is left out.                          *)
<1>5. ASSUME NEW x \in Estados, NEW j \in DOMAIN listas'[x]
      PROVE  /\ Lista(x, j) \in Estados
             /\ Lugar(x, j) \in DOMAIN listas[Lista(x, j)]
             /\ listas'[x][j] = listas[Lista(x, j)][Lugar(x, j)]
  <2>1. CASE x = e
    <3>1. j \in 1..(Len(listas[e]) - 1) /\ Lista(x, j) = e
      BY <1>3, <2>1
    <3>n. Len(listas[e]) \in Nat /\ DOMAIN listas[e] = 1..Len(listas[e]) /\ j \in Nat
      BY <1>1, <3>1
    <3>v. listas'[e][j] = IF j < k THEN listas[e][j] ELSE listas[e][j + 1]
      BY <1>3, <3>1
    <3>2. CASE j < k
      <4>1. Lugar(x, j) = j
        BY <1>k, <2>1, <3>2, <3>n
      <4>2. j \in 1..Len(listas[e])
        BY <3>1, <3>n
      <4>. QED BY <2>1, <3>1, <3>2, <3>n, <3>v, <4>1, <4>2
    <3>3. CASE j >= k
      <4>1. Lugar(x, j) = j + 1
        BY <1>k, <2>1, <3>3, <3>n
      <4>2. j + 1 \in 1..Len(listas[e])
        BY <3>1, <3>n
      <4>3. ~(j < k)
        BY <1>k, <3>3, <3>n
      <4>. QED BY <2>1, <3>1, <3>n, <3>v, <4>1, <4>2, <4>3
    <3>. QED BY <1>k, <3>n, <3>2, <3>3
  <2>2. CASE x = d
    <3>1. j \in 1..(Len(listas[d]) + 1)
      BY <1>4, <2>2
    <3>2. CASE j <= Len(listas[d])
      BY <1>1, <1>4, <2>2, <3>1, <3>2
    <3>3. CASE j = Len(listas[d]) + 1
      BY <1>1, <1>4, <1>k, <2>2, <3>3
    <3>. QED BY <1>1, <3>1, <3>2, <3>3
  <2>3. CASE x # e /\ x # d
    BY <1>1, <1>2, <2>3
  <2>. QED BY <2>1, <2>2, <2>3
<1>6. ASSUME NEW x \in Estados, NEW j \in DOMAIN listas'[x],
             NEW y \in Estados, NEW i \in DOMAIN listas'[y],
             Lista(x, j) = Lista(y, i), Lugar(x, j) = Lugar(y, i)
      PROVE  x = y /\ j = i
  <2>1. \A z \in Estados : DOMAIN listas'[z] \subseteq Nat
    <3>1. DOMAIN listas'[e] \subseteq Nat /\ DOMAIN listas'[d] \subseteq Nat
      BY <1>3, <1>4
    <3>2. \A z \in Estados \ {e, d} : DOMAIN listas'[z] = 1..Len(listas[z])
      BY <1>1, <1>2
    <3>3. \A z \in Estados \ {e, d} : DOMAIN listas'[z] \subseteq Nat
      BY <3>2
    <3>. QED BY <3>1, <3>3
  <2>2. /\ j \in Nat /\ i \in Nat
        /\ x = d => j <= Len(listas[d]) + 1
        /\ y = d => i <= Len(listas[d]) + 1
    BY <1>1, <1>4, <2>1
  <2>. QED BY <1>1, <1>6, <1>k, <2>2
<1>7. ASSUME NEW y \in Estados, NEW i \in DOMAIN listas[y]
      PROVE  \E x \in Estados : \E j \in DOMAIN listas'[x] : listas'[x][j] = listas[y][i]
  <2>1. CASE y = e /\ i < k
    <3>1. i \in DOMAIN listas'[e] /\ listas'[e][i] = listas[e][i]
      <4>1. i \in 1..Len(listas[e]) /\ Len(listas[e]) \in Nat
        BY <1>1, <2>1
      <4>2. i \in 1..(Len(listas[e]) - 1)
        BY <4>1, <1>k, <2>1
      <4>. QED BY <1>3, <4>2, <2>1
    <3>. QED BY <2>1, <3>1
  <2>2. CASE y = e /\ i = k
    <3>1. Len(listas[d]) + 1 \in DOMAIN listas'[d]
      BY <1>1, <1>4
    <3>. QED BY <1>4, <2>2, <3>1
  <2>3. CASE y = e /\ i > k
    <3>1. i - 1 \in DOMAIN listas'[e] /\ listas'[e][i - 1] = listas[e][i]
      <4>1. i \in 1..Len(listas[e]) /\ i - 1 \in 1..(Len(listas[e]) - 1) /\ ~(i - 1 < k)
        BY <1>1, <1>k, <2>3
      <4>. QED BY <1>3, <4>1
    <3>. QED BY <2>3, <3>1
  <2>4. CASE y = d
    <3>1. i \in DOMAIN listas'[d] /\ listas'[d][i] = listas[d][i]
      <4>1. i \in 1..Len(listas[d]) /\ Len(listas[d]) \in Nat
        BY <1>1, <2>4
      <4>2. i \in 1..(Len(listas[d]) + 1)
        BY <4>1
      <4>. QED BY <1>4, <4>1, <4>2
    <3>. QED BY <2>4, <3>1
  <2>5. CASE y # e /\ y # d
    BY <1>1, <1>2, <2>5
  <2>6. i \in Nat
    BY <1>1
  <2>. QED BY <2>1, <2>2, <2>3, <2>4, <2>5, <2>6
<1>. HIDE DEF Lista, Lugar
<1>8. \A x, y \in Estados : \A j \in DOMAIN listas'[x], i \in DOMAIN listas'[y] :
        listas'[x][j] = listas'[y][i] => x = y /\ j = i
  <2>. SUFFICES ASSUME NEW x \in Estados, NEW y \in Estados,
                       NEW j \in DOMAIN listas'[x], NEW i \in DOMAIN listas'[y],
                       listas'[x][j] = listas'[y][i]
                PROVE  x = y /\ j = i
    OBVIOUS
  <2>1. listas[Lista(x, j)][Lugar(x, j)] = listas[Lista(y, i)][Lugar(y, i)]
    BY <1>5
  <2>2. Lista(x, j) = Lista(y, i) /\ Lugar(x, j) = Lugar(y, i)
    BY <1>5, <2>1 DEF UnicaLista
  <2>. QED BY <1>6, <2>2
<1>9. \A p \in Pid : p < numeroPid' <=> \E x \in Estados : p \in En(x)'
  BY <1>5, <1>7 DEF UnicaLista, En, ToSet
<1>. QED BY <1>8, <1>9 DEF UnicaLista

(* A new program goes to one list, where it was not.                       *)
LEMMA UnicaTrasCrear ==
  ASSUME TipoKernel, UnicaLista, NuevoPrograma
  PROVE  UnicaLista'
<1> DEFINE n == Len(listas["new"])
<1>1. /\ \A x \in Estados : listas[x] \in Seq(Pid) /\ DOMAIN listas[x] = 1..Len(listas[x])
      /\ n \in Nat
      /\ numeroPid \in Pid /\ numeroPid \in Nat /\ numeroPid' = numeroPid + 1
  BY ConstantesCanales, LenProperties DEF TipoKernel, TypeOK, NuevoPrograma, Pid
<1>2. /\ listas'["new"] = Append(listas["new"], numeroPid)
      /\ \A x \in Estados : x # "new" => listas'[x] = listas[x]
  BY DEF NuevoPrograma, TipoKernel, TypeOK
<1>3. /\ DOMAIN listas'["new"] = 1..(n + 1)
      /\ \A i \in 1..n : listas'["new"][i] = listas["new"][i]
      /\ listas'["new"][n + 1] = numeroPid
  BY <1>1, <1>2
<1>4. \A x \in Estados : \A i \in DOMAIN listas[x] : listas[x][i] \in Pid /\ listas[x][i] < numeroPid
  <2>. SUFFICES ASSUME NEW x \in Estados, NEW i \in DOMAIN listas[x]
                PROVE  listas[x][i] \in Pid /\ listas[x][i] < numeroPid
    OBVIOUS
  <2>1. listas[x][i] \in Pid
    BY <1>1, ElementOfSeq
  <2>2. listas[x][i] \in En(x)
    BY DEF En, ToSet
  <2>. QED BY <2>1, <2>2 DEF UnicaLista
(* A place of the new lists is an old one or the end of "new".             *)
<1>5. ASSUME NEW x \in Estados, NEW j \in DOMAIN listas'[x]
      PROVE  \/ j \in DOMAIN listas[x] /\ listas'[x][j] = listas[x][j]
             \/ x = "new" /\ j = n + 1
  <2>1. CASE x = "new"
    <3>1. j \in 1..(n + 1)
      BY <1>3, <2>1
    <3>2. CASE j \in 1..n
      BY <1>1, <1>3, <2>1, <3>2
    <3>. QED BY <1>1, <2>1, <3>1, <3>2
  <2>2. CASE x # "new"
    BY <1>2, <2>2
  <2>. QED BY <2>1, <2>2
<1>6. \A x \in Estados : \A j \in DOMAIN listas[x] :
        j \in DOMAIN listas'[x] /\ listas'[x][j] = listas[x][j]
  <2>. SUFFICES ASSUME NEW x \in Estados, NEW j \in DOMAIN listas[x]
                PROVE  j \in DOMAIN listas'[x] /\ listas'[x][j] = listas[x][j]
    OBVIOUS
  <2>1. CASE x = "new"
    <3>1. j \in 1..n
      BY <1>1, <2>1
    <3>. QED BY <1>1, <1>3, <2>1, <3>1
  <2>2. CASE x # "new"
    BY <1>2, <2>2
  <2>. QED BY <2>1, <2>2
<1>7. n + 1 \in DOMAIN listas'["new"]
  BY <1>1, <1>3
<1>. HIDE DEF n
<1>8. \A x, y \in Estados : \A j \in DOMAIN listas'[x], i \in DOMAIN listas'[y] :
        listas'[x][j] = listas'[y][i] => x = y /\ j = i
  <2>. SUFFICES ASSUME NEW x \in Estados, NEW y \in Estados,
                       NEW j \in DOMAIN listas'[x], NEW i \in DOMAIN listas'[y],
                       listas'[x][j] = listas'[y][i]
                PROVE  x = y /\ j = i
    OBVIOUS
  <2>1. CASE j \in DOMAIN listas[x] /\ listas'[x][j] = listas[x][j]
             /\ i \in DOMAIN listas[y] /\ listas'[y][i] = listas[y][i]
    <3>1. listas[x][j] = listas[y][i]
      BY <2>1
    <3>. QED BY <2>1, <3>1 DEF UnicaLista
  <2>2. CASE x = "new" /\ j = n + 1 /\ y = "new" /\ i = n + 1
    BY <2>2
  <2>3. \A q \in Pid : q < numeroPid => q # numeroPid
    BY <1>1 DEF Pid
  <2>. QED BY <1>3, <1>4, <1>5, <2>1, <2>2, <2>3
<1>9. ASSUME NEW p \in Pid
      PROVE  p < numeroPid' <=> \E x \in Estados : p \in En(x)'
  <2>1. p < numeroPid' <=> p < numeroPid \/ p = numeroPid
    BY <1>1 DEF Pid
  <2>2. p < numeroPid <=> \E x \in Estados : \E j \in DOMAIN listas[x] : listas[x][j] = p
    BY DEF UnicaLista, En, ToSet
  <2>3. (\E x \in Estados : p \in En(x)')
          <=> \E x \in Estados : \E j \in DOMAIN listas'[x] : listas'[x][j] = p
    BY DEF En, ToSet
  <2>. QED BY <1>3, <1>5, <1>6, <1>7, <2>1, <2>2, <2>3
<1>. QED BY <1>8, <1>9 DEF UnicaLista

(* Every step of the kernel keeps UnicaLista.                              *)
LEMMA UnicaNextKernel ==
  ASSUME TipoKernel, UnicaLista, NextKernel
  PROVE  UnicaLista'
<1>1. CASE NuevoPrograma
  BY <1>1, UnicaTrasCrear
<1>2. CASE UNCHANGED listas /\ numeroPid' = numeroPid
  BY <1>2 DEF UnicaLista, En
<1>3. ASSUME NEW e \in Estados, NEW d \in Estados, e # d,
             NEW k \in 1..Len(listas[e]), MoverDesde(e, k, d), numeroPid' = numeroPid
      PROVE  UnicaLista'
  BY <1>3, UnicaTrasMover DEF TipoKernel, TypeOK, TipoListas
<1>. QED BY <1>1, <1>2, <1>3, ListasEnNextKernel DEF CambioDeListas

(* Steps that are not the kernel's leave its variables alone.              *)
LEMMA PasoAjeno ==
  ASSUME [Next]_vars, ~PasoDeKernel
  PROVE  UNCHANGED kernel
BY DEF Next, Consola, TrabajoDeCpu, SucesoDeCpu, vars

(* Every step of the system keeps each process in one list.                *)
LEMMA UnicaNext ==
  ASSUME InvTipo, UnicaLista, [Next]_vars
  PROVE  UnicaLista'
<1>1. CASE PasoDeKernel
  BY <1>1, UnicaNextKernel DEF PasoDeKernel, InvTipo
<1>2. CASE ~PasoDeKernel
  <2>1. listas' = listas /\ numeroPid' = numeroPid
    BY <1>2, PasoAjeno DEF kernel, pcbs
  <2>. QED BY <2>1 DEF UnicaLista, En
<1>. QED BY <1>1, <1>2

(* No PCB is ever lost, duplicated or in two lists at once, whatever the   *)
(* order of the messages, the commands and the failures, although each     *)
(* function that moves one searches a single list and adds and removes in  *)
(* separate calls.                                                         *)
THEOREM SiempreEnUnaLista == Spec => []UnicaLista
<1>1. Init => UnicaLista
  <2>. SUFFICES ASSUME Init PROVE UnicaLista
    OBVIOUS
  <2>1. /\ \A e \in Estados : listas[e] = <<>> /\ DOMAIN listas[e] = {}
        /\ numeroPid = 1
    BY DEF Init, InitKernel
  <2>. QED BY <2>1, ConstantesCanales DEF UnicaLista, En, ToSet, Pid
<1>2. InvTipo /\ UnicaLista /\ [Next]_vars => UnicaLista'
  BY UnicaNext
<1>. QED BY <1>1, <1>2, InvTipoInductivo, PTL DEF Spec
-----------------------------------------------------------------------------
(* The semaphores.                                                         *)

(* Every step of the kernel leaves the semaphores alone, does a SIGNAL or  *)
(* does a WAIT.                                                            *)
LEMMA SemaforosEnNextKernel ==
  ASSUME TypeOK, NextKernel
  PROVE  \/ UNCHANGED semaforos
         \/ \E s \in Nombre \cup {SinNombre} : DespertarOSumar(s)
         \/ \E p \in Pid : \E s \in Semaforo : TomarODormir(p, s)
<1>1. ASSUME NEW c \in Cpu, AtenderCpu(c)
      PROVE  UNCHANGED semaforos \/ \E s \in Nombre \cup {SinNombre} : DespertarOSumar(s)
  <2>1. PICK m \in ToSet(aKernel[c]) :
           \/ FinalizoEjecucion(c, m) \/ FinalizoConError(c, m) \/ FinalizoQuantum(c, m)
           \/ PidioArchivo(c, m) \/ Wait(c, m) \/ Signal(c, m) \/ Consulta(c, m)
           \/ AlocarBien(c, m) \/ AlocarMal(c, m)
    BY <1>1 DEF AtenderCpu
  <2>2. CASE Signal(c, m)
    BY <2>2, TipoMensaje DEF Signal
  <2>3. CASE ~Signal(c, m)
    BY <2>1, <2>3 DEF FinalizoEjecucion, FinalizoConError, FinalizoQuantum,
                      PidioArchivo, Wait, Consulta, AlocarBien, AlocarMal
  <2>. QED BY <2>2, <2>3
<1>2. ASSUME NEW p \in Pid, AtenderWait(p)
      PROVE  \E s \in Semaforo : TomarODormir(p, s)
  BY <1>2 DEF AtenderWait
<1>3. CASE \/ Select \/ NuevoPrograma \/ FinDeEventos
           \/ FinBloqueados \/ FinNuevos \/ FinDespacho
           \/ AdmitirNuevo \/ PasarNuevo \/ PasarCpu
  BY <1>3 DEF Select, NuevoPrograma, FinDeEventos, FinBloqueados, FinNuevos,
              FinDespacho, FinDeLazo, AdmitirNuevo, PasarNuevo, PasarCpu
<1>4. ASSUME NEW c \in Cpu, NuevoCpu(c) \/ DesconexionCpu(c) \/ EnviarProcesoACpu(c)
      PROVE  UNCHANGED semaforos
  BY <1>4 DEF NuevoCpu, DesconexionCpu, EnviarProcesoACpu
<1>5. ASSUME NEW p \in Pid,
             \/ AtenderPrograma(p) \/ PasarBloqueado(p) \/ AtenderES(p)
             \/ AtenderESConError(p) \/ AtenderWaitDesconocido(p)
      PROVE  UNCHANGED semaforos
  BY <1>5 DEF AtenderPrograma, PasarBloqueado, AtenderES, AtenderESConError,
              AtenderWaitDesconocido
<1>. QED BY <1>1, <1>2, <1>3, <1>4, <1>5 DEF NextKernel

(* SIGNAL keeps SinUnidadOciosa: it adds a unit only to a semaphore        *)
(* without waiters.                                                        *)
LEMMA OciosaTrasDespertar ==
  ASSUME TypeOK, SinUnidadOciosa, NEW s, DespertarOSumar(s)
  PROVE  SinUnidadOciosa'
<1>. SUFFICES ASSUME NEW r \in Semaforo, pilaEspera'[r] # <<>>
              PROVE  valor'[r] = 0
  BY DEF SinUnidadOciosa
<1>1. CASE pilaEspera[s] # <<>>
  <2>1. valor' = valor /\ pilaEspera' = [pilaEspera EXCEPT ![s] = Tail(pilaEspera[s])]
    BY <1>1 DEF DespertarOSumar
  <2>2. pilaEspera[r] # <<>>
    BY <1>1, <2>1 DEF TypeOK
  <2>. QED BY <2>1, <2>2 DEF SinUnidadOciosa
<1>2. CASE pilaEspera[s] = <<>>
  <2>1. pilaEspera' = pilaEspera /\ valor' = [valor EXCEPT ![s] = @ + 1]
    BY <1>2 DEF DespertarOSumar
  <2>2. r # s /\ valor[r] = 0
    BY <1>2, <2>1 DEF SinUnidadOciosa
  <2>. QED BY <2>1, <2>2 DEF TypeOK
<1>. QED BY <1>1, <1>2

(* WAIT keeps SinUnidadOciosa: a process joins a queue for good only when  *)
(* there is no unit.                                                       *)
LEMMA OciosaTrasTomar ==
  ASSUME TypeOK, SinUnidadOciosa, NEW p \in Pid, NEW s \in Semaforo, TomarODormir(p, s)
  PROVE  SinUnidadOciosa'
<1>. SUFFICES ASSUME NEW r \in Semaforo, pilaEspera'[r] # <<>>
              PROVE  valor'[r] = 0
  BY DEF SinUnidadOciosa
<1>1. CASE valor[s] > 0
  <2>1. pilaEspera[s] = <<>>
    BY <1>1 DEF SinUnidadOciosa
  <2>2. Tail(Append(pilaEspera[s], p)) = <<>>
    BY <2>1
  <2>3. /\ valor' = [valor EXCEPT ![s] = @ - 1]
        /\ pilaEspera' = [pilaEspera EXCEPT ![s] = <<>>]
    BY <1>1, <2>2 DEF TomarODormir
  <2>4. r # s /\ pilaEspera[r] # <<>>
    BY <2>3 DEF TypeOK
  <2>. QED BY <2>3, <2>4 DEF SinUnidadOciosa, TypeOK
<1>2. CASE ~(valor[s] > 0)
  <2>1. valor' = valor /\ pilaEspera' = [pilaEspera EXCEPT ![s] = Append(pilaEspera[s], p)]
    BY <1>2 DEF TomarODormir
  <2>2. CASE r = s
    BY <1>2, <2>1, <2>2 DEF TypeOK
  <2>3. CASE r # s
    BY <2>1, <2>3 DEF SinUnidadOciosa, TypeOK
  <2>. QED BY <2>2, <2>3
<1>. QED BY <1>1, <1>2

(* No step of the system leaves a unit beside a process that waits for it. *)
LEMMA OciosaNext ==
  ASSUME InvTipo, SinUnidadOciosa, [Next]_vars
  PROVE  SinUnidadOciosa'
<1>1. CASE UNCHANGED semaforos
  BY <1>1 DEF semaforos, SinUnidadOciosa
<1>2. CASE PasoDeKernel
  BY <1>1, <1>2, SemaforosEnNextKernel, OciosaTrasDespertar, OciosaTrasTomar
     DEF PasoDeKernel, InvTipo, TipoKernel
<1>3. CASE ~PasoDeKernel
  BY <1>1, <1>3, PasoAjeno DEF kernel
<1>. QED BY <1>2, <1>3

(* No process sleeps on a semaphore that has a unit left: with any number  *)
(* of processes, of semaphores and of initial units, and also when waiters *)
(* are killed in the queue or a CPU is lost in the middle of a SIGNAL.     *)
THEOREM NuncaUnidadOciosa == Spec => []SinUnidadOciosa
<1>1. Init => SinUnidadOciosa
  BY DEF Init, InitKernel, SinUnidadOciosa
<1>2. InvTipo /\ SinUnidadOciosa /\ [Next]_vars => SinUnidadOciosa'
  BY OciosaNext
<1>. QED BY <1>1, <1>2, InvTipoInductivo, PTL DEF Spec
=============================================================================
