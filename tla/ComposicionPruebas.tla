-------------------------- MODULE ComposicionPruebas ---------------------------
(***************************************************************************)
(* Proofs about the modules that put something beside the kernel and the   *)
(* CPUs: the scripts that use the semaphores as locks (Exclusion) and the  *)
(* thread of the kernel's console (ConsolaKernel).                         *)
(***************************************************************************)
EXTENDS ProtocoloPruebas, Exclusion, ConsolaKernel

USE DEF Estados

-----------------------------------------------------------------------------
(* Who has a unit of a semaphore.  Besides those inside, a process whose   *)
(* SIGNAL the kernel has not read, and one that has been given the unit    *)
(* and is still in BLOCKED.                                                *)
EnCamino(p, s) ==
  \E c \in Cpu : \E m \in ToSet(aKernel[c]) : m.tipo = "SIGNAL" /\ m.pid = p /\ m.sem = s

Concedida(p, s) ==
  /\ Est[p] = "blocked" /\ turno[p] = s
  /\ operacionES[p] = "atendida" /\ exitCode[p] # "ESPERANDO_SEMAFORO"

Tienen(s) == {p \in Pid : p \in dentro[s] \/ EnCamino(p, s) \/ Concedida(p, s)}

Unidades == \A s \in Semaforo : valor[s] + Cardinality(Tienen(s)) <= SemInit[s]

TipoX ==
  /\ dentro \in [Semaforo -> SUBSET Pid]
  /\ turno \in [Pid -> Semaforo \cup {SinNombre}]

(* Who is in BLOCKED waits for the semaphore of its turn: it has not been  *)
(* served yet, or it has, and then it sleeps or has the unit.              *)
Esperas ==
  \A p \in Pid : Est[p] = "blocked" =>
    /\ turno[p] \in Semaforo /\ nombreSemaforo[p] = turno[p]
    /\ \/ operacionES[p] = "wait" /\ exitCode[p] = "CORRECTO"
       \/ operacionES[p] = "atendida"

(* The messages that these scripts cause.                                  *)
MensajesX ==
  \A c \in Cpu : \A m \in ToSet(aKernel[c]) :
    /\ m.tipo \in {"WAIT", "SIGNAL", "FINALIZO_QUANTUM", "FINALIZO_EJECUCION"}
    /\ m.tipo = "WAIT" => m.sem \in Semaforo /\ turno[m.pid] = m.sem
    /\ m.tipo = "SIGNAL" => m.sem \in Semaforo /\ m.pid \notin dentro[m.sem]

InvX == TipoX /\ Esperas /\ MensajesX /\ Unidades

-----------------------------------------------------------------------------
(* What a step does to the units of a semaphore: nobody gets one, a        *)
(* process takes one that was free, gives one back, or gives it to another.*)
Conserva(s) == valor'[s] = valor[s] /\ Tienen(s)' \subseteq Tienen(s)

Toma(s) ==
  /\ valor'[s] + 1 = valor[s]
  /\ \E p \in Pid : Tienen(s)' \subseteq Tienen(s) \cup {p}

Devuelve(s) ==
  /\ valor'[s] = valor[s] + 1
  /\ \E p \in Tienen(s) : Tienen(s)' \subseteq Tienen(s) \ {p}

Traspasa(s) ==
  /\ valor'[s] = valor[s]
  /\ \E p \in Tienen(s) : \E q \in Pid : Tienen(s)' \subseteq (Tienen(s) \ {p}) \cup {q}

PasoDeUnidades == \A s \in Semaforo : Conserva(s) \/ Toma(s) \/ Devuelve(s) \/ Traspasa(s)

(* None of the four exceeds the units that there were at the start.        *)
LEMMA UnidadesTrasPaso ==
  ASSUME Unidades, PasoDeUnidades, valor \in [Semaforo -> Nat], valor' \in [Semaforo -> Nat]
  PROVE  Unidades'
<1>. SUFFICES ASSUME NEW s \in Semaforo
              PROVE  valor'[s] + Cardinality(Tienen(s)') <= SemInit[s]
  BY DEF Unidades
<1> DEFINE T == Tienen(s)  U == Tienen(s)'
<1>1. /\ T \subseteq Pid /\ U \subseteq Pid /\ IsFiniteSet(Pid)
      /\ valor[s] + Cardinality(T) <= SemInit[s]
      /\ valor[s] \in Nat /\ valor'[s] \in Nat /\ SemInit[s] \in Nat
  <2>1. IsFiniteSet(Pid)
    BY ConstantesCanales, FS_Interval DEF Pid
  <2>2. T \subseteq Pid /\ U \subseteq Pid
    BY DEF Tienen
  <2>. QED BY <2>1, <2>2, ConstantesPlanificador DEF Unidades
<1>2. /\ (valor'[s] = valor[s] /\ U \subseteq T)
         \/ (valor'[s] + 1 = valor[s] /\ \E p \in Pid : U \subseteq T \cup {p})
         \/ (valor'[s] = valor[s] + 1 /\ \E p \in T : U \subseteq T \ {p})
         \/ (valor'[s] = valor[s] /\ \E p \in T : \E q \in Pid : U \subseteq (T \ {p}) \cup {q})
  BY DEF PasoDeUnidades, Conserva, Toma, Devuelve, Traspasa
<1>. HIDE DEF T, U
<1>3. /\ IsFiniteSet(T) /\ Cardinality(T) \in Nat
      /\ IsFiniteSet(U) /\ Cardinality(U) \in Nat
  BY <1>1, FS_Subset, FS_CardinalityType
<1>4. CASE valor'[s] = valor[s] /\ U \subseteq T
  <2>1. Cardinality(U) <= Cardinality(T)
    BY <1>3, <1>4, FS_Subset
  <2>. QED BY <1>1, <1>3, <1>4, <2>1 DEF U
<1>5. CASE valor'[s] + 1 = valor[s] /\ \E p \in Pid : U \subseteq T \cup {p}
  <2>1. PICK p \in Pid : U \subseteq T \cup {p}
    BY <1>5
  <2>2. IsFiniteSet(T \cup {p}) /\ Cardinality(T \cup {p}) \in {Cardinality(T), Cardinality(T) + 1}
    BY <1>3, FS_AddElement
  <2>3. Cardinality(U) <= Cardinality(T \cup {p})
    BY <2>1, <2>2, FS_Subset
  <2>. QED BY <1>1, <1>3, <1>5, <2>2, <2>3 DEF U
<1>6. CASE valor'[s] = valor[s] + 1 /\ \E p \in T : U \subseteq T \ {p}
  <2>1. PICK p \in T : U \subseteq T \ {p}
    BY <1>6
  <2>2. IsFiniteSet(T \ {p}) /\ Cardinality(T \ {p}) = Cardinality(T) - 1
    BY <1>3, FS_RemoveElement
  <2>3. Cardinality(U) <= Cardinality(T \ {p})
    BY <2>1, <2>2, FS_Subset
  <2>. QED BY <1>1, <1>3, <1>6, <2>2, <2>3 DEF U
<1>7. CASE valor'[s] = valor[s] /\ \E p \in T : \E q \in Pid : U \subseteq (T \ {p}) \cup {q}
  <2>1. PICK p \in T, q \in Pid : U \subseteq (T \ {p}) \cup {q}
    BY <1>7
  <2>2. IsFiniteSet(T \ {p}) /\ Cardinality(T \ {p}) = Cardinality(T) - 1
    BY <1>3, FS_RemoveElement
  <2>3. /\ IsFiniteSet((T \ {p}) \cup {q})
        /\ Cardinality((T \ {p}) \cup {q}) \in {Cardinality(T) - 1, Cardinality(T)}
    BY <1>3, <2>2, FS_AddElement
  <2>4. Cardinality(U) <= Cardinality((T \ {p}) \cup {q})
    BY <2>1, <2>3, FS_Subset
  <2>. QED BY <1>1, <1>3, <1>7, <2>3, <2>4 DEF U
<1>. QED BY <1>2, <1>4, <1>5, <1>6, <1>7

-----------------------------------------------------------------------------
(* The steps of the kernel that give nobody a unit.                        *)

(* After the step p does not wait, or it waits as Esperas says and has no  *)
(* unit that it did not have.                                              *)
Quieto(p) ==
  Est'[p] = "blocked" =>
    /\ turno[p] \in Semaforo /\ nombreSemaforo'[p] = turno[p]
    /\ \/ operacionES'[p] = "wait" /\ exitCode'[p] = "CORRECTO"
       \/ /\ operacionES'[p] = "atendida"
          /\ \/ exitCode'[p] = "ESPERANDO_SEMAFORO"
             \/ /\ Est[p] = "blocked"
                /\ operacionES[p] = "atendida" /\ exitCode[p] # "ESPERANDO_SEMAFORO"

(* No message is new.                                                      *)
SoloLee == \A c \in Cpu : ToSet(aKernel'[c]) \subseteq ToSet(aKernel[c])

(* A process that the step does not touch, or that does not wait after it. *)
LEMMA QuietoSiIgual ==
  ASSUME Esperas, NEW p \in Pid,
         \/ Est'[p] # "blocked"
         \/ /\ Est'[p] = Est[p] /\ exitCode'[p] = exitCode[p]
            /\ operacionES'[p] = operacionES[p] /\ nombreSemaforo'[p] = nombreSemaforo[p]
  PROVE  Quieto(p)
BY DEF Esperas, Quieto

(* What such steps keep.                                                   *)
LEMMA InvTrasQuieto ==
  ASSUME InvX, \A p \in Pid : Quieto(p), SoloLee, UNCHANGED <<valor, dentro, turno>>,
         valor \in [Semaforo -> Nat]
  PROVE  InvX'
<1>1. TipoX'
  BY DEF InvX, TipoX
<1>2. Esperas'
  BY DEF Quieto, Esperas
<1>3. MensajesX'
  BY DEF InvX, MensajesX, SoloLee
<1>4. ASSUME NEW p \in Pid, NEW s \in Semaforo
      PROVE  (Concedida(p, s)' => Concedida(p, s)) /\ (EnCamino(p, s)' => EnCamino(p, s))
  BY DEF Quieto, Concedida, EnCamino, SoloLee
<1>5. \A s \in Semaforo : Conserva(s)
  BY <1>4 DEF Conserva, Tienen
<1>6. Unidades'
  BY <1>5, UnidadesTrasPaso DEF InvX, PasoDeUnidades
<1>. QED BY <1>1, <1>2, <1>3, <1>6 DEF InvX

-----------------------------------------------------------------------------
(* Coming back from BLOCKED, with the states as a function.                *)
Vuelve(p) == Est[p] = "blocked" /\ Est'[p] = "ready"

(* It is what the scripts take as the return of WAIT.                      *)
LEMMA VuelveEsListo ==
  ASSUME EstDeListas, EstDeListas', NEW p \in Pid
  PROVE  VuelveListo(p) <=> Vuelve(p)
BY DEF EstDeListas, VuelveListo, Vuelve, En

(* When nobody comes back, nobody gets in.                                 *)
LEMMA NadieVuelve ==
  ASSUME TipoX, EstDeListas, EstDeListas', PasoDeKernelX, \A p \in Pid : ~Vuelve(p)
  PROVE  UNCHANGED <<dentro, turno>>
<1>1. \A p \in Pid : ~VuelveListo(p)
  BY VuelveEsListo
<1>. QED BY <1>1 DEF PasoDeKernelX, TipoX

(* Who comes back gets in where it waited.                                 *)
LEMMA UnoVuelve ==
  ASSUME TipoX, EstDeListas, EstDeListas', PasoDeKernelX, NEW p \in Pid,
         PasaDe(p, "blocked", "ready"), turno[p] \in Semaforo
  PROVE  /\ dentro' = [dentro EXCEPT ![turno[p]] = @ \cup {p}]
         /\ turno' = [turno EXCEPT ![p] = SinNombre]
<1>1. \A q \in Pid : VuelveListo(q) <=> q = p
  BY VuelveEsListo, PasaDeEst DEF Vuelve
<1>. QED BY <1>1 DEF PasoDeKernelX, TipoX

(* The steps of the kernel that give nobody a unit, then, keep the         *)
(* invariant.                                                              *)
LEMMA KernelQuieto ==
  ASSUME InvX, TypeOK, EstDeListas, EstDeListas', PasoDeKernelX, UNCHANGED valor,
         SoloLee, \A p \in Pid : Quieto(p) /\ ~Vuelve(p)
  PROVE  InvX'
BY NadieVuelve, InvTrasQuieto DEF InvX, TypeOK

(* The steps that leave the lists alone, the admission, the dispatch, a    *)
(* new program and the end of one that a console asks for.                 *)
LEMMA QuietosDelKernel ==
  ASSUME InvX, InvTipo, UnicaLista, EstDeListas, EstDeListas', PasoDeKernelX,
         \/ PasoSinListas \/ NuevoPrograma \/ AdmitirNuevo
         \/ \E c \in Cpu : EnviarProcesoACpu(c)
         \/ \E p \in Pid : AtenderPrograma(p)
  PROVE  InvX'
<1>t. TypeOK /\ TipoKernel /\ TipoListas /\ Esperas
  BY DEF InvTipo, TipoKernel, TypeOK, TipoListas, InvX
<1>1. CASE PasoSinListas
  <2>1. Est' = Est /\ UNCHANGED <<exitCode, operacionES, nombreSemaforo, valor, aKernel>>
    BY <1>1, EstSinListas DEF pcbs, semaforos
  <2>2. SoloLee /\ \A p \in Pid : Quieto(p) /\ ~Vuelve(p)
    BY <1>t, <2>1, QuietoSiIgual DEF SoloLee, Vuelve
  <2>. QED BY <1>t, <2>1, <2>2, KernelQuieto
<1>2. CASE NuevoPrograma \/ AdmitirNuevo \/ \E c \in Cpu : EnviarProcesoACpu(c)
  <2>1. PICK p \in Pid : \/ PasaDe(p, "inexistente", "new")
                         \/ PasaDe(p, "new", "ready") \/ PasaDe(p, "ready", "exec")
    BY <1>t, <1>2, EstNuevoPrograma, EstAdmitirNuevo, EstEnviarProceso
  <2>2. /\ UNCHANGED <<operacionES, nombreSemaforo, valor, aKernel>>
        /\ exitCode' = exitCode \/ (NuevoPrograma /\ exitCode' = [exitCode EXCEPT ![numeroPid] = "CORRECTO"])
    BY <1>2 DEF NuevoPrograma, AdmitirNuevo, EnviarProcesoACpu, pcbs, semaforos, canales
  <2>3. /\ Est'[p] # "blocked" /\ Est[p] # "blocked"
        /\ \A q \in Pid : q # p => Est'[q] = Est[q]
    BY <2>1, PasaDeEst
  <2>4. \A q \in Pid : q # p => exitCode'[q] = exitCode[q]
    <3>1. CASE NuevoPrograma
      <4>1. numeroPid \in Pid /\ PasaDe(numeroPid, "inexistente", "new")
        BY <1>t, <3>1, EstNuevoPrograma
      <4>2. Est[numeroPid] = "inexistente" /\ Est'[numeroPid] = "new"
        BY <4>1, PasaDeEst
      <4>3. numeroPid = p
        BY <2>3, <4>1, <4>2
      <4>. QED BY <1>t, <2>2, <4>3 DEF TypeOK
    <3>. QED BY <2>2, <3>1
  <2>5. SoloLee /\ \A q \in Pid : Quieto(q) /\ ~Vuelve(q)
    BY <1>t, <2>2, <2>3, <2>4, QuietoSiIgual DEF SoloLee, Vuelve
  <2>. QED BY <1>t, <2>2, <2>5, KernelQuieto
<1>3. ASSUME NEW p \in Pid, AtenderPrograma(p) PROVE InvX'
  <2>1. /\ FinalizarPrograma(p, "COMANDO_FINALIZAR") /\ numeroPid' = numeroPid
        /\ UNCHANGED <<operacionES, nombreSemaforo, valor, aKernel>>
    BY <1>3 DEF AtenderPrograma, semaforos
  <2>2. \/ PasaDe(p, Est[p], "exit") /\ exitCode' = [exitCode EXCEPT ![p] = "COMANDO_FINALIZAR"]
        \/ Est' = Est /\ UNCHANGED exitCode
    BY <1>t, <2>1, EstFinalizar
  <2>3. \A q \in Pid : \/ Est'[q] = "exit"
                       \/ Est'[q] = Est[q] /\ exitCode'[q] = exitCode[q]
    <3>1. CASE Est' = Est /\ UNCHANGED exitCode
      BY <3>1
    <3>2. CASE /\ PasaDe(p, Est[p], "exit")
               /\ exitCode' = [exitCode EXCEPT ![p] = "COMANDO_FINALIZAR"]
      <4>1. /\ Est'[p] = "exit" /\ \A q \in Pid : q # p => Est'[q] = Est[q]
            /\ \A q \in Pid : q # p => exitCode'[q] = exitCode[q]
        BY <1>t, <3>2, PasaDeEst DEF TypeOK
      <4>. QED BY <4>1
    <3>. QED BY <2>2, <3>1, <3>2
  <2>4. SoloLee /\ \A q \in Pid : Quieto(q) /\ ~Vuelve(q)
    BY <1>t, <2>1, <2>3, QuietoSiIgual DEF SoloLee, Vuelve
  <2>. QED BY <1>t, <2>1, <2>4, KernelQuieto
<1>. QED BY <1>1, <1>2, <1>3

-----------------------------------------------------------------------------
(* The visits to the blocked.                                              *)

(* The pid of a message is that of a process in EXEC, or of one that has   *)
(* ended.                                                                  *)
LEMMA MensajeDeExec ==
  ASSUME InvVuelo, TypeOK, NEW c \in Cpu, NEW m \in ToSet(aKernel[c])
  PROVE  m.pid \in Pid /\ Mencion(c, m.pid) /\ Est[m.pid] \in {"exec", "exit"}
<1>1. PICK i \in DOMAIN aKernel[c] : m = aKernel[c][i]
  BY DEF ToSet
<1>2. m.pid \in Pid
  BY TipoMensaje
<1>3. Mencion(c, m.pid)
  BY <1>1 DEF Mencion, Vuelta
<1>. QED BY <1>2, <1>3 DEF InvVuelo, MencionSoloDeExec

(* A process gets in: with the unit that it was given, or with one that is *)
(* free.                                                                   *)
LEMMA InvTrasEntrar ==
  ASSUME InvX, TypeOK, InvVuelo, EstDeListas, EstDeListas', PasoDeKernelX,
         NEW p \in Pid, PasaDe(p, "blocked", "ready"), aKernel' = aKernel,
         \A q \in Pid : q # p => /\ exitCode'[q] = exitCode[q]
                                 /\ operacionES'[q] = operacionES[q]
                                 /\ nombreSemaforo'[q] = nombreSemaforo[q],
         NEW s \in Semaforo, turno[p] = s,
         \/ valor' = valor /\ Concedida(p, s)
         \/ valor' = [valor EXCEPT ![s] = @ - 1] /\ valor[s] > 0
  PROVE  InvX'
<1>1. /\ Est[p] = "blocked" /\ Est'[p] = "ready"
      /\ \A q \in Pid : q # p => Est'[q] = Est[q]
  BY PasaDeEst
<1>2. /\ dentro' = [dentro EXCEPT ![s] = @ \cup {p}]
      /\ turno' = [turno EXCEPT ![p] = SinNombre]
      /\ dentro \in [Semaforo -> SUBSET Pid]
      /\ turno \in [Pid -> Semaforo \cup {SinNombre}]
  BY UnoVuelve DEF InvX, TipoX
<1>3. TipoX'
  BY <1>2 DEF TipoX
<1>4. Esperas'
  BY <1>1, <1>2 DEF InvX, Esperas
<1>5. MensajesX'
  <2>. SUFFICES ASSUME NEW c \in Cpu, NEW m \in ToSet(aKernel[c])
                PROVE  /\ m.tipo \in {"WAIT", "SIGNAL", "FINALIZO_QUANTUM", "FINALIZO_EJECUCION"}
                       /\ m.tipo = "WAIT" => m.sem \in Semaforo /\ turno'[m.pid] = m.sem
                       /\ m.tipo = "SIGNAL" => m.sem \in Semaforo /\ m.pid \notin dentro'[m.sem]
    BY DEF MensajesX
  <2>1. m.pid \in Pid /\ m.pid # p
    BY <1>1, MensajeDeExec
  <2>. QED BY <1>2, <2>1 DEF InvX, MensajesX
<1>6. \A q \in Pid, r \in Semaforo : /\ EnCamino(q, r)' => EnCamino(q, r)
                                     /\ Concedida(q, r)' => Concedida(q, r)
  BY <1>1, <1>2 DEF EnCamino, Concedida
<1>7. ASSUME NEW r \in Semaforo, r # s PROVE Conserva(r)
  BY <1>2, <1>6, <1>7 DEF Conserva, Tienen, TypeOK
<1>8. CASE valor' = valor /\ Concedida(p, s)
  <2>1. Conserva(s)
    BY <1>2, <1>6, <1>8 DEF Conserva, Tienen
  <2>. QED BY <1>3, <1>4, <1>5, <1>7, <1>8, <2>1, UnidadesTrasPaso
           DEF InvX, PasoDeUnidades, TypeOK
<1>9. CASE valor' = [valor EXCEPT ![s] = @ - 1] /\ valor[s] > 0
  <2>1. valor' \in [Semaforo -> Nat] /\ valor'[s] + 1 = valor[s]
    BY <1>9 DEF TypeOK
  <2>2. Toma(s)
    BY <1>2, <1>6, <2>1 DEF Toma, Tienen
  <2>. QED BY <1>3, <1>4, <1>5, <1>7, <2>1, <2>2, UnidadesTrasPaso
           DEF InvX, PasoDeUnidades, TypeOK
<1>. QED BY <1>8, <1>9

(* A visit gives a unit only to a process that was given it before, or     *)
(* when there is one.                                                      *)
LEMMA InvTrasBloqueado ==
  ASSUME InvX, InvTipo, UnicaLista, InvVuelo, SinUnidadOciosa, EstDeListas, EstDeListas',
         PasoDeKernelX, NEW p \in Pid,
         \/ PasarBloqueado(p) \/ AtenderES(p) \/ AtenderESConError(p)
         \/ AtenderWait(p) \/ AtenderWaitDesconocido(p)
  PROVE  InvX'
<1>t. TypeOK /\ TipoKernel /\ TipoListas /\ Esperas
  BY DEF InvTipo, TipoKernel, TypeOK, TipoListas, InvX
<1>1. /\ EnBloqueado(p) /\ nombreSemaforo' = nombreSemaforo /\ aKernel' = aKernel
      /\ Est[p] = "blocked" /\ numeroPid' = numeroPid
      /\ UNCHANGED listas => Est' = Est
      /\ ABlockedReady => PasaDe(p, "blocked", "ready")
  <2>1. EnBloqueado(p)
    BY DEF PasarBloqueado, AtenderES, AtenderESConError, AtenderWait,
           AtenderWaitDesconocido, PorAtender
  <2>. QED BY <1>t, <2>1, EstEnBloqueado DEF EnBloqueado, canales
<1> DEFINE s == turno[p]
<1>2. s \in Semaforo /\ nombreSemaforo[p] = s /\ operacionES[p] \in {"wait", "atendida"}
  BY <1>t, <1>1 DEF Esperas
<1>3. CASE PasarBloqueado(p)
  <2>1. /\ Est' = Est /\ UNCHANGED <<operacionES, valor>>
        /\ \A q \in Pid : q # p => exitCode'[q] = exitCode[q]
        /\ exitCode[p] \in {"TERMINO_ESPERA", "ESPERANDO_SEMAFORO"}
        /\ exitCode'[p] = IF exitCode[p] = "TERMINO_ESPERA" THEN "CORRECTO" ELSE exitCode[p]
    BY <1>1, <1>3, <1>t DEF PasarBloqueado, BorrarMarca, semaforos, TypeOK
  <2>2. operacionES[p] = "atendida"
    BY <1>t, <1>1, <2>1 DEF Esperas
  <2>3. Quieto(p)
    BY <1>1, <1>2, <2>1, <2>2 DEF Quieto
  <2>4. SoloLee /\ \A q \in Pid : Quieto(q) /\ ~Vuelve(q)
    BY <1>t, <1>1, <2>1, <2>3, QuietoSiIgual DEF SoloLee, Vuelve
  <2>. QED BY <1>t, <2>1, <2>4, KernelQuieto
<1>4. CASE AtenderES(p)
  <2>1. /\ PasaDe(p, "blocked", "ready") /\ valor' = valor
        /\ operacionES[p] # "wait"
        /\ exitCode[p] \notin {"TERMINO_ESPERA", "ESPERANDO_SEMAFORO"}
        /\ \A q \in Pid : q # p => exitCode'[q] = exitCode[q] /\ operacionES'[q] = operacionES[q]
    BY <1>1, <1>4, <1>t DEF AtenderES, PorAtender, semaforos, TypeOK
  <2>2. Concedida(p, s)
    BY <1>1, <1>2, <2>1 DEF Concedida
  <2>. QED BY <1>t, <1>1, <1>2, <2>1, <2>2, InvTrasEntrar
<1>5. CASE AtenderWait(p)
  <2>1. /\ TomarODormir(p, s) /\ SalirSiPuede(p) /\ operacionES' = [operacionES EXCEPT ![p] = "atendida"]
        /\ \A q \in Pid : q # p => operacionES'[q] = operacionES[q]
    BY <1>2, <1>5, <1>t DEF AtenderWait, PorAtender, TypeOK
  <2>. HIDE DEF s
  <2>2. CASE valor[s] > 0
    <3>1. pilaEspera[s] = <<>>
      BY <1>2, <2>2, <1>t DEF SinUnidadOciosa, TypeOK
    <3>2. Append(pilaEspera[s], p) = <<p>> /\ Head(<<p>>) = p
      BY <3>1
    <3>3. /\ exitCode' = [exitCode EXCEPT ![p] = "ESPERANDO_SEMAFORO", ![p] = "CORRECTO"]
          /\ valor' = [valor EXCEPT ![s] = @ - 1]
      BY <2>1, <2>2, <3>2 DEF TomarODormir
    <3>4. exitCode'[p] = "CORRECTO" /\ \A q \in Pid : q # p => exitCode'[q] = exitCode[q]
      BY <1>t, <3>3 DEF TypeOK
    <3>5. PasaDe(p, "blocked", "ready")
      BY <1>1, <2>1, <3>4 DEF SalirSiPuede
    <3>6. turno[p] = s
      BY DEF s
    <3>. QED BY <1>t, <1>1, <1>2, <2>1, <2>2, <3>3, <3>4, <3>5, <3>6, InvTrasEntrar
  <2>3. CASE ~(valor[s] > 0)
    <3>1. /\ valor' = valor
          /\ exitCode' = [exitCode EXCEPT ![p] = "ESPERANDO_SEMAFORO"]
      BY <2>1, <2>3 DEF TomarODormir
    <3>2. /\ exitCode'[p] = "ESPERANDO_SEMAFORO" /\ operacionES'[p] = "atendida"
          /\ \A q \in Pid : q # p => exitCode'[q] = exitCode[q]
      BY <1>t, <2>1, <3>1 DEF TypeOK
    <3>3. Est' = Est
      BY <1>1, <2>1, <3>2 DEF SalirSiPuede
    <3>4. Quieto(p)
      BY <1>1, <1>2, <3>2 DEF Quieto, s
    <3>5. SoloLee /\ \A q \in Pid : Quieto(q) /\ ~Vuelve(q)
      BY <1>t, <1>1, <2>1, <3>2, <3>3, <3>4, QuietoSiIgual DEF SoloLee, Vuelve
    <3>. QED BY <1>t, <3>1, <3>5, KernelQuieto
  <2>. QED BY <2>2, <2>3
<1>6. ~AtenderESConError(p) /\ ~AtenderWaitDesconocido(p)
  BY <1>2 DEF AtenderESConError, AtenderWaitDesconocido
<1>. QED BY <1>3, <1>4, <1>5, <1>6

-----------------------------------------------------------------------------
(* The messages of the CPUs.                                               *)

(* What attending a CPU does to its channel: there was only that message.  *)
LEMMA UnicoMensaje ==
  ASSUME InvTipo, UnicaLista, InvVuelo, Protocolo, NEW c \in Cpu, AtenderCpu(c),
         UNCHANGED procesador
  PROVE  \E m \in ToSet(aKernel[c]) :
           /\ Trata(c, m) /\ LeeElKernel(c, m) /\ SoloLee /\ numeroPid' = numeroPid
           /\ m.pid \in Pid /\ Mencion(c, m.pid) /\ Est[m.pid] \in {"exec", "exit"}
           /\ \A d \in Cpu : \A n \in ToSet(aKernel'[d]) : n \in ToSet(aKernel[d]) /\ d # c
<1>t. TypeOK /\ TipoKernel
  BY DEF InvTipo, TipoKernel
<1>1. PICK m \in ToSet(aKernel[c]) :
        Recibir(c, m) /\ Trata(c, m) /\ LeeElKernel(c, m) /\ m = aKernel[c][1]
  BY <1>t, AtenderCpuLee
<1>2. m.pid \in Pid /\ Mencion(c, m.pid) /\ Est[m.pid] \in {"exec", "exit"}
  BY <1>t, MensajeDeExec
<1>3. aKernel[c] # <<>> /\ aKernel'[c] = Tail(aKernel[c]) /\ numeroPid' = numeroPid
      /\ \A d \in Cpu : d # c => aKernel'[d] = aKernel[d]
  BY <1>t, <1>1 DEF Recibir, TypeOK, TypeOKCanales
<1>4. aKernel[c] = <<m>>
  BY <1>1, <1>3 DEF Protocolo, Turno, EsperaContexto, EnRafaga, EsperaRespuesta, SeFue,
                    Callado, HayIda, HayVuelta
<1>5. ToSet(aKernel'[c]) = {}
  BY <1>3, <1>4 DEF ToSet
<1>6. \A d \in Cpu : \A n \in ToSet(aKernel'[d]) : n \in ToSet(aKernel[d]) /\ d # c
  BY <1>3, <1>5
<1>7. SoloLee
  BY <1>6 DEF SoloLee
<1>. QED BY <1>1, <1>2, <1>3, <1>6, <1>7

(* SIGNAL: the unit of its process goes to the first of the queue, which   *)
(* waits for it, or back to the semaphore.                                 *)
LEMMA InvTrasSignal ==
  ASSUME InvX, TypeOK, TypeOK', EstDeListas, EstDeListas', InvVuelo, ColasBien, PasoDeKernelX,
         NEW c \in Cpu, NEW m \in ToSet(aKernel[c]), Signal(c, m), Est' = Est, SoloLee,
         m.pid \in Pid, Mencion(c, m.pid), Est[m.pid] \in {"exec", "exit"},
         \A d \in Cpu : \A n \in ToSet(aKernel'[d]) : n \in ToSet(aKernel[d]) /\ d # c
  PROVE  InvX'
<1> DEFINE p == m.pid  s == m.sem  h == Head(pilaEspera[s])
<1>1. s \in Semaforo /\ p \notin dentro[s] /\ EnCamino(p, s)
  BY DEF Signal, InvX, MensajesX, EnCamino
<1>2. UNCHANGED <<dentro, turno>>
  BY NadieVuelve DEF Vuelve, InvX
<1>3. /\ operacionES' = operacionES
      /\ \A q \in Pid : q # p => nombreSemaforo'[q] = nombreSemaforo[q]
  BY DEF Signal, TypeOK
<1>4. TipoX' /\ MensajesX'
  BY <1>2 DEF InvX, TipoX, MensajesX, SoloLee
<1>5. p \in Tienen(s) /\ p \notin Tienen(s)'
  <2>1. ~EnCamino(p, s)'
    <3>. SUFFICES ASSUME NEW d \in Cpu, NEW n \in ToSet(aKernel'[d]), n.pid = p
                  PROVE  FALSE
      BY DEF EnCamino
    <3>1. d # c /\ Mencion(d, p)
      BY MensajeDeExec
    <3>. QED BY <3>1 DEF InvVuelo, MencionEnUnaCpu
  <2>2. ~Concedida(p, s)'
    BY DEF Concedida
  <2>. QED BY <1>1, <1>2, <2>1, <2>2 DEF Tienen
<1>6. \A q \in Pid, r \in Semaforo : EnCamino(q, r)' => EnCamino(q, r)
  BY DEF EnCamino, SoloLee
<1>. HIDE DEF p, s
<1>7. CASE pilaEspera[s] # <<>>
  <2>1. /\ exitCode' = [exitCode EXCEPT ![h] = "TERMINO_ESPERA"] /\ valor' = valor
    BY <1>7 DEF Signal, DespertarOSumar, s
  <2>2. h \in Pid /\ 1 \in DOMAIN pilaEspera[s] /\ pilaEspera[s][1] = h
    BY <1>1, <1>7, HeadTailProperties, ColaTrasLeer DEF TypeOK
  <2>3. Est[h] = "exit" \/ (Dormido(h) /\ nombreSemaforo[h] = s)
    BY <1>1, <2>2 DEF ColasBien
  <2>. HIDE DEF h
  <2>4. \A q \in Pid : q # h => exitCode'[q] = exitCode[q]
    BY <2>1
  <2>5. exitCode'[h] = "TERMINO_ESPERA"
    BY <2>1, <2>2 DEF TypeOK
  <2>6. Est[h] = "blocked" => turno[h] = s /\ operacionES[h] = "atendida"
    BY <2>2, <2>3 DEF InvX, Esperas, Dormido
  <2>7. Esperas'
    <3>. SUFFICES ASSUME NEW q \in Pid, Est[q] = "blocked"
                  PROVE  /\ turno[q] \in Semaforo /\ nombreSemaforo'[q] = turno[q]
                         /\ \/ operacionES[q] = "wait" /\ exitCode'[q] = "CORRECTO"
                            \/ operacionES[q] = "atendida"
      BY <1>2, <1>3 DEF Esperas
    <3>1. q # p
      BY DEF p
    <3>. QED BY <1>3, <2>4, <2>6, <3>1 DEF InvX, Esperas
  <2>8. \A q \in Pid, r \in Semaforo :
          Concedida(q, r)' => Concedida(q, r) \/ (q = h /\ r = s)
    BY <1>2, <1>3, <2>4, <2>6 DEF Concedida
  <2>9. \A r \in Semaforo : Tienen(r)' \subseteq Tienen(r) \cup (IF r = s THEN {h} ELSE {})
    BY <1>2, <1>6, <2>8 DEF Tienen
  <2>10. Tienen(s)' \subseteq (Tienen(s) \ {p}) \cup {h}
    BY <1>1, <1>5, <2>9
  <2>11. Traspasa(s)
    BY <1>5, <2>1, <2>2, <2>10 DEF Traspasa
  <2>12. \A r \in Semaforo : r # s => Conserva(r)
    BY <2>1, <2>9 DEF Conserva
  <2>. QED BY <1>4, <2>7, <2>11, <2>12, UnidadesTrasPaso DEF InvX, PasoDeUnidades, TypeOK
<1>8. CASE pilaEspera[s] = <<>>
  <2>1. exitCode' = exitCode /\ valor' = [valor EXCEPT ![s] = @ + 1]
    BY <1>8 DEF Signal, DespertarOSumar, s
  <2>2. Esperas'
    BY <1>2, <1>3, <2>1 DEF InvX, Esperas, p
  <2>3. \A q \in Pid, r \in Semaforo : Concedida(q, r)' => Concedida(q, r)
    BY <1>2, <1>3, <2>1 DEF Concedida
  <2>4. \A r \in Semaforo : Tienen(r)' \subseteq Tienen(r)
    BY <1>2, <1>6, <2>3 DEF Tienen
  <2>5. valor'[s] = valor[s] + 1 /\ \A r \in Semaforo : r # s => valor'[r] = valor[r]
    BY <1>1, <2>1 DEF TypeOK
  <2>6. Devuelve(s)
    BY <1>1, <1>5, <2>4, <2>5 DEF Devuelve
  <2>7. \A r \in Semaforo : r # s => Conserva(r)
    BY <2>4, <2>5 DEF Conserva
  <2>. QED BY <1>4, <2>2, <2>6, <2>7, UnidadesTrasPaso DEF InvX, PasoDeUnidades, TypeOK
<1>. QED BY <1>7, <1>8

(* The other three messages give nobody a unit.                            *)
LEMMA InvTrasAtender ==
  ASSUME InvX, InvTipo, InvTipo', UnicaLista, EstDeListas, EstDeListas', InvVuelo, InvColas,
         Protocolo, PasoDeKernelX, NEW c \in Cpu, AtenderCpu(c)
  PROVE  InvX'
<1>t. TypeOK /\ TypeOK' /\ TipoListas /\ Esperas /\ ColasBien
  BY DEF InvTipo, TipoKernel, TypeOK, TipoListas, InvX, InvColas
<1>1. PICK m \in ToSet(aKernel[c]) :
           /\ Trata(c, m) /\ LeeElKernel(c, m) /\ SoloLee /\ numeroPid' = numeroPid
           /\ m.pid \in Pid /\ Mencion(c, m.pid) /\ Est[m.pid] \in {"exec", "exit"}
           /\ \A d \in Cpu : \A n \in ToSet(aKernel'[d]) : n \in ToSet(aKernel[d]) /\ d # c
  BY UnicoMensaje DEF PasoDeKernelX, PasoDeKernel
<1> DEFINE p == m.pid
<1>2. /\ m.tipo \in {"WAIT", "SIGNAL", "FINALIZO_QUANTUM", "FINALIZO_EJECUCION"}
      /\ m.tipo = "WAIT" => m.sem \in Semaforo /\ turno[p] = m.sem
  BY DEF InvX, MensajesX
<1>3. CASE m.tipo = "SIGNAL"
  <2>1. Signal(c, m)
    BY <1>1, <1>3 DEF Trata, FinalizoEjecucion, FinalizoConError, FinalizoQuantum, PidioArchivo,
                      Wait, Consulta, Consultas, AlocarBien, AlocarMal
  <2>2. Est' = Est
    BY <1>1, <2>1, EstSinMover DEF Signal
  <2>. QED BY <1>t, <1>1, <2>1, <2>2, InvTrasSignal
<1>4. CASE m.tipo # "SIGNAL"
  <2>1. FinalizoEjecucion(c, m) \/ FinalizoQuantum(c, m) \/ Wait(c, m)
    BY <1>1, <1>2, <1>4 DEF Trata, FinalizoConError, PidioArchivo, Signal, Consulta, Consultas,
                            AlocarBien, AlocarMal
  <2>2. /\ UNCHANGED <<exitCode, valor>> /\ \A q \in Pid : q # p => Est'[q] = Est[q]
        /\ \A q \in Pid : q # p => /\ operacionES'[q] = operacionES[q]
                                   /\ nombreSemaforo'[q] = nombreSemaforo[q]
    BY <1>t, <1>1, <2>1 DEF FinalizoEjecucion, FinalizoQuantum, Wait, semaforos, LeeElKernel, TypeOK
  <2>3. Quieto(p) /\ ~Vuelve(p)
    <3>1. ~Vuelve(p)
      BY <1>1 DEF Vuelve
    <3>2. CASE FinalizoEjecucion(c, m)
      <4>1. Est'[p] # "blocked"
        BY <1>1, <3>2 DEF FinalizoEjecucion, LeeElKernel, Terminales
      <4>. QED BY <1>t, <1>1, <3>1, <4>1, QuietoSiIgual
    <3>3. CASE FinalizoQuantum(c, m)
      <4>1. PasaDe(p, "exec", "ready") \/ (Est[p] # "exec" /\ Est' = Est)
        BY <1>t, <1>1, <3>3, EstMoverDeExec DEF FinalizoQuantum
      <4>2. Est'[p] # "blocked"
        BY <1>1, <4>1, PasaDeEst
      <4>. QED BY <1>t, <1>1, <3>1, <4>2, QuietoSiIgual
    <3>4. CASE Wait(c, m)
      <4>1. PasaDe(p, "exec", "blocked") \/ (Est[p] # "exec" /\ Est' = Est)
        BY <1>t, <1>1, <3>4, EstMoverDeExec DEF Wait
      <4>2. Est'[p] = "blocked" => Est[p] = "exec"
        BY <1>1, <4>1, PasaDeEst
      <4>3. /\ m.sem \in Semaforo /\ turno[p] = m.sem
            /\ nombreSemaforo'[p] = m.sem /\ operacionES'[p] = "wait"
        BY <1>t, <1>1, <1>2, <3>4 DEF Wait, TypeOK
      <4>4. Est[p] = "exec" => exitCode'[p] = "CORRECTO"
        BY <1>1, <2>2 DEF InvColas, SinMarca
      <4>. QED BY <3>1, <4>2, <4>3, <4>4 DEF Quieto
    <3>. QED BY <2>1, <3>2, <3>3, <3>4
  <2>4. \A q \in Pid : Quieto(q) /\ ~Vuelve(q)
    <3>. HIDE DEF p
    <3>1. \A q \in Pid : q # p => Quieto(q) /\ ~Vuelve(q)
      BY <1>t, <2>2, QuietoSiIgual DEF Vuelve
    <3>. QED BY <2>3, <3>1
  <2>. QED BY <1>t, <1>1, <2>2, <2>4, KernelQuieto
<1>. QED BY <1>3, <1>4

(* No step of the kernel puts more processes inside than there were units. *)
LEMMA ExclusionKernel ==
  ASSUME InvX, InvTipo, InvTipo', UnicaLista, InvVuelo, InvColas, SinUnidadOciosa,
         Protocolo, PasoDeKernelX
  PROVE  InvX'
<1>1. NextKernel /\ UNCHANGED procesador
  BY DEF PasoDeKernelX, PasoDeKernel
<1>2. UnicaLista'
  BY <1>1, UnicaNextKernel DEF InvTipo
<1>3. EstDeListas /\ EstDeListas'
  BY <1>2, EstDeListasVale
<1>4. CASE \/ PasoSinListas \/ NuevoPrograma \/ AdmitirNuevo
           \/ \E c \in Cpu : EnviarProcesoACpu(c)
           \/ \E p \in Pid : AtenderPrograma(p)
  BY <1>3, <1>4, QuietosDelKernel
<1>5. ASSUME NEW c \in Cpu, AtenderCpu(c) PROVE InvX'
  BY <1>3, <1>5, InvTrasAtender
<1>6. ASSUME NEW p \in Pid,
             \/ PasarBloqueado(p) \/ AtenderES(p) \/ AtenderESConError(p)
             \/ AtenderWait(p) \/ AtenderWaitDesconocido(p)
      PROVE  InvX'
  BY <1>3, <1>6, InvTrasBloqueado
<1>. QED BY <1>1, <1>4, <1>5, <1>6 DEF NextKernel, PasoSinListas

-----------------------------------------------------------------------------
(* The steps of the CPUs and the consoles.                                 *)

(* A step that leaves the kernel and the turns of the processes alone.     *)
LEMMA InvTrasAjeno ==
  ASSUME InvX, TypeOK, UNCHANGED kernel,
         TipoX', MensajesX', \A p \in Pid : Est[p] = "blocked" => turno'[p] = turno[p],
         \A p \in Pid, s \in Semaforo :
           p \in dentro'[s] \/ EnCamino(p, s)' => p \in dentro[s] \/ EnCamino(p, s)
  PROVE  InvX'
<1>1. Est' = Est /\ UNCHANGED <<exitCode, operacionES, nombreSemaforo, valor>>
  BY EstSinMover DEF kernel, pcbs, semaforos
<1>2. Esperas'
  BY <1>1 DEF InvX, Esperas
<1>3. \A p \in Pid, s \in Semaforo : Concedida(p, s)' => Concedida(p, s)
  BY <1>1 DEF Concedida
<1>4. \A s \in Semaforo : Conserva(s)
  BY <1>1, <1>3 DEF Conserva, Tienen
<1>. QED BY <1>1, <1>2, <1>4, UnidadesTrasPaso DEF InvX, PasoDeUnidades, TypeOK

(* A message that a burst sends in its turn is the only one in the channel.*)
LEMMA EnvioEnTurno ==
  ASSUME InvTipo, ConPid, Protocolo, NEW c \in Cpu, estadoCpu[c] = "ejecuta",
         NEW m \in MensajesCpu, EnviarAKernel(c, <<m>>), aCpu' = aCpu
  PROVE  /\ ToSet(aKernel[c]) = {} /\ ToSet(aKernel'[c]) = {m}
         /\ \A d \in Cpu : d # c => aKernel'[d] = aKernel[d]
<1>1. Callado(c)
  BY TurnoDeQuienCorre DEF Protocolo
<1>2. InvCpu
  BY DEF InvTipo, TipoKernel, TypeOK, InvCpu
<1>3. /\ aKernel[c] = <<>> /\ aKernel'[c] = <<m>>
      /\ \A d \in Cpu : d # c => aKernel'[d] = aKernel[d]
  BY <1>1, <1>2, TrasEnviar DEF Callado
<1>. QED BY <1>3 DEF ToSet

(* WAIT and SIGNAL.  Nobody else mentions the process that the CPU runs.   *)
LEMMA InvTrasPedir ==
  ASSUME InvX, InvTipo, ConPid, InvVuelo, Protocolo, NEW c \in Cpu, NEW s \in Semaforo,
         PideWait(c, s) \/ PideSignal(c, s)
  PROVE  InvX'
<1> DEFINE p == pidCpu[c]
           w == MensajeCpu("WAIT", p, s)
           g == MensajeCpu("SIGNAL", p, s)
<1>t. TypeOK /\ InvCpu
  BY DEF InvTipo, TipoKernel, TypeOK, InvCpu
<1>1. estadoCpu[c] = "ejecuta" /\ UNCHANGED <<kernel, aCpu>>
  BY DEF PideWait, PideSignal, FinDeRafaga, TerminarRafaga, Pedir, Pasar
<1>2. p \in Pid /\ Mencion(c, p) /\ Est[p] \in {"exec", "exit"}
  <2>1. p \in Pid
    BY <1>t, <1>1 DEF InvCpu, ConPid, TypeOKProcesador
  <2>2. Mencion(c, p)
    BY <1>1 DEF Mencion, CorreEn, Corriendo
  <2>. QED BY <2>1, <2>2 DEF InvVuelo, MencionSoloDeExec
<1>3. w \in MensajesCpu /\ g \in MensajesCpu
  BY <1>t, <1>1, TipoMensajeCpu, ConstantesCanales DEF Pedidos, Finales
<1>4. /\ w.tipo = "WAIT" /\ w.pid = p /\ w.sem = s
      /\ g.tipo = "SIGNAL" /\ g.pid = p /\ g.sem = s
  BY DEF MensajeCpu
<1>5. \A d \in Cpu : \A n \in ToSet(aKernel[d]) : d # c => n.pid # p
  BY <1>t, <1>2, MensajeDeExec DEF InvVuelo, MencionEnUnaCpu
<1>6. dentro \in [Semaforo -> SUBSET Pid] /\ turno \in [Pid -> Semaforo \cup {SinNombre}]
  BY DEF InvX, TipoX
<1>7. CASE PideWait(c, s)
  <2>1. /\ \A r \in Semaforo : p \notin dentro[r]
        /\ EnviarAKernel(c, <<w>>) /\ turno' = [turno EXCEPT ![p] = s] /\ dentro' = dentro
    BY <1>7 DEF PideWait, FinDeRafaga
  <2>. HIDE DEF w, g, p
  <2>2. /\ ToSet(aKernel[c]) = {} /\ ToSet(aKernel'[c]) = {w}
        /\ \A d \in Cpu : d # c => aKernel'[d] = aKernel[d]
    BY <1>1, <1>3, <2>1, EnvioEnTurno
  <2>3. turno'[p] = s /\ \A q \in Pid : q # p => turno'[q] = turno[q]
    BY <1>2, <1>6, <2>1
  <2>4. TipoX'
    BY <1>2, <1>6, <2>1 DEF TipoX
  <2>5. MensajesX'
    <3>. SUFFICES ASSUME NEW d \in Cpu, NEW n \in ToSet(aKernel'[d])
                  PROVE  /\ n.tipo \in {"WAIT", "SIGNAL", "FINALIZO_QUANTUM", "FINALIZO_EJECUCION"}
                         /\ n.tipo = "WAIT" => n.sem \in Semaforo /\ turno'[n.pid] = n.sem
                         /\ n.tipo = "SIGNAL" => n.sem \in Semaforo /\ n.pid \notin dentro'[n.sem]
      BY DEF MensajesX
    <3>1. CASE d = c
      BY <1>4, <2>2, <2>3, <3>1
    <3>2. CASE d # c
      <4>1. n \in ToSet(aKernel[d]) /\ n.pid # p /\ n.pid \in Pid
        BY <1>t, <1>5, <2>2, <3>2, MensajeDeExec
      <4>. QED BY <2>1, <2>3, <4>1 DEF InvX, MensajesX
    <3>. QED BY <3>1, <3>2
  <2>6. \A q \in Pid, r \in Semaforo : EnCamino(q, r)' => EnCamino(q, r)
    BY <1>4, <2>2 DEF EnCamino
  <2>7. \A q \in Pid : Est[q] = "blocked" => turno'[q] = turno[q]
    BY <1>2, <2>3
  <2>. QED BY <1>t, <1>1, <2>1, <2>4, <2>5, <2>6, <2>7, InvTrasAjeno
<1>8. CASE PideSignal(c, s)
  <2>1. /\ p \in dentro[s] /\ EnviarAKernel(c, <<g>>) /\ turno' = turno
        /\ dentro' = [dentro EXCEPT ![s] = @ \ {p}]
    BY <1>8 DEF PideSignal, Pedir
  <2>. HIDE DEF w, g, p
  <2>2. /\ ToSet(aKernel[c]) = {} /\ ToSet(aKernel'[c]) = {g}
        /\ \A d \in Cpu : d # c => aKernel'[d] = aKernel[d]
    BY <1>1, <1>3, <2>1, EnvioEnTurno
  <2>3. dentro'[s] = dentro[s] \ {p} /\ \A r \in Semaforo : r # s => dentro'[r] = dentro[r]
    BY <1>6, <2>1
  <2>4. TipoX'
    BY <1>6, <2>1 DEF TipoX
  <2>5. MensajesX'
    <3>. SUFFICES ASSUME NEW d \in Cpu, NEW n \in ToSet(aKernel'[d])
                  PROVE  /\ n.tipo \in {"WAIT", "SIGNAL", "FINALIZO_QUANTUM", "FINALIZO_EJECUCION"}
                         /\ n.tipo = "WAIT" => n.sem \in Semaforo /\ turno'[n.pid] = n.sem
                         /\ n.tipo = "SIGNAL" => n.sem \in Semaforo /\ n.pid \notin dentro'[n.sem]
      BY DEF MensajesX
    <3>1. CASE d = c
      BY <1>4, <2>2, <2>3, <3>1
    <3>2. CASE d # c
      <4>1. n \in ToSet(aKernel[d])
        BY <2>2, <3>2
      <4>. QED BY <2>1, <2>3, <4>1 DEF InvX, MensajesX
    <3>. QED BY <3>1, <3>2
  <2>6. \A q \in Pid, r \in Semaforo : EnCamino(q, r)' => EnCamino(q, r) \/ (q = p /\ r = s)
    BY <1>4, <2>2 DEF EnCamino
  <2>7. \A q \in Pid, r \in Semaforo :
          q \in dentro'[r] \/ EnCamino(q, r)' => q \in dentro[r] \/ EnCamino(q, r)
    BY <2>1, <2>3, <2>6
  <2>. QED BY <1>t, <1>1, <2>1, <2>4, <2>5, <2>7, InvTrasAjeno
<1>. QED BY <1>7, <1>8

(* The end of a script and of a quantum.                                   *)
LEMMA InvTrasFinal ==
  ASSUME InvX, InvTipo, ConPid, InvVuelo, Protocolo, NEW c \in Cpu,
         NEW tipo \in {"FINALIZO_EJECUCION", "FINALIZO_QUANTUM"},
         FinDeRafaga(c, tipo, SinNombre), UNCHANGED <<kernel, dentro, turno>>
  PROVE  InvX'
<1> DEFINE m == MensajeCpu(tipo, pidCpu[c], SinNombre)
<1>t. TypeOK /\ InvCpu
  BY DEF InvTipo, TipoKernel, TypeOK, InvCpu
<1>1. estadoCpu[c] = "ejecuta" /\ EnviarAKernel(c, <<m>>) /\ aCpu' = aCpu
  BY DEF FinDeRafaga, TerminarRafaga, Pasar
<1>2. m \in MensajesCpu /\ m.tipo = tipo
  BY <1>t, <1>1, TipoMensajeCpu DEF Finales, MensajeCpu
<1>. HIDE DEF m
<1>3. /\ ToSet(aKernel[c]) = {} /\ ToSet(aKernel'[c]) = {m}
      /\ \A d \in Cpu : d # c => aKernel'[d] = aKernel[d]
  BY <1>1, <1>2, EnvioEnTurno
<1>4. TipoX'
  BY DEF InvX, TipoX
<1>5. MensajesX'
  BY <1>2, <1>3 DEF InvX, MensajesX
<1>6. \A q \in Pid, r \in Semaforo : EnCamino(q, r)' => EnCamino(q, r)
  BY <1>2, <1>3 DEF EnCamino
<1>. QED BY <1>t, <1>4, <1>5, <1>6, InvTrasAjeno

(* A CPU that reads, one that connects, the consoles, and nothing.         *)
LEMMA InvTrasLeer ==
  ASSUME InvX, InvTipo, NEW c \in Cpu,
         \/ RecibirContexto(c) \/ RecibirRespuesta(c) \/ Conectar(c) \/ Consola
         \/ UNCHANGED aKernel,
         UNCHANGED <<kernel, dentro, turno>>
  PROVE  InvX'
<1>1. TypeOK
  BY DEF InvTipo, TipoKernel
<1>2. aKernel' = aKernel
  BY DEF RecibirContexto, RecibirRespuesta, Conectar, Consola, IniciarPrograma, PedirFinalizar,
         CerrarConsola
<1>3. TipoX' /\ MensajesX'
  BY <1>2 DEF InvX, TipoX, MensajesX
<1>4. \A q \in Pid, r \in Semaforo : EnCamino(q, r)' => EnCamino(q, r)
  BY <1>2 DEF EnCamino
<1>. QED BY <1>1, <1>3, <1>4, InvTrasAjeno

(* Each step of these scripts is one of the system's: a semaphore in use   *)
(* is below its units at the start, so the bound MaxValor is not reached.  *)
LEMMA PasoDelSistema ==
  ASSUME InvX, InvTipo, \A s \in Semaforo : SemInit[s] <= MaxValor, [NextExclusion]_todo
  PROVE  [Next]_vars
<1>1. ASSUME NEW c \in Cpu, NEW s \in Semaforo, PideSignal(c, s)
      PROVE  TrabajoDeCpu(c)
  <2>1. pidCpu[c] \in dentro[s] /\ Pedir(c, "SIGNAL", s) /\ UNCHANGED kernel
    BY <1>1 DEF PideSignal
  <2>2. dentro[s] \subseteq Pid /\ IsFiniteSet(Pid)
    BY ConstantesCanales, FS_Interval DEF Pid, InvX, TipoX
  <2>3. IsFiniteSet(Tienen(s)) /\ Tienen(s) # {}
    <3>1. Tienen(s) \subseteq Pid /\ pidCpu[c] \in Tienen(s)
      BY <2>1, <2>2 DEF Tienen
    <3>. QED BY <2>2, <3>1, FS_Subset
  <2>4. Cardinality(Tienen(s)) \in Nat /\ Cardinality(Tienen(s)) # 0
    BY <2>3, FS_CardinalityType, FS_EmptySet
  <2>5. valor[s] \in Nat /\ SemInit[s] \in Nat /\ MaxValor \in Nat
    BY ConstantesPlanificador, ConstantesSistema DEF InvTipo, TipoKernel, TypeOK
  <2>6. valor[s] < MaxValor
    BY <2>4, <2>5 DEF InvX, Unidades
  <2>7. RespetaCota(s) /\ "SIGNAL" \in Pedidos
    BY <2>6 DEF RespetaCota, Pedidos
  <2>. QED BY <2>1, <2>7 DEF TrabajoDeCpu
<1>2. ASSUME NEW c \in Cpu, NEW s \in Semaforo, PideWait(c, s)
      PROVE  TrabajoDeCpu(c)
  <2>1. s \in Nombre /\ "WAIT" \in Finales
    BY ConstantesCanales DEF Finales
  <2>. QED BY <1>2, <2>1 DEF PideWait, TrabajoDeCpu
<1>3. ASSUME NEW c \in Cpu, Termina(c) \/ OtroPasoDeCpu(c)
      PROVE  TrabajoDeCpu(c)
  BY <1>3 DEF Termina, OtroPasoDeCpu, TrabajoDeCpu, Finales
<1>4. ASSUME NEW c \in Cpu, Conectar(c), UNCHANGED kernel
      PROVE  SucesoDeCpu(c)
  BY <1>4 DEF SucesoDeCpu
<1>. QED BY <1>1, <1>2, <1>3, <1>4 DEF NextExclusion, TrabajoDeCpuX, PasoDeKernelX, Next, todo

(* The invariant holds at the start: nobody is inside or on its way.       *)
LEMMA ExclusionInicial ==
  ASSUME InitExclusion
  PROVE  InvX
<1>1. /\ dentro = [s \in Semaforo |-> {}] /\ turno = [p \in Pid |-> SinNombre]
      /\ \A c \in Cpu : aKernel[c] = <<>>
      /\ numeroPid = 1 /\ \A s \in Semaforo : valor[s] = SemInit[s]
  BY DEF InitExclusion, Init, InitKernel, InitCanales
<1>2. \A p \in Pid : Est[p] # "blocked"
  BY <1>1 DEF Est, Estado, Pid
<1>3. TipoX /\ Esperas /\ MensajesX
  BY <1>1, <1>2 DEF TipoX, Esperas, MensajesX, ToSet
<1>4. \A s \in Semaforo : Tienen(s) = {}
  BY <1>1, <1>2 DEF Tienen, EnCamino, Concedida, ToSet
<1>5. Unidades
  <2>1. \A s \in Semaforo : SemInit[s] \in Nat /\ valor[s] = SemInit[s]
    BY <1>1, ConstantesPlanificador
  <2>2. \A s \in Semaforo : Cardinality(Tienen(s)) = 0
    BY <1>4, FS_EmptySet
  <2>. QED BY <2>1, <2>2 DEF Unidades
<1>. QED BY <1>3, <1>5 DEF InvX

(* So does what is known of the kernel and the CPUs.                       *)
LEMMA InicioDelSistema ==
  ASSUME Init
  PROVE  /\ InvTipo /\ ConPid /\ UnicaLista
         /\ InvVuelo /\ InvColas /\ SinUnidadOciosa
         /\ Protocolo
<1>1. /\ \A c \in Cpu : /\ aKernel[c] = <<>> /\ aCpu[c] = <<>> /\ DOMAIN aKernel[c] = {}
                        /\ estadoCpu[c] = "contexto" /\ enlace[c] = "ausente" /\ ~libre[c]
      /\ \A e \in Estados : listas[e] = <<>> /\ DOMAIN listas[e] = {}
      /\ numeroPid = 1 /\ \A p \in Pid : exitCode[p] = "CORRECTO"
      /\ \A s \in Semaforo : pilaEspera[s] = <<>> /\ DOMAIN pilaEspera[s] = {}
  BY DEF Init, InitKernel, InitCanales, InitProcesador
<1>2. InvTipo /\ ConPid
  BY <1>1, TipoInicial DEF ConPid
<1>3. UnicaLista
  BY <1>1, ConstantesCanales DEF UnicaLista, En, ToSet, Pid
<1>4. InvVuelo
  <2>1. \A c \in Cpu, p \in Pid : ~CorreEn(c, p) /\ ~Ida(c, p) /\ ~Vuelta(c, p)
    BY <1>1 DEF CorreEn, Ida, Vuelta, Corriendo
  <2>. QED BY <1>1, <2>1 DEF InvVuelo, MencionSoloDeExec, MencionEnUnaCpu, Mencion,
                             DevolucionEsUltima, IdaEsUnica, SignalConocido
<1>5. InvColas /\ SinUnidadOciosa
  <2>1. \A p \in Pid : ~Dormido(p)
    BY <1>1 DEF Dormido
  <2>. QED BY <1>1, <2>1 DEF InvColas, ColasBien, DormidosEncolados, DormidosUnaVez, SinMarca,
                             SinUnidadOciosa
<1>6. Protocolo
  BY <1>1 DEF Protocolo, Turno, EsperaContexto, SinAceptar, Callado
<1>. QED BY <1>2, <1>3, <1>4, <1>5, <1>6

(* What is known of the kernel, the CPUs and the scripts together.         *)
InvExclusion ==
  /\ InvX
  /\ InvTipo /\ ConPid /\ UnicaLista
  /\ InvVuelo /\ InvColas /\ SinUnidadOciosa
  /\ Protocolo

(* No step of the system with these scripts breaks it.                     *)
LEMMA ExclusionNext ==
  ASSUME InvExclusion, \A s \in Semaforo : SemInit[s] <= MaxValor, [NextExclusion]_todo
  PROVE  InvExclusion'
<1>i. /\ InvX /\ InvTipo /\ ConPid /\ UnicaLista /\ InvVuelo /\ InvColas
      /\ SinUnidadOciosa /\ Protocolo
  BY DEF InvExclusion
<1>1. [Next]_vars
  BY <1>i, PasoDelSistema
<1>2. NadieRechaza
  BY <1>i DEF NadieRechaza, Rechazable, InvX, MensajesX
<1>3. InvTipo' /\ ConPid'
  BY <1>i, <1>1, TipoNext
<1>4. UnicaLista' /\ InvVuelo' /\ InvColas' /\ SinUnidadOciosa' /\ Protocolo'
  BY <1>i, <1>1, <1>2, UnicaNext, VueloNext, ColasNext, OciosaNext, ProtocoloNext
<1>5. InvX'
  <2>1. CASE PasoDeKernelX
    BY <1>i, <1>3, <2>1, ExclusionKernel
  <2>2. ASSUME NEW c \in Cpu, NEW s \in Semaforo, PideWait(c, s) \/ PideSignal(c, s)
        PROVE  InvX'
    BY <1>i, <2>2, InvTrasPedir
  <2>3. ASSUME NEW c \in Cpu, Termina(c) \/ OtroPasoDeCpu(c)
        PROVE  InvX'
    BY <1>i, <2>3, InvTrasFinal, InvTrasLeer DEF Termina, OtroPasoDeCpu
  <2>4. ASSUME NEW c \in Cpu, Conectar(c), UNCHANGED <<kernel, dentro, turno>>
        PROVE  InvX'
    BY <1>i, <2>4, InvTrasLeer
  <2>5. CASE (Consola /\ UNCHANGED <<dentro, turno>>) \/ UNCHANGED todo
    <3>1. UNCHANGED <<kernel, dentro, turno>> /\ (Consola \/ UNCHANGED aKernel)
      BY <2>5 DEF Consola, todo, vars, canales
    <3>2. TypeOK /\ TipoX' /\ MensajesX'
      BY <1>i, <3>1 DEF InvTipo, TipoKernel, InvX, TipoX, MensajesX, Consola, IniciarPrograma,
                        PedirFinalizar, CerrarConsola
    <3>3. aKernel' = aKernel
      BY <3>1 DEF Consola, IniciarPrograma, PedirFinalizar, CerrarConsola
    <3>4. \A q \in Pid, r \in Semaforo : EnCamino(q, r)' => EnCamino(q, r)
      BY <3>3 DEF EnCamino
    <3>. QED BY <1>i, <3>1, <3>2, <3>4, InvTrasAjeno
  <2>. QED BY <2>1, <2>2, <2>3, <2>4, <2>5 DEF NextExclusion, TrabajoDeCpuX
<1>. QED BY <1>3, <1>4, <1>5 DEF InvExclusion

(* The semaphores of the kernel exclude, for any number of processes, CPUs *)
(* and semaphores: processes inside and units left are never more than the *)
(* units there were at the start, while SIGNALs are on their way, waiters  *)
(* are woken in one pass and leave BLOCKED in another, and programs are    *)
(* killed in between.  A kill may lose units (of who is inside, or of who  *)
(* has been given one) and never makes one.  MaxValor is the bound of the  *)
(* scripts that add units at will; these do not reach it.                  *)
THEOREM SiempreExcluyen ==
  ASSUME \A s \in Semaforo : SemInit[s] <= MaxValor
  PROVE  SpecExclusion => []ExclusionMutua
<1>1. InitExclusion => InvExclusion
  <2>. SUFFICES ASSUME InitExclusion PROVE InvExclusion
    OBVIOUS
  <2>1. Init
    BY DEF InitExclusion
  <2>. QED BY <2>1, InicioDelSistema, ExclusionInicial DEF InvExclusion
<1>2. InvExclusion /\ [NextExclusion]_todo => InvExclusion'
  BY ExclusionNext
<1>3. InvExclusion => ExclusionMutua
  <2>. SUFFICES ASSUME InvExclusion, NEW s \in Semaforo
                PROVE  valor[s] + Cardinality(dentro[s]) <= SemInit[s]
    BY DEF ExclusionMutua
  <2>1. Tienen(s) \subseteq Pid /\ dentro[s] \subseteq Tienen(s) /\ IsFiniteSet(Pid)
    BY ConstantesCanales, FS_Interval DEF Pid, Tienen, InvExclusion, InvX, TipoX
  <2>2. IsFiniteSet(Tienen(s)) /\ Cardinality(Tienen(s)) \in Nat
    BY <2>1, FS_Subset, FS_CardinalityType
  <2>3. Cardinality(dentro[s]) <= Cardinality(Tienen(s)) /\ Cardinality(dentro[s]) \in Nat
    BY <2>1, <2>2, FS_Subset, FS_CardinalityType
  <2>4. /\ valor[s] \in Nat /\ SemInit[s] \in Nat
        /\ valor[s] + Cardinality(Tienen(s)) <= SemInit[s]
    BY ConstantesPlanificador DEF InvExclusion, InvX, Unidades, InvTipo, TipoKernel, TypeOK
  <2>. QED BY <2>2, <2>3, <2>4
<1>. QED BY <1>1, <1>2, <1>3, PTL DEF SpecExclusion

-----------------------------------------------------------------------------
(* The pause of the planning: what the mutex does when one thread takes it *)
(* and the other one releases it.                                          *)

(* The mutex is taken once in a pause, and released after it.                 *)
InvPausa ==
  /\ iteraciones \in Nat
  /\ soltando => ~sistemaPausado
  /\ sistemaPausado /\ iteraciones > 0 => mutexTomado /\ iteraciones = 1
  /\ EsperaLaReanudacion

(* The steps that touch the pause; the rest of the system does not.           *)
PasoPausa ==
  \/ SelectPausable \/ TomarMutex \/ Detener \/ Reanudar \/ SoltarMutex \/ UNCHANGED pausa

(* Every step is one of those. *)
LEMMA CadaPasoPausa ==
  ASSUME [NextC]_varsC
  PROVE  PasoPausa
<1>1. HiloPrincipal => PasoPausa
  BY DEF HiloPrincipal, PasoPausa
<1>2. HiloConsola => PasoPausa
  BY DEF HiloConsola, PasoPausa, FinalizarProceso, ModificarGradoMult, ActualizarEstadoSistema
<1> QED BY <1>1, <1>2 DEF NextC, PasoPausa, varsC

(* Each of them keeps the invariant. *)
LEMMA PausaGuarda ==
  ASSUME InvPausa, PasoPausa
  PROVE  InvPausa'
<1> USE DEF InvPausa, EsperaLaReanudacion
<1>1. CASE SelectPausable
  BY <1>1 DEF SelectPausable
<1>2. CASE TomarMutex
  BY <1>2 DEF TomarMutex
<1>3. CASE Detener
  BY <1>3 DEF Detener, LeeTeclado
<1>4. CASE Reanudar
  BY <1>4 DEF Reanudar
<1>5. CASE SoltarMutex
  BY <1>5 DEF SoltarMutex
<1>6. CASE UNCHANGED pausa
  BY <1>6 DEF pausa
<1> QED BY <1>1, <1>2, <1>3, <1>4, <1>5, <1>6 DEF PasoPausa

(* The invariant holds in every reachable state. *)
THEOREM InvariantePausa == SpecC => []InvPausa
<1>1. InitC => InvPausa
  BY DEF InitC, InvPausa, EsperaLaReanudacion
<1>2. InvPausa /\ [NextC]_varsC => InvPausa'
  BY CadaPasoPausa, PausaGuarda
<1> QED BY <1>1, <1>2, PTL DEF SpecC

(* A pause lets at most one more iteration begin, at whatever moment of the   *)
(* main loop it comes (stopPlani, kernel.c:2097, and main, kernel.c:146).     *)
THEOREM PausaSiempreDetiene == SpecC => []PausaDetiene
<1>1. InvPausa => PausaDetiene
  BY DEF InvPausa, PausaDetiene
<1> QED BY <1>1, InvariantePausa, PTL

(* Resuming never leaves the main thread waiting for the mutex.               *)
THEOREM SiempreEsperaLaReanudacion == SpecC => []EsperaLaReanudacion
<1>1. InvPausa => EsperaLaReanudacion
  BY DEF InvPausa
<1> QED BY <1>1, InvariantePausa, PTL
=============================================================================
