----------------------------- MODULE ColasPruebas -----------------------------
(***************************************************************************)
(* Proofs about the queues of the semaphores, the life cycle of a process  *)
(* and the counts of the scheduler.                                        *)
(***************************************************************************)
EXTENDS VuelosPruebas, FiniteSetTheorems

USE DEF Estados

-----------------------------------------------------------------------------
(* Who is in the queues, with the state of a process as a function.        *)
Dormido(p) == Est[p] = "blocked" /\ exitCode[p] = "ESPERANDO_SEMAFORO"

(* Those in a queue sleep on that semaphore, or have ended.                *)
ColasBien ==
  \A s \in Semaforo, p \in Pid : \A k \in DOMAIN pilaEspera[s] :
    pilaEspera[s][k] = p => Est[p] = "exit" \/ (Dormido(p) /\ nombreSemaforo[p] = s)

(* Who sleeps on a semaphore of SEM_IDS is in its queue.                   *)
DormidosEncolados ==
  \A p \in Pid : Dormido(p) /\ nombreSemaforo[p] \in Semaforo =>
    \E k \in DOMAIN pilaEspera[nombreSemaforo[p]] : pilaEspera[nombreSemaforo[p]][k] = p

(* Who sleeps is in a queue once.                                          *)
DormidosUnaVez ==
  \A p \in Pid : Dormido(p) =>
    \A s \in Semaforo : \A j, k \in DOMAIN pilaEspera[s] :
      pilaEspera[s][j] = p /\ pilaEspera[s][k] = p => j = k

SinMarca == \A p \in Pid : Est[p] \in {"new", "ready", "exec"} => exitCode[p] = "CORRECTO"

InvColas ==
  /\ ColasBien
  /\ DormidosEncolados
  /\ DormidosUnaVez
  /\ SinMarca

-----------------------------------------------------------------------------
(* The steps that leave the queues as they are: a process stays as it was, *)
(* or it ends, or one that does not sleep still sleeps on no semaphore.    *)
SigueIgual(p) ==
  Est'[p] = Est[p] /\ exitCode'[p] = exitCode[p] /\ nombreSemaforo'[p] = nombreSemaforo[p]

SigueDespierto(p) ==
  /\ Est[p] # "exit" /\ ~Dormido(p)
  /\ Est'[p] = "blocked" /\ exitCode'[p] = "ESPERANDO_SEMAFORO" => nombreSemaforo'[p] \notin Semaforo
  /\ Est'[p] \in {"new", "ready", "exec"} => exitCode'[p] = "CORRECTO"

PasoQuieto == \A p \in Pid : SigueIgual(p) \/ Est'[p] = "exit" \/ SigueDespierto(p)

(* The steps that leave the queues alone keep what is known of them.       *)
LEMMA ColasQuietas ==
  ASSUME TypeOK, InvColas, PasoQuieto, UNCHANGED pilaEspera
  PROVE  InvColas'
<1>2. \A p \in Pid : SigueDespierto(p) =>
        \A s \in Semaforo : \A k \in DOMAIN pilaEspera[s] : pilaEspera[s][k] # p
  BY DEF InvColas, ColasBien, SigueDespierto
<1>3. ColasBien'
  <2>. SUFFICES ASSUME NEW s \in Semaforo, NEW p \in Pid, NEW k \in DOMAIN pilaEspera[s],
                       pilaEspera[s][k] = p
                PROVE  Est'[p] = "exit" \/ (Dormido(p)' /\ nombreSemaforo'[p] = s)
    BY DEF ColasBien
  <2>1. SigueIgual(p) \/ Est'[p] = "exit"
    BY <1>2 DEF PasoQuieto
  <2>. QED BY <2>1 DEF InvColas, ColasBien, SigueIgual, Dormido
<1>4. DormidosEncolados'
  BY DEF InvColas, DormidosEncolados, PasoQuieto, SigueIgual, SigueDespierto, Dormido
<1>5. DormidosUnaVez'
  <2>. SUFFICES ASSUME NEW p \in Pid, Dormido(p)', NEW s \in Semaforo,
                       NEW j \in DOMAIN pilaEspera[s], NEW k \in DOMAIN pilaEspera[s],
                       pilaEspera[s][j] = p, pilaEspera[s][k] = p
                PROVE  j = k
    BY DEF DormidosUnaVez
  <2>1. SigueIgual(p)
    BY <1>2 DEF PasoQuieto, Dormido
  <2>. QED BY <2>1 DEF InvColas, DormidosUnaVez, SigueIgual, Dormido
<1>6. SinMarca'
  BY DEF InvColas, SinMarca, PasoQuieto, SigueIgual, SigueDespierto
<1>. QED BY <1>3, <1>4, <1>5, <1>6 DEF InvColas

(* A SIGNAL wakes the head of the queue; the process that signals is       *)
(* running, or has ended.                                                  *)
LEMMA ColasTrasDespertar ==
  ASSUME TypeOK, InvColas, NEW s \in Semaforo, pilaEspera[s] # <<>>, Est' = Est,
         exitCode' = [exitCode EXCEPT ![Head(pilaEspera[s])] = "TERMINO_ESPERA"],
         pilaEspera' = [pilaEspera EXCEPT ![s] = Tail(@)],
         NEW q \in Pid, Est[q] \in {"exec", "exit"},
         \A p \in Pid : p # q => nombreSemaforo'[p] = nombreSemaforo[p]
  PROVE  InvColas'
<1> DEFINE h == Head(pilaEspera[s])
<1>1. /\ pilaEspera[s] \in Seq(Pid)
      /\ \A x \in Semaforo : \A k \in DOMAIN pilaEspera[x] : pilaEspera[x][k] \in Pid
  BY DEF TypeOK
<1>2. /\ 1 \in DOMAIN pilaEspera[s] /\ h = pilaEspera[s][1] /\ h \in Pid
      /\ \A x \in Semaforo : x # s => pilaEspera'[x] = pilaEspera[x]
      /\ \A k \in DOMAIN pilaEspera'[s] :
           /\ k \in Nat /\ k > 0 /\ k + 1 \in DOMAIN pilaEspera[s]
           /\ pilaEspera'[s][k] = pilaEspera[s][k + 1]
      /\ \A k \in DOMAIN pilaEspera[s] : k \in Nat /\ k > 0
      /\ \A k \in DOMAIN pilaEspera[s] : k # 1 =>
           k - 1 \in DOMAIN pilaEspera'[s] /\ pilaEspera'[s][k - 1] = pilaEspera[s][k]
  <2>1. pilaEspera'[s] = Tail(pilaEspera[s]) /\ \A x \in Semaforo : x # s => pilaEspera'[x] = pilaEspera[x]
    BY DEF TypeOK
  <2>2. /\ h = pilaEspera[s][1] /\ 1 \in DOMAIN pilaEspera[s] /\ Tail(pilaEspera[s]) \in Seq(Pid)
        /\ \A k \in DOMAIN pilaEspera'[s] :
             k \in Nat /\ k + 1 \in DOMAIN pilaEspera[s] /\ pilaEspera'[s][k] = pilaEspera[s][k + 1]
        /\ \A k \in DOMAIN pilaEspera[s] : k \in Nat /\ k > 0
        /\ \A k \in DOMAIN pilaEspera[s] : k # 1 => k - 1 \in DOMAIN pilaEspera'[s]
    <3>1. pilaEspera'[s] = Tail(pilaEspera[s])
      BY <2>1
    <3>2. h = pilaEspera[s][1]
      BY <1>1, ColaTrasLeer
    <3>. HIDE DEF h
    <3>3. /\ 1 \in DOMAIN pilaEspera[s] /\ Tail(pilaEspera[s]) \in Seq(Pid)
          /\ \A k \in DOMAIN Tail(pilaEspera[s]) :
               k \in Nat /\ k + 1 \in DOMAIN pilaEspera[s] /\ Tail(pilaEspera[s])[k] = pilaEspera[s][k + 1]
          /\ \A k \in DOMAIN pilaEspera[s] : k \in Nat /\ k > 0
          /\ \A k \in DOMAIN pilaEspera[s] : k # 1 => k - 1 \in DOMAIN Tail(pilaEspera[s])
      BY <1>1, ColaTrasLeer
    <3>. QED BY <3>1, <3>2, <3>3
  <2>3. \A k \in DOMAIN pilaEspera'[s] : k > 0
    <3>1. pilaEspera'[s] \in Seq(Pid)
      BY <2>1, <2>2
    <3>. QED BY <3>1, LenProperties
  <2>4. \A k \in DOMAIN pilaEspera[s] : k # 1 => pilaEspera'[s][k - 1] = pilaEspera[s][k]
    BY <2>2
  <2>. QED BY <1>1, <2>1, <2>2, <2>3, <2>4
<1>3. /\ \A p \in Pid : exitCode'[p] = IF p = h THEN "TERMINO_ESPERA" ELSE exitCode[p]
      /\ \A p \in Pid : Est'[p] = Est[p]
  BY <1>2 DEF TypeOK
<1>. HIDE DEF h
<1>4. Est[h] = "exit" \/ (Dormido(h) /\ nombreSemaforo[h] = s)
  BY <1>2 DEF InvColas, ColasBien
<1>5. \A p \in Pid : Dormido(p)' => Dormido(p) /\ p # h /\ nombreSemaforo'[p] = nombreSemaforo[p]
  BY <1>3 DEF Dormido
<1>6. \A p \in Pid : Dormido(p) /\ p # h =>
        (Dormido(p))' /\ nombreSemaforo'[p] = nombreSemaforo[p]
  BY <1>3 DEF Dormido
<1>7. ColasBien'
  <2>. SUFFICES ASSUME NEW x \in Semaforo, NEW p \in Pid, NEW k \in DOMAIN pilaEspera'[x],
                       pilaEspera'[x][k] = p
                PROVE  Est'[p] = "exit" \/ (Dormido(p)' /\ nombreSemaforo'[p] = x)
    BY DEF ColasBien
  <2>1. PICK i \in DOMAIN pilaEspera[x] : pilaEspera[x][i] = p /\ (x = s => i # 1)
    <3>1. CASE x = s
      <4>1. /\ k \in Nat /\ k > 0 /\ k + 1 \in DOMAIN pilaEspera[s]
            /\ pilaEspera[s][k + 1] = p
        BY <1>2, <3>1
      <4>. QED BY <3>1, <4>1
    <3>. QED BY <1>2, <3>1
  <2>2. CASE Est[p] = "exit"
    BY <1>3, <2>2
  <2>3. CASE Dormido(p) /\ nombreSemaforo[p] = x
    <3>1. p # h
      <4>. SUFFICES ASSUME p = h PROVE FALSE
        OBVIOUS
      <4>1. x = s
        BY <1>4, <2>3 DEF Dormido
      <4>2. i = 1
        BY <1>2, <2>1, <2>3, <4>1 DEF InvColas, DormidosUnaVez
      <4>. QED BY <2>1, <4>1, <4>2
    <3>. QED BY <1>6, <2>3, <3>1
  <2>. QED BY <2>1, <2>2, <2>3 DEF InvColas, ColasBien
<1>8. DormidosEncolados'
  <2>. SUFFICES ASSUME NEW p \in Pid, Dormido(p)', nombreSemaforo'[p] \in Semaforo
                PROVE  \E k \in DOMAIN pilaEspera'[nombreSemaforo'[p]] :
                         pilaEspera'[nombreSemaforo'[p]][k] = p
    BY DEF DormidosEncolados
  <2>1. Dormido(p) /\ p # h /\ nombreSemaforo'[p] = nombreSemaforo[p]
    BY <1>5
  <2>2. PICK k \in DOMAIN pilaEspera[nombreSemaforo[p]] : pilaEspera[nombreSemaforo[p]][k] = p
    BY <2>1 DEF InvColas, DormidosEncolados
  <2>3. CASE nombreSemaforo[p] = s
    <3>1. k - 1 \in DOMAIN pilaEspera'[s] /\ pilaEspera'[s][k - 1] = p
      BY <1>2, <2>1, <2>2, <2>3
    <3>. QED BY <2>1, <2>3, <3>1
  <2>4. CASE nombreSemaforo[p] # s
    <3>1. pilaEspera'[nombreSemaforo[p]] = pilaEspera[nombreSemaforo[p]]
      BY <1>2, <2>1, <2>4
    <3>. QED BY <2>1, <2>2, <3>1
  <2>. QED BY <2>3, <2>4
<1>9. DormidosUnaVez'
  <2>. SUFFICES ASSUME NEW p \in Pid, Dormido(p)', NEW x \in Semaforo,
                       NEW j \in DOMAIN pilaEspera'[x], NEW k \in DOMAIN pilaEspera'[x],
                       pilaEspera'[x][j] = p, pilaEspera'[x][k] = p
                PROVE  j = k
    BY DEF DormidosUnaVez
  <2>1. Dormido(p)
    BY <1>5
  <2>2. CASE x # s
    BY <1>2, <2>1, <2>2 DEF InvColas, DormidosUnaVez
  <2>3. CASE x = s
    <3>1. j + 1 = k + 1
      BY <1>2, <2>1, <2>3 DEF InvColas, DormidosUnaVez
    <3>. QED BY <1>2, <2>3, <3>1
  <2>. QED BY <2>2, <2>3
<1>10. SinMarca'
  BY <1>3, <1>4 DEF InvColas, SinMarca, Dormido
<1>. QED BY <1>7, <1>8, <1>9, <1>10 DEF InvColas

(* A WAIT without units puts a blocked process, that was in no queue, at   *)
(* the end of one.                                                         *)
LEMMA ColasTrasDormir ==
  ASSUME TypeOK, InvColas, NEW p \in Pid, Est[p] = "blocked", ~Dormido(p),
         NEW s \in Semaforo, nombreSemaforo[p] = s, Est' = Est, UNCHANGED nombreSemaforo,
         exitCode' = [exitCode EXCEPT ![p] = "ESPERANDO_SEMAFORO"],
         pilaEspera' = [pilaEspera EXCEPT ![s] = Append(pilaEspera[s], p)]
  PROVE  InvColas'
<1>1. /\ \A x \in Semaforo : x # s => pilaEspera'[x] = pilaEspera[x]
      /\ \A k \in DOMAIN pilaEspera[s] :
           k \in DOMAIN pilaEspera'[s] /\ pilaEspera'[s][k] = pilaEspera[s][k]
      /\ \A k \in DOMAIN pilaEspera'[s] :
           \/ k \in DOMAIN pilaEspera[s] /\ pilaEspera'[s][k] = pilaEspera[s][k]
           \/ k = Len(pilaEspera[s]) + 1 /\ pilaEspera'[s][k] = p
      /\ Len(pilaEspera[s]) + 1 \in DOMAIN pilaEspera'[s]
      /\ pilaEspera'[s][Len(pilaEspera[s]) + 1] = p
  <2>1. /\ pilaEspera'[s] = Append(pilaEspera[s], p) /\ pilaEspera[s] \in Seq(Pid)
        /\ \A x \in Semaforo : x # s => pilaEspera'[x] = pilaEspera[x]
    BY DEF TypeOK
  <2>. QED BY <2>1, ColaTrasEnviar
<1>2. /\ \A x \in Semaforo : \A k \in DOMAIN pilaEspera[x] :
           pilaEspera[x][k] \in Pid /\ pilaEspera[x][k] # p
      /\ \A q \in Pid : q # p => exitCode'[q] = exitCode[q]
      /\ exitCode'[p] = "ESPERANDO_SEMAFORO"
      /\ \A q \in Pid : Est'[q] = Est[q]
  BY DEF TypeOK, InvColas, ColasBien
<1>3. \A q \in Pid : q # p => (Dormido(q)' <=> Dormido(q))
  BY <1>2 DEF Dormido
<1>4. Dormido(p)'
  BY <1>2 DEF Dormido
<1>5. ColasBien'
  <2>. SUFFICES ASSUME NEW x \in Semaforo, NEW q \in Pid, NEW k \in DOMAIN pilaEspera'[x],
                       pilaEspera'[x][k] = q
                PROVE  Est'[q] = "exit" \/ (Dormido(q)' /\ nombreSemaforo[q] = x)
    BY DEF ColasBien
  <2>1. CASE k \in DOMAIN pilaEspera[x] /\ pilaEspera'[x][k] = pilaEspera[x][k]
    BY <1>2, <1>3, <2>1 DEF InvColas, ColasBien
  <2>2. CASE x = s /\ pilaEspera'[x][k] = p
    BY <1>4, <2>2
  <2>. QED BY <1>1, <2>1, <2>2
<1>6. DormidosEncolados'
  <2>. SUFFICES ASSUME NEW q \in Pid, Dormido(q)', nombreSemaforo[q] \in Semaforo
                PROVE  \E k \in DOMAIN pilaEspera'[nombreSemaforo[q]] :
                         pilaEspera'[nombreSemaforo[q]][k] = q
    BY DEF DormidosEncolados
  <2>1. CASE q = p
    BY <1>1, <2>1
  <2>2. CASE q # p
    <3>1. PICK k \in DOMAIN pilaEspera[nombreSemaforo[q]] : pilaEspera[nombreSemaforo[q]][k] = q
      BY <1>3, <2>2 DEF InvColas, DormidosEncolados
    <3>. QED BY <1>1, <3>1
  <2>. QED BY <2>1, <2>2
<1>7. DormidosUnaVez'
  <2>. SUFFICES ASSUME NEW q \in Pid, Dormido(q)', NEW x \in Semaforo,
                       NEW j \in DOMAIN pilaEspera'[x], NEW k \in DOMAIN pilaEspera'[x],
                       pilaEspera'[x][j] = q, pilaEspera'[x][k] = q
                PROVE  j = k
    BY DEF DormidosUnaVez
  <2>1. CASE q = p
    BY <1>1, <1>2, <2>1
  <2>2. CASE q # p
    BY <1>1, <1>3, <2>2 DEF InvColas, DormidosUnaVez
  <2>. QED BY <2>1, <2>2
<1>8. SinMarca'
  BY <1>2 DEF InvColas, SinMarca
<1>. QED BY <1>5, <1>6, <1>7, <1>8 DEF InvColas
-----------------------------------------------------------------------------
(* Each step of the kernel is one of those.                                *)

(* The process that a message names is running, or has ended.              *)
LEMMA MensajeVigente ==
  ASSUME InvVuelo, NEW c \in Cpu, NEW m, LeeElKernel(c, m), m = aKernel[c][1], Colas
  PROVE  /\ m.pid \in Pid /\ Est[m.pid] \in {"exec", "exit"}
         /\ m.tipo = "SIGNAL" => m.sem \in Semaforo
<1>1. 1 \in DOMAIN aKernel[c] /\ m.pid \in Pid
  BY ColaTrasLeer DEF LeeElKernel, Colas
<1>2. Mencion(c, m.pid)
  BY <1>1 DEF Mencion, Vuelta
<1>. QED BY <1>1, <1>2 DEF InvVuelo, MencionSoloDeExec, SignalConocido

(* A handler of the messages of the CPUs keeps what is known of the queues:*)
(* none of them touches a process that sleeps, but to wake it.             *)
LEMMA ColasAtenderCpu ==
  ASSUME InvTipo, UnicaLista, InvVuelo, InvColas, NEW c \in Cpu, AtenderCpu(c),
         UNCHANGED procesador
  PROVE  InvColas'
<1>t. TypeOK /\ Colas /\ TipoKernel /\ TipoListas
  BY DEF InvTipo, TipoKernel, TypeOK, TypeOKCanales, Colas, TipoListas
<1>1. PICK m \in ToSet(aKernel[c]) :
        Recibir(c, m) /\ Trata(c, m) /\ LeeElKernel(c, m) /\ m = aKernel[c][1]
  BY <1>t, AtenderCpuLee
<1> DEFINE p == m.pid
<1>2. /\ p \in Pid /\ Est[p] \in {"exec", "exit"}
      /\ m.tipo = "SIGNAL" => m.sem \in Semaforo
      /\ numeroPid' = numeroPid
      /\ \A q \in Pid : q # p => Est'[q] = Est[q]
  BY <1>1, <1>t, MensajeVigente DEF LeeElKernel, Recibir
<1>3. Est[p] = "exec" => exitCode[p] = "CORRECTO"
  BY <1>2 DEF InvColas, SinMarca
<1>4. ASSUME NEW q \in Pid, q # p PROVE Est'[q] = Est[q]
  BY <1>2, <1>4
<1>5. CASE FinalizoEjecucion(c, m) \/ FinalizoConError(c, m)
  <2>1. MoverProgramaDeExecAExit(p) /\ UNCHANGED <<nombreSemaforo, pilaEspera>>
    BY <1>5 DEF FinalizoEjecucion, FinalizoConError, semaforos
  <2>2. PasaDe(p, "exec", "exit") \/ (Est[p] # "exec" /\ Est' = Est)
    BY <1>2, <1>t, <2>1, EstExecAExit
  <2>3. Est'[p] = "exit"
    BY <1>2, <2>2, PasaDeEst
  <2>4. \A q \in Pid : q # p => exitCode'[q] = exitCode[q]
    BY <1>5, <1>t DEF FinalizoEjecucion, FinalizoConError, TypeOK
  <2>. HIDE DEF p
  <2>. QED BY <1>t, <1>4, <2>1, <2>3, <2>4, ColasQuietas DEF PasoQuieto, SigueIgual
<1>6. CASE FinalizoQuantum(c, m) \/ PidioArchivo(c, m) \/ Wait(c, m)
  <2>1. /\ MoverDeExec(p, "ready") \/ MoverDeExec(p, "blocked")
        /\ UNCHANGED <<exitCode, pilaEspera>>
    BY <1>6 DEF FinalizoQuantum, PidioArchivo, Wait, semaforos
  <2>2. \A q \in Pid : q # p => nombreSemaforo'[q] = nombreSemaforo[q]
    BY <1>6, <1>t DEF FinalizoQuantum, PidioArchivo, Wait, TypeOK
  <2>3. \/ PasaDe(p, "exec", "ready") \/ PasaDe(p, "exec", "blocked")
        \/ Est[p] # "exec" /\ Est' = Est
    BY <1>2, <1>t, <2>1, EstMoverDeExec
  <2>4. Est'[p] = "exit" \/ SigueDespierto(p)
    BY <1>2, <1>3, <2>1, <2>3, PasaDeEst DEF SigueDespierto, Dormido
  <2>. HIDE DEF p
  <2>. QED BY <1>t, <1>4, <2>1, <2>2, <2>4, ColasQuietas DEF PasoQuieto, SigueIgual
<1>7. CASE Signal(c, m)
  <2>1. /\ m.sem \in Semaforo /\ DespertarOSumar(m.sem) /\ Est' = Est
        /\ \A q \in Pid : q # p => nombreSemaforo'[q] = nombreSemaforo[q]
    BY <1>2, <1>7, <1>t, EstSinMover DEF Signal, TypeOK
  <2>2. CASE pilaEspera[m.sem] = <<>>
    <3>1. UNCHANGED <<exitCode, pilaEspera>>
      BY <2>1, <2>2 DEF DespertarOSumar
    <3>2. Est'[p] = "exit" \/ SigueDespierto(p)
      BY <1>2, <1>3, <2>1, <3>1 DEF SigueDespierto, Dormido
    <3>. HIDE DEF p
    <3>. QED BY <1>t, <2>1, <3>1, <3>2, ColasQuietas DEF PasoQuieto, SigueIgual
  <2>3. CASE pilaEspera[m.sem] # <<>>
    <3>1. /\ exitCode' = [exitCode EXCEPT ![Head(pilaEspera[m.sem])] = "TERMINO_ESPERA"]
          /\ pilaEspera' = [pilaEspera EXCEPT ![m.sem] = Tail(@)]
      BY <2>1, <2>3 DEF DespertarOSumar
    <3>. HIDE DEF p
    <3>. QED BY <1>2, <1>t, <2>1, <2>3, <3>1, ColasTrasDespertar
  <2>. QED BY <2>2, <2>3
<1>8. CASE Consulta(c, m) \/ AlocarBien(c, m)
  <2>1. UNCHANGED <<listas, exitCode, nombreSemaforo, pilaEspera>>
    BY <1>8 DEF Consulta, AlocarBien, semaforos
  <2>. QED BY <1>2, <1>t, <2>1, EstSinMover, ColasQuietas DEF PasoQuieto, SigueIgual
<1>9. CASE AlocarMal(c, m)
  <2>1. FinalizarPrograma(p, "LIMITE_PAGINA") /\ UNCHANGED <<nombreSemaforo, pilaEspera>>
    BY <1>9 DEF AlocarMal, semaforos
  <2>2. \/ PasaDe(p, Est[p], "exit") /\ exitCode' = [exitCode EXCEPT ![p] = "LIMITE_PAGINA"]
        \/ Est[p] \notin Vivo /\ Est' = Est /\ UNCHANGED exitCode
    BY <1>2, <1>t, <2>1, EstFinalizar
  <2>3. Est'[p] = "exit" /\ \A q \in Pid : q # p => exitCode'[q] = exitCode[q]
    BY <1>2, <1>t, <2>2, PasaDeEst DEF Vivo, TypeOK
  <2>. HIDE DEF p
  <2>. QED BY <1>t, <1>4, <2>1, <2>3, ColasQuietas DEF PasoQuieto, SigueIgual
<1>. QED BY <1>1, <1>5, <1>6, <1>7, <1>8, <1>9 DEF Trata

(* A visit to a blocked process keeps it: one that is served or that goes  *)
(* to sleep was in no queue.                                               *)
LEMMA ColasBloqueado ==
  ASSUME InvTipo, UnicaLista, InvColas, SinUnidadOciosa, NEW p \in Pid,
         \/ PasarBloqueado(p) \/ AtenderES(p) \/ AtenderESConError(p)
         \/ AtenderWait(p) \/ AtenderWaitDesconocido(p)
  PROVE  InvColas'
<1>t. TypeOK /\ TipoKernel /\ TipoListas
  BY DEF InvTipo, TipoKernel, TypeOK, TipoListas
<1>1. /\ EnBloqueado(p) /\ nombreSemaforo' = nombreSemaforo
      /\ Est[p] = "blocked" /\ numeroPid' = numeroPid
      /\ UNCHANGED listas => Est' = Est
      /\ ABlockedReady => PasaDe(p, "blocked", "ready")
  <2>1. EnBloqueado(p)
    BY DEF PasarBloqueado, AtenderES, AtenderESConError, AtenderWait,
           AtenderWaitDesconocido, PorAtender
  <2>. QED BY <1>t, <2>1, EstEnBloqueado DEF EnBloqueado
<1>2. CASE PasarBloqueado(p)
  <2>1. /\ Est' = Est /\ UNCHANGED pilaEspera
        /\ \A q \in Pid : q # p => exitCode'[q] = exitCode[q]
        /\ exitCode[p] \in {"TERMINO_ESPERA", "ESPERANDO_SEMAFORO"}
        /\ exitCode'[p] = IF exitCode[p] = "TERMINO_ESPERA" THEN "CORRECTO" ELSE exitCode[p]
    BY <1>1, <1>2, <1>t DEF PasarBloqueado, BorrarMarca, semaforos, TypeOK
  <2>2. SigueIgual(p) \/ SigueDespierto(p)
    BY <1>1, <2>1 DEF SigueIgual, SigueDespierto, Dormido
  <2>. QED BY <1>1, <1>t, <2>1, <2>2, ColasQuietas DEF PasoQuieto, SigueIgual
<1>3. CASE AtenderES(p)
  <2>1. /\ PasaDe(p, "blocked", "ready") /\ UNCHANGED pilaEspera
        /\ exitCode[p] \notin {"TERMINO_ESPERA", "ESPERANDO_SEMAFORO"}
        /\ \A q \in Pid : q # p => exitCode'[q] = exitCode[q]
        /\ exitCode'[p] = "CORRECTO"
    BY <1>1, <1>3, <1>t DEF AtenderES, PorAtender, semaforos, TypeOK
  <2>2. SigueDespierto(p) /\ \A q \in Pid : q # p => Est'[q] = Est[q]
    BY <2>1, PasaDeEst DEF SigueDespierto, Dormido
  <2>. QED BY <1>1, <1>t, <2>1, <2>2, ColasQuietas DEF PasoQuieto, SigueIgual
<1>4. CASE AtenderESConError(p)
  <2>1. /\ Mover("blocked", p, "exit") /\ UNCHANGED pilaEspera
        /\ \A q \in Pid : q # p => exitCode'[q] = exitCode[q]
    BY <1>4, <1>t DEF AtenderESConError, FinalizarProgramaConError, semaforos, TypeOK
  <2>2. p \in En("blocked")
    BY <1>1, EstadoEnLista
  <2>3. PasaDe(p, "blocked", "exit")
    BY <1>1, <1>t, <2>1, <2>2, EstMover
  <2>4. Est'[p] = "exit" /\ \A q \in Pid : q # p => Est'[q] = Est[q]
    BY <2>3, PasaDeEst
  <2>. QED BY <1>1, <1>t, <2>1, <2>4, ColasQuietas DEF PasoQuieto, SigueIgual
<1>5. CASE AtenderWait(p)
  <2> DEFINE s == nombreSemaforo[p]
  <2>1. /\ s \in Semaforo /\ TomarODormir(p, s) /\ SalirSiPuede(p)
        /\ exitCode[p] \notin {"TERMINO_ESPERA", "ESPERANDO_SEMAFORO"}
    BY <1>5 DEF AtenderWait, PorAtender
  <2>2. CASE valor[s] > 0
    <3>1. pilaEspera[s] = <<>>
      BY <2>1, <2>2, <1>t DEF SinUnidadOciosa, TypeOK
    <3>2. Append(pilaEspera[s], p) = <<p>> /\ Head(<<p>>) = p /\ Tail(<<p>>) = <<>>
      BY <3>1
    <3>. HIDE DEF s
    <3>3. /\ exitCode' = [exitCode EXCEPT ![p] = "ESPERANDO_SEMAFORO", ![p] = "CORRECTO"]
          /\ pilaEspera' = [pilaEspera EXCEPT ![s] = <<>>]
      BY <2>1, <2>2, <3>2 DEF TomarODormir
    <3>4. exitCode'[p] = "CORRECTO" /\ \A q \in Pid : q # p => exitCode'[q] = exitCode[q]
      BY <1>t, <3>3 DEF TypeOK
    <3>5. pilaEspera' = pilaEspera
      BY <1>t, <2>1, <3>1, <3>3 DEF TypeOK
    <3>6. PasaDe(p, "blocked", "ready")
      BY <1>1, <2>1, <3>4 DEF SalirSiPuede
    <3>7. SigueDespierto(p) /\ \A q \in Pid : q # p => Est'[q] = Est[q]
      BY <2>1, <3>4, <3>6, PasaDeEst DEF SigueDespierto, Dormido
    <3>. QED BY <1>1, <1>t, <3>4, <3>5, <3>7, ColasQuietas DEF PasoQuieto, SigueIgual
  <2>3. CASE ~(valor[s] > 0)
    <3>. HIDE DEF s
    <3>1. /\ pilaEspera' = [pilaEspera EXCEPT ![s] = Append(pilaEspera[s], p)]
          /\ exitCode' = [exitCode EXCEPT ![p] = "ESPERANDO_SEMAFORO"]
      BY <2>1, <2>3 DEF TomarODormir
    <3>2. Est' = Est
      BY <1>1, <1>t, <2>1, <3>1 DEF SalirSiPuede, TypeOK
    <3>3. nombreSemaforo[p] = s /\ ~Dormido(p)
      BY <2>1 DEF s, Dormido
    <3>. QED BY <1>1, <1>t, <2>1, <3>1, <3>2, <3>3, ColasTrasDormir
  <2>. QED BY <2>2, <2>3
<1>6. CASE AtenderWaitDesconocido(p)
  <2>1. /\ Est' = Est /\ UNCHANGED pilaEspera /\ nombreSemaforo[p] \notin Semaforo
        /\ exitCode[p] \notin {"TERMINO_ESPERA", "ESPERANDO_SEMAFORO"}
        /\ \A q \in Pid : q # p => exitCode'[q] = exitCode[q]
    BY <1>1, <1>6, <1>t DEF AtenderWaitDesconocido, PorAtender, semaforos, TypeOK
  <2>2. SigueDespierto(p)
    BY <1>1, <2>1 DEF SigueDespierto, Dormido
  <2>. QED BY <1>1, <1>t, <2>1, <2>2, ColasQuietas DEF PasoQuieto, SigueIgual
<1>. QED BY <1>2, <1>3, <1>4, <1>5, <1>6

(* No step of the system breaks what is known of the queues.               *)
LEMMA ColasNext ==
  ASSUME InvTipo, UnicaLista, InvVuelo, InvColas, SinUnidadOciosa, [Next]_vars
  PROVE  InvColas'
<1>t. TypeOK /\ TipoKernel /\ TipoListas
  BY DEF InvTipo, TipoKernel, TypeOK, TipoListas
<1>1. CASE PasoDeKernel
  <2>0. NextKernel /\ UNCHANGED procesador
    BY <1>1 DEF PasoDeKernel
  <2>1. CASE PasoSinListas
    BY <1>t, <2>1, EstSinListas, ColasQuietas DEF PasoQuieto, SigueIgual, pcbs, semaforos
  <2>2. ASSUME NEW c \in Cpu, AtenderCpu(c) PROVE InvColas'
    BY <2>0, <2>2, ColasAtenderCpu
  <2>3. ASSUME NEW p \in Pid,
               \/ PasarBloqueado(p) \/ AtenderES(p) \/ AtenderESConError(p)
               \/ AtenderWait(p) \/ AtenderWaitDesconocido(p)
        PROVE  InvColas'
    BY <2>3, ColasBloqueado
  <2>4. CASE NuevoPrograma
    <3>1. numeroPid \in Pid /\ PasaDe(numeroPid, "inexistente", "new")
      BY <1>t, <2>4, EstNuevoPrograma
    <3>2. /\ Est[numeroPid] = "inexistente" /\ Est'[numeroPid] = "new"
          /\ \A q \in Pid : q # numeroPid => Est'[q] = Est[q]
      BY <3>1, PasaDeEst
    <3>3. /\ exitCode'[numeroPid] = "CORRECTO" /\ UNCHANGED <<nombreSemaforo, pilaEspera>>
          /\ \A q \in Pid : q # numeroPid => exitCode'[q] = exitCode[q]
      BY <1>t, <2>4, <3>1 DEF NuevoPrograma, semaforos, TypeOK
    <3>4. SigueDespierto(numeroPid)
      BY <3>2, <3>3 DEF SigueDespierto, Dormido
    <3>. QED BY <1>t, <3>2, <3>3, <3>4, ColasQuietas DEF PasoQuieto, SigueIgual
  <2>5. ASSUME NEW p \in Pid, AtenderPrograma(p) PROVE InvColas'
    <3>1. /\ FinalizarPrograma(p, "COMANDO_FINALIZAR") /\ numeroPid' = numeroPid
          /\ UNCHANGED <<nombreSemaforo, pilaEspera>>
      BY <2>5 DEF AtenderPrograma, semaforos
    <3>2. \/ PasaDe(p, Est[p], "exit") /\ exitCode' = [exitCode EXCEPT ![p] = "COMANDO_FINALIZAR"]
          \/ Est' = Est /\ UNCHANGED exitCode
      BY <1>t, <3>1, EstFinalizar
    <3>3. CASE Est' = Est /\ UNCHANGED exitCode
      BY <1>t, <3>1, <3>3, ColasQuietas DEF PasoQuieto, SigueIgual
    <3>4. CASE /\ PasaDe(p, Est[p], "exit")
               /\ exitCode' = [exitCode EXCEPT ![p] = "COMANDO_FINALIZAR"]
      <4>1. /\ Est'[p] = "exit" /\ \A q \in Pid : q # p => Est'[q] = Est[q]
            /\ \A q \in Pid : q # p => exitCode'[q] = exitCode[q]
        BY <1>t, <3>4, PasaDeEst DEF TypeOK
      <4>. QED BY <1>t, <3>1, <4>1, ColasQuietas DEF PasoQuieto, SigueIgual
    <3>. QED BY <3>2, <3>3, <3>4
  <2>6. CASE AdmitirNuevo \/ \E c \in Cpu : EnviarProcesoACpu(c)
    <3>1. PICK p \in Pid : PasaDe(p, "new", "ready") \/ PasaDe(p, "ready", "exec")
      BY <1>t, <2>6, EstAdmitirNuevo, EstEnviarProceso
    <3>2. UNCHANGED <<exitCode, nombreSemaforo, pilaEspera>>
      BY <2>6 DEF AdmitirNuevo, EnviarProcesoACpu, pcbs, semaforos
    <3>3. /\ Est[p] \in {"new", "ready"} /\ Est'[p] \in {"ready", "exec"}
          /\ \A q \in Pid : q # p => Est'[q] = Est[q]
      BY <3>1, PasaDeEst
    <3>4. SigueDespierto(p)
      BY <3>2, <3>3 DEF SigueDespierto, Dormido, InvColas, SinMarca
    <3>. QED BY <1>t, <3>2, <3>3, <3>4, ColasQuietas DEF PasoQuieto, SigueIgual
  <2>. QED BY <2>0, <2>1, <2>2, <2>3, <2>4, <2>5, <2>6 DEF NextKernel, PasoSinListas
<1>2. CASE ~PasoDeKernel
  <2>1. UNCHANGED kernel
    BY <1>2, PasoAjeno
  <2>2. Est' = Est /\ UNCHANGED <<exitCode, nombreSemaforo, pilaEspera>>
    BY <2>1, EstSinMover DEF kernel, pcbs, semaforos
  <2>. QED BY <1>t, <2>2, ColasQuietas DEF PasoQuieto, SigueIgual
<1>. QED BY <1>1, <1>2

(* The queues hold always who must wake, whatever is killed or fails.      *)
LEMMA InvColasSiempre == Spec => []InvColas
<1>1. Init => InvColas
  <2>. SUFFICES ASSUME Init PROVE InvColas
    OBVIOUS
  <2>1. /\ numeroPid = 1 /\ exitCode = [p \in Pid |-> "CORRECTO"]
        /\ \A s \in Semaforo : DOMAIN pilaEspera[s] = {}
    BY DEF Init, InitKernel
  <2>2. \A p \in Pid : exitCode[p] = "CORRECTO" /\ ~Dormido(p)
    BY <2>1 DEF Dormido
  <2>. QED BY <2>1, <2>2 DEF InvColas, ColasBien, DormidosEncolados, DormidosUnaVez, SinMarca
<1>2. InvTipo /\ UnicaLista /\ InvVuelo /\ InvColas /\ SinUnidadOciosa /\ [Next]_vars => InvColas'
  BY ColasNext
<1>. QED BY <1>1, <1>2, InvTipoInductivo, SiempreEnUnaLista, MensajesDeQuienEjecuta,
            NuncaUnidadOciosa, PTL DEF Spec

(* The queues, in the words of Sistema: nobody who is READY or running is  *)
(* in the queue of a semaphore, a process that sleeps is in its own, once, *)
(* and one that can run has no mark left.  This holds although processes   *)
(* are killed while they sleep, files fail and CPUs go away.               *)
THEOREM NadieQueCorreEnCola == Spec => []ColaDeDormidosOMuertos
<1>1. InvTipo /\ UnicaLista /\ InvColas => ColaDeDormidosOMuertos
  <2>. SUFFICES ASSUME InvTipo, UnicaLista, InvColas,
                       NEW s \in Semaforo, NEW p \in ToSet(pilaEspera[s])
                PROVE  p \in En("exit") \/ (Espera(p) /\ nombreSemaforo[p] = s)
    BY DEF ColaDeDormidosOMuertos
  <2>1. p \in Pid /\ \E k \in DOMAIN pilaEspera[s] : pilaEspera[s][k] = p
    BY DEF ToSet, InvTipo, TipoKernel, TypeOK
  <2>2. Est[p] = "exit" \/ (Dormido(p) /\ nombreSemaforo[p] = s)
    BY <2>1 DEF InvColas, ColasBien
  <2>. QED BY <2>1, <2>2, EstadoEnLista DEF Dormido, Espera
<1>. QED BY <1>1, InvTipoInductivo, SiempreEnUnaLista, InvColasSiempre, PTL

(* A process that sleeps can be woken.                                     *)
THEOREM DormidoSiempreEnCola == Spec => []DormidoEnCola
<1>1. InvTipo /\ UnicaLista /\ InvColas => DormidoEnCola
  <2>. SUFFICES ASSUME InvTipo, UnicaLista, InvColas,
                       NEW p \in Pid, Espera(p), nombreSemaforo[p] \in Semaforo
                PROVE  /\ \E k \in DOMAIN pilaEspera[nombreSemaforo[p]] :
                            pilaEspera[nombreSemaforo[p]][k] = p
                       /\ \A s \in Semaforo : \A j, k \in DOMAIN pilaEspera[s] :
                            pilaEspera[s][j] = p /\ pilaEspera[s][k] = p =>
                              s = nombreSemaforo[p] /\ j = k
    BY DEF DormidoEnCola
  <2>1. Dormido(p)
    BY EstadoEnLista DEF Espera, Dormido
  <2>. QED BY <2>1 DEF InvColas, DormidosEncolados, DormidosUnaVez, ColasBien, Dormido
<1>. QED BY <1>1, InvTipoInductivo, SiempreEnUnaLista, InvColasSiempre, PTL

(* A process that can run carries no mark of a semaphore.                  *)
THEOREM ListoSiempreSinMarca == Spec => []ListoSinMarca
<1>1. InvTipo /\ UnicaLista /\ InvColas => ListoSinMarca
  <2>. SUFFICES ASSUME InvTipo, UnicaLista, InvColas,
                       NEW e \in {"new", "ready", "exec"}, NEW p \in En(e)
                PROVE  exitCode[p] = "CORRECTO"
    BY DEF ListoSinMarca
  <2>1. p \in Pid
    BY DEF En, ToSet, InvTipo, TipoKernel, TypeOK
  <2>. QED BY <2>1, EstadoEnLista DEF InvColas, SinMarca
<1>. QED BY <1>1, InvTipoInductivo, SiempreEnUnaLista, InvColasSiempre, PTL
-----------------------------------------------------------------------------
(* Without processes that are killed, no dead one is in a queue either.    *)

(* Nobody has asked for the end of a process.                              *)
SinPedidos ==
  /\ \A p \in Pid : pedido[p] \notin {"finalizar", "cierre"}
  /\ readfds.programas = {}

ColasDeVivos ==
  \A s \in Semaforo, p \in Pid : \A k \in DOMAIN pilaEspera[s] :
    pilaEspera[s][k] = p => Est[p] # "exit"

(* Nobody asks while the environment kills nobody.                         *)
LEMMA SinPedidosNext ==
  ASSUME {"matar", "matar_new"} \cap Eventos = {}, TypeOK, SinPedidos, [Next]_vars
  PROVE  SinPedidos' /\ \A p \in Pid : ~AtenderPrograma(p)
<1>1. \A p \in Pid : ~AtenderPrograma(p)
  BY DEF SinPedidos, AtenderPrograma
<1>2. CASE PasoDeKernel
  <2>1. ASSUME NEW c \in Cpu, AtenderCpu(c) PROVE UNCHANGED <<pedido, readfds>>
    BY <2>1 DEF AtenderCpu, Recibir
  <2>2. pedido' = pedido
    BY <1>1, <1>2, <2>1
       DEF PasoDeKernel, NextKernel, Select, FinDeEventos, PasarNuevo, PasarCpu,
           FinBloqueados, FinNuevos, FinDespacho, FinDeLazo, NuevoCpu, DesconexionCpu,
           NuevoPrograma, PasarBloqueado, AtenderES, AtenderESConError, AtenderWait,
           AtenderWaitDesconocido, PorAtender, EnBloqueado, AdmitirNuevo, EnviarProcesoACpu,
           canales
  <2>3. readfds'.programas = {}
    <3>1. CASE Select
      <4>1. \A p \in 1..(numeroPid - 1) : p \in Pid
        BY ConstantesCanales DEF TypeOK, Pid
      <4>. QED BY <3>1, <4>1 DEF Select, Legibles, SinPedidos
    <3>2. CASE NuevoPrograma \/ \E c \in Cpu : NuevoCpu(c)
      BY <3>2 DEF NuevoPrograma, NuevoCpu, SinPedidos, TypeOK
    <3>3. CASE FinDeEventos
      BY <3>3 DEF FinDeEventos, Nada
    <3>4. CASE UNCHANGED readfds
      BY <3>4 DEF SinPedidos
    <3>. QED BY <1>1, <1>2, <2>1, <3>1, <3>2, <3>3, <3>4
             DEF PasoDeKernel, NextKernel, PasarNuevo, PasarCpu, FinBloqueados, FinNuevos,
                 FinDespacho, FinDeLazo, DesconexionCpu, PasarBloqueado, AtenderES,
                 AtenderESConError, AtenderWait, AtenderWaitDesconocido, PorAtender,
                 EnBloqueado, AdmitirNuevo, EnviarProcesoACpu
  <2>. QED BY <1>1, <2>2, <2>3 DEF SinPedidos
<1>3. CASE ~PasoDeKernel
  <2>1. UNCHANGED readfds
    BY <1>3, PasoAjeno DEF kernel, control
  <2>2. pedido' = pedido
    BY <1>3 DEF Next, Consola, PuedeMatar, IniciarPrograma, TrabajoDeCpu, SucesoDeCpu,
                RecibirContexto, RecibirOtraCosa, Pedir, RecibirRespuesta,
                RecibirRespuestaInesperada, FinDeRafaga, MoverCursor, Conectar, Sigusr1,
                CaerCpu, vars, canales
  <2>. QED BY <1>1, <2>1, <2>2 DEF SinPedidos
<1>. QED BY <1>2, <1>3

(* While nobody is killed, who ends was running, or was being served.      *)
LEMMA FinDeDespierto ==
  ASSUME InvTipo, UnicaLista, InvVuelo, [Next]_vars, \A p \in Pid : ~AtenderPrograma(p)
  PROVE  \A p \in Pid : Est'[p] = "exit" => Est[p] \in {"exec", "exit"} \/ (Est[p] = "blocked" /\ ~Dormido(p))
<1>t. TypeOK /\ Colas /\ TipoKernel /\ TipoListas
  BY DEF InvTipo, TipoKernel, TypeOK, TypeOKCanales, Colas, TipoListas
<1>1. CASE Est' = Est
  BY <1>1
<1>2. ASSUME NEW c \in Cpu, AtenderCpu(c), UNCHANGED procesador
      PROVE  \A p \in Pid : Est'[p] = "exit" => Est[p] \in {"exec", "exit"}
  <2>1. PICK m \in ToSet(aKernel[c]) : LeeElKernel(c, m) /\ m = aKernel[c][1]
    BY <1>2, <1>t, AtenderCpuLee
  <2>. QED BY <1>t, <2>1, MensajeVigente DEF LeeElKernel
<1>3. ASSUME NEW p \in Pid, AtenderESConError(p)
      PROVE  Est[p] = "blocked" /\ ~Dormido(p) /\ \A q \in Pid : q # p => Est'[q] = Est[q]
  <2>1. /\ EnBloqueado(p) /\ Mover("blocked", p, "exit")
        /\ exitCode[p] # "ESPERANDO_SEMAFORO"
    BY <1>3 DEF AtenderESConError, FinalizarProgramaConError, PorAtender
  <2>2. Est[p] = "blocked" /\ numeroPid' = numeroPid /\ p \in En("blocked")
    BY <1>t, <2>1, EstEnBloqueado, EstadoEnLista
  <2>. QED BY <1>t, <2>1, <2>2, EstMover, PasaDeEst DEF Dormido
<1>4. ASSUME NEW p \in Pid,
             \/ PasarBloqueado(p) \/ AtenderES(p) \/ AtenderWait(p) \/ AtenderWaitDesconocido(p)
      PROVE  Est' = Est \/ PasaDe(p, "blocked", "ready")
  <2>1. EnBloqueado(p) /\ (UNCHANGED listas \/ ABlockedReady)
    BY <1>4 DEF PasarBloqueado, AtenderES, AtenderWait, AtenderWaitDesconocido, SalirSiPuede,
                PorAtender
  <2>. QED BY <1>t, <2>1, EstEnBloqueado
<1>5. ASSUME NEW p \in Pid, NEW e, NEW d \in {"new", "ready", "exec"}, PasaDe(p, e, d)
      PROVE  \A q \in Pid : Est'[q] = "exit" => Est[q] = "exit"
  BY <1>5, PasaDeEst
<1>6. CASE PasoDeKernel
  <2>1. NextKernel /\ UNCHANGED procesador
    BY <1>6 DEF PasoDeKernel
  <2>2. CASE PasoSinListas
    BY <1>1, <2>2, EstSinListas
  <2>3. CASE NuevoPrograma
    BY <1>t, <1>5, <2>3, EstNuevoPrograma
  <2>4. CASE AdmitirNuevo \/ \E c \in Cpu : EnviarProcesoACpu(c)
    BY <1>t, <1>5, <2>4, EstAdmitirNuevo, EstEnviarProceso
  <2>5. CASE \E c \in Cpu : AtenderCpu(c)
    BY <1>2, <2>1, <2>5
  <2>6. CASE \E p \in Pid : PasarBloqueado(p) \/ AtenderES(p) \/ AtenderESConError(p)
                            \/ AtenderWait(p) \/ AtenderWaitDesconocido(p)
    BY <1>1, <1>3, <1>4, <1>5, <2>6
  <2>. QED BY <2>1, <2>2, <2>3, <2>4, <2>5, <2>6 DEF NextKernel, PasoSinListas
<1>7. CASE ~PasoDeKernel
  <2>1. UNCHANGED kernel
    BY <1>7, PasoAjeno
  <2>. QED BY <1>1, <2>1, EstSinMover DEF kernel, pcbs
<1>. QED BY <1>6, <1>7

(* A queue gains nobody but a blocked process.                             *)
LEMMA ColaCrece ==
  ASSUME InvTipo, UnicaLista, SinUnidadOciosa, InvVuelo, [Next]_vars
  PROVE  \A s \in Semaforo, p \in Pid : \A k \in DOMAIN pilaEspera'[s] : pilaEspera'[s][k] = p =>
           (\E i \in DOMAIN pilaEspera[s] : pilaEspera[s][i] = p) \/ Est'[p] # "exit"
<1>t. TypeOK /\ Colas /\ TipoKernel /\ TipoListas
  BY DEF InvTipo, TipoKernel, TypeOK, TypeOKCanales, Colas, TipoListas
<1>1. CASE UNCHANGED pilaEspera
  BY <1>1
<1>2. ASSUME NEW c \in Cpu, AtenderCpu(c), UNCHANGED procesador, ~UNCHANGED pilaEspera
      PROVE  \A s \in Semaforo, p \in Pid : \A k \in DOMAIN pilaEspera'[s] :
               pilaEspera'[s][k] = p => \E i \in DOMAIN pilaEspera[s] : pilaEspera[s][i] = p
  <2>1. PICK m \in ToSet(aKernel[c]) : Trata(c, m) /\ LeeElKernel(c, m) /\ m = aKernel[c][1]
    BY <1>2, <1>t, AtenderCpuLee
  <2>2. Signal(c, m)
    BY <1>2, <2>1 DEF Trata, FinalizoEjecucion, FinalizoConError, FinalizoQuantum,
                      PidioArchivo, Wait, Consulta, AlocarBien, AlocarMal, semaforos
  <2> DEFINE x == m.sem
  <2>3. x \in Semaforo /\ DespertarOSumar(x)
    BY <1>t, <2>1, <2>2, MensajeVigente DEF Signal
  <2>. HIDE DEF x
  <2>4. pilaEspera[x] # <<>> /\ pilaEspera' = [pilaEspera EXCEPT ![x] = Tail(@)]
    BY <1>2, <2>3 DEF DespertarOSumar
  <2>5. /\ \A s \in Semaforo : s # x => pilaEspera'[s] = pilaEspera[s]
        /\ pilaEspera'[x] = Tail(pilaEspera[x]) /\ pilaEspera[x] \in Seq(Pid)
    BY <1>t, <2>3, <2>4 DEF TypeOK
  <2>6. \A k \in DOMAIN Tail(pilaEspera[x]) :
          k + 1 \in DOMAIN pilaEspera[x] /\ Tail(pilaEspera[x])[k] = pilaEspera[x][k + 1]
    BY <2>4, <2>5, ColaTrasLeer
  <2>. QED BY <2>5, <2>6
<1>3. ASSUME NEW q \in Pid, AtenderWait(q)
      PROVE  \A s \in Semaforo, p \in Pid : \A k \in DOMAIN pilaEspera'[s] : pilaEspera'[s][k] = p =>
               (\E i \in DOMAIN pilaEspera[s] : pilaEspera[s][i] = p) \/ Est'[p] # "exit"
  <2> DEFINE x == nombreSemaforo[q]
  <2>1. EnBloqueado(q) /\ x \in Semaforo /\ TomarODormir(q, x) /\ SalirSiPuede(q)
    BY <1>3 DEF AtenderWait, PorAtender
  <2>2. Est'[q] # "exit"
    BY <1>t, <2>1, EstEnBloqueado, PasaDeEst DEF SalirSiPuede
  <2>. HIDE DEF x
  <2>3. pilaEspera[x] \in Seq(Pid) /\ \A k \in DOMAIN pilaEspera[x] : pilaEspera[x][k] \in Pid
    BY <1>t, <2>1 DEF TypeOK
  <2>4. CASE valor[x] > 0
    <3>1. pilaEspera[x] = <<>> /\ Tail(Append(<<>>, q)) = <<>>
      BY <1>t, <2>1, <2>4 DEF SinUnidadOciosa, TypeOK
    <3>2. pilaEspera' = [pilaEspera EXCEPT ![x] = <<>>]
      BY <2>1, <2>4, <3>1 DEF TomarODormir
    <3>. QED BY <1>t, <3>1, <3>2 DEF TypeOK
  <2>5. CASE ~(valor[x] > 0)
    <3>1. pilaEspera' = [pilaEspera EXCEPT ![x] = Append(pilaEspera[x], q)]
      BY <2>1, <2>5 DEF TomarODormir
    <3>2. /\ \A s \in Semaforo : s # x => pilaEspera'[s] = pilaEspera[s]
          /\ pilaEspera'[x] = Append(pilaEspera[x], q)
      BY <1>t, <2>1, <3>1 DEF TypeOK
    <3>. QED BY <2>2, <2>3, <3>2, ColaTrasEnviar
  <2>. QED BY <2>4, <2>5
<1>4. CASE PasoDeKernel
  <2>1. UNCHANGED pilaEspera \/ (\E c \in Cpu : AtenderCpu(c)) \/ \E q \in Pid : AtenderWait(q)
    BY <1>4 DEF PasoDeKernel, NextKernel, Select, FinDeEventos, PasarNuevo, PasarCpu,
                FinBloqueados, FinNuevos, FinDespacho, FinDeLazo, NuevoCpu, DesconexionCpu,
                NuevoPrograma, PasarBloqueado, AtenderES, AtenderESConError,
                AtenderWaitDesconocido, AdmitirNuevo, EnviarProcesoACpu,
                AtenderPrograma, semaforos
  <2>. QED BY <1>1, <1>2, <1>3, <1>4, <2>1 DEF PasoDeKernel
<1>5. CASE ~PasoDeKernel
  BY <1>1, <1>5, PasoAjeno DEF kernel, semaforos
<1>. QED BY <1>4, <1>5

(* A SIGNAL is never spent on a process that cannot use it, while no       *)
(* console ends a program: with a FINALIZAR the queue keeps the dead, as   *)
(* ColaDeDormidosOMuertos says.                                            *)
THEOREM NingunaSenialPerdida ==
  ASSUME {"matar", "matar_new"} \cap Eventos = {}
  PROVE  Spec => []ColaDeDormidos
<1>1. Init => SinPedidos /\ ColasDeVivos
  BY DEF Init, InitKernel, InitCanales, SinPedidos, ColasDeVivos, Nada
<1>2. /\ InvTipo /\ UnicaLista /\ InvVuelo /\ InvColas /\ SinUnidadOciosa
      /\ SinPedidos /\ ColasDeVivos /\ [Next]_vars
      => SinPedidos' /\ ColasDeVivos'
  <2>. SUFFICES ASSUME InvTipo, UnicaLista, InvVuelo, InvColas, SinUnidadOciosa,
                       SinPedidos, ColasDeVivos, [Next]_vars
                PROVE  SinPedidos' /\ ColasDeVivos'
    OBVIOUS
  <2>1. SinPedidos' /\ \A p \in Pid : ~AtenderPrograma(p)
    BY SinPedidosNext DEF InvTipo, TipoKernel
  <2>2. ASSUME NEW s \in Semaforo, NEW p \in Pid, NEW i \in DOMAIN pilaEspera[s],
               pilaEspera[s][i] = p
        PROVE  Est'[p] # "exit"
    <3>1. Dormido(p)
      BY <2>2 DEF InvColas, ColasBien, ColasDeVivos
    <3>. QED BY <2>1, <3>1, FinDeDespierto DEF Dormido
  <2>3. ColasDeVivos'
    BY <2>2, ColaCrece DEF ColasDeVivos
  <2>. QED BY <2>1, <2>3
<1>3. InvTipo /\ UnicaLista /\ InvColas /\ ColasDeVivos => ColaDeDormidos
  <2>. SUFFICES ASSUME InvTipo, UnicaLista, InvColas, ColasDeVivos,
                       NEW s \in Semaforo, NEW p \in ToSet(pilaEspera[s])
                PROVE  Espera(p) /\ nombreSemaforo[p] = s
    BY DEF ColaDeDormidos
  <2>1. p \in Pid /\ \E k \in DOMAIN pilaEspera[s] : pilaEspera[s][k] = p
    BY DEF ToSet, InvTipo, TipoKernel, TypeOK
  <2>2. Dormido(p) /\ nombreSemaforo[p] = s
    BY <2>1 DEF InvColas, ColasBien, ColasDeVivos
  <2>. QED BY <2>1, <2>2, EstadoEnLista DEF Dormido, Espera
<1>. QED BY <1>1, <1>2, <1>3, InvTipoInductivo, SiempreEnUnaLista, MensajesDeQuienEjecuta,
            NuncaUnidadOciosa, InvColasSiempre, PTL DEF Spec
-----------------------------------------------------------------------------
(* The life cycle: each step of the system is one of CicloDeVida, on the   *)
(* states and on the codes that the consoles have been told.               *)
Flechas == {<<"inexistente", "new">>, <<"new", "ready">>, <<"ready", "exec">>,
            <<"exec", "ready">>, <<"exec", "blocked">>, <<"blocked", "ready">>}

(* What the step from NEW to READY does besides, and no other.             *)
Ingresa(p) ==
  /\ Cupo
  /\ ReservarMemoriaParaProceso(p)
  /\ procesosEnSistema' = (procesosEnSistema + 1) % Modulo

Muda(p) ==
  /\ \E f \in Flechas : PasaDe(p, f[1], f[2])
  /\ IF Est[p] = "new" THEN Ingresa(p) ELSE UNCHANGED <<procesosEnSistema, conPaginas>>
  /\ UNCHANGED aviso

Muere(p) ==
  /\ Est[p] \in Vivo /\ PasaDe(p, Est[p], "exit")
  /\ \E codigo \in CodigosFinales : LiberarRecursos(p, codigo)
  /\ Est[p] = "new" => AtenderPrograma(p)

Aloca == \E c \in Cpu : \E m \in ToSet(aKernel[c]) : Recibir(c, m) /\ AlocarBien(c, m)

NoMuda == UNCHANGED <<Est, aviso, procesosEnSistema>> /\ (UNCHANGED conPaginas \/ Aloca)

PasoDelCiclo == NoMuda \/ \E p \in Pid : Muda(p) \/ Muere(p)

(* A handler of the messages of the CPUs.                                  *)
LEMMA CicloAtenderCpu ==
  ASSUME InvTipo, UnicaLista, InvVuelo, InvColas, NEW c \in Cpu, AtenderCpu(c),
         UNCHANGED procesador
  PROVE  PasoDelCiclo
<1>t. TypeOK /\ Colas /\ TipoKernel /\ TipoListas
  BY DEF InvTipo, TipoKernel, TypeOK, TypeOKCanales, Colas, TipoListas
<1>1. PICK m \in ToSet(aKernel[c]) :
        Recibir(c, m) /\ Trata(c, m) /\ LeeElKernel(c, m) /\ m = aKernel[c][1]
  BY <1>t, AtenderCpuLee
<1> DEFINE p == m.pid
<1>2. p \in Pid /\ numeroPid' = numeroPid /\ Est[p] \in {"exec", "exit"}
  BY <1>1, <1>t, MensajeVigente DEF Recibir
<1>3. CASE FinalizoEjecucion(c, m) \/ FinalizoConError(c, m)
  <2>1. /\ MoverProgramaDeExecAExit(p)
        /\ Est[p] = "exec" => exitCode'[p] \in CodigosFinales
    <3>1. CASE FinalizoEjecucion(c, m)
      BY <1>2, <3>1 DEF FinalizoEjecucion, InvColas, SinMarca, CodigosFinales
    <3>2. CASE FinalizoConError(c, m)
      <4>1. exitCode'[p] \in {"STACKOVERFLOW", "EXCEPCION_MEMORIA"}
        BY <1>2, <1>t, <3>2 DEF FinalizoConError, TypeOK
      <4>. QED BY <3>2, <4>1 DEF FinalizoConError, CodigosFinales
    <3>. QED BY <1>3, <3>1, <3>2
  <2>. HIDE DEF p
  <2>2. \/ PasaDe(p, "exec", "exit") /\ LiberarRecursos(p, exitCode'[p])
        \/ Est[p] # "exec" /\ Est' = Est /\ ConservaRecursos
    BY <1>2, <1>t, <2>1, EstExecAExit
  <2>3. CASE PasaDe(p, "exec", "exit") /\ LiberarRecursos(p, exitCode'[p])
    <3>1. Est[p] = "exec" /\ Est[p] \in Vivo
      BY <2>3 DEF PasaDe, Vivo
    <3>2. Muere(p)
      BY <2>1, <2>3, <3>1 DEF Muere
    <3>. QED BY <1>2, <3>2 DEF PasoDelCiclo
  <2>. QED BY <2>2, <2>3 DEF PasoDelCiclo, NoMuda, ConservaRecursos
<1>4. CASE FinalizoQuantum(c, m) \/ PidioArchivo(c, m) \/ Wait(c, m)
  <2>1. (MoverDeExec(p, "ready") \/ MoverDeExec(p, "blocked")) /\ ConservaRecursos
    BY <1>4 DEF FinalizoQuantum, PidioArchivo, Wait
  <2>. HIDE DEF p
  <2>2. PasaDe(p, "exec", "ready") \/ PasaDe(p, "exec", "blocked") \/ Est' = Est
    BY <1>2, <1>t, <2>1, EstMoverDeExec
  <2>3. ASSUME NEW d \in {"ready", "blocked"}, PasaDe(p, "exec", d) PROVE Muda(p)
    <3>1. Est[p] = "exec"
      BY <2>3 DEF PasaDe
    <3>. QED BY <2>1, <2>3, <3>1 DEF Muda, Flechas, ConservaRecursos
  <2>. QED BY <1>2, <2>1, <2>2, <2>3 DEF PasoDelCiclo, NoMuda, ConservaRecursos
<1>5. CASE Signal(c, m) \/ Consulta(c, m) \/ AlocarBien(c, m)
  <2>1. UNCHANGED <<listas, aviso, procesosEnSistema>> /\ (UNCHANGED conPaginas \/ AlocarBien(c, m))
    BY <1>5 DEF Signal, Consulta, AlocarBien, ConservaRecursos
  <2>2. UNCHANGED conPaginas \/ Aloca
    BY <1>1, <2>1 DEF Aloca
  <2>. HIDE DEF p
  <2>. QED BY <1>2, <2>1, <2>2, EstSinMover DEF PasoDelCiclo, NoMuda
<1>6. CASE AlocarMal(c, m)
  <2>1. FinalizarPrograma(p, "LIMITE_PAGINA") /\ "LIMITE_PAGINA" \in CodigosFinales
    BY <1>6 DEF AlocarMal, CodigosFinales
  <2>. HIDE DEF p
  <2>. QED BY <1>2, <1>t, <2>1, EstFinalizar
           DEF PasoDelCiclo, Muere, NoMuda, ConservaRecursos
<1>. QED BY <1>1, <1>3, <1>4, <1>5, <1>6 DEF Trata

(* Every step.                                                             *)
LEMMA CicloNext ==
  ASSUME InvTipo, UnicaLista, InvVuelo, InvColas, [Next]_vars
  PROVE  PasoDelCiclo
<1>t. TypeOK /\ TipoKernel /\ TipoListas
  BY DEF InvTipo, TipoKernel, TypeOK, TipoListas
<1>1. CASE PasoDeKernel
  <2>0. NextKernel /\ UNCHANGED procesador
    BY <1>1 DEF PasoDeKernel
  <2>1. CASE PasoSinListas
    BY <2>1, EstSinListas DEF PasoDelCiclo, NoMuda
  <2>2. ASSUME NEW c \in Cpu, AtenderCpu(c) PROVE PasoDelCiclo
    BY <2>0, <2>2, CicloAtenderCpu
  <2>3. ASSUME NEW p \in Pid,
               \/ PasarBloqueado(p) \/ AtenderES(p) \/ AtenderESConError(p)
               \/ AtenderWait(p) \/ AtenderWaitDesconocido(p)
        PROVE  PasoDelCiclo
    <3>1. EnBloqueado(p)
      BY <2>3 DEF PasarBloqueado, AtenderES, AtenderESConError, AtenderWait,
                  AtenderWaitDesconocido, PorAtender
    <3>2. /\ Est[p] = "blocked" /\ numeroPid' = numeroPid /\ p \in En("blocked")
          /\ UNCHANGED listas => Est' = Est
          /\ ABlockedReady => PasaDe(p, "blocked", "ready")
      BY <1>t, <3>1, EstEnBloqueado, EstadoEnLista
    <3>3. CASE AtenderESConError(p)
      <4>1. Mover("blocked", p, "exit") /\ LiberarRecursos(p, "ERROR_ES")
        BY <3>3 DEF AtenderESConError, FinalizarProgramaConError
      <4>2. PasaDe(p, "blocked", "exit")
        BY <1>t, <3>2, <4>1, EstMover
      <4>3. Muere(p)
        BY <3>2, <4>1, <4>2 DEF Muere, CodigosFinales, Vivo
      <4>. QED BY <4>3 DEF PasoDelCiclo
    <3>4. CASE ~AtenderESConError(p)
      <4>1. (UNCHANGED listas \/ ABlockedReady) /\ ConservaRecursos
        BY <2>3, <3>4 DEF PasarBloqueado, AtenderES, AtenderWait, AtenderWaitDesconocido,
                          SalirSiPuede, ABlockedReady
      <4>2. CASE UNCHANGED listas
        BY <3>2, <4>1, <4>2 DEF PasoDelCiclo, NoMuda, ConservaRecursos
      <4>3. CASE ABlockedReady
        <5>1. Muda(p)
          BY <3>2, <4>1, <4>3 DEF Muda, Flechas, ConservaRecursos
        <5>. QED BY <5>1 DEF PasoDelCiclo
      <4>. QED BY <4>1, <4>2, <4>3
    <3>. QED BY <3>3, <3>4
  <2>4. CASE NuevoPrograma
    <3>1. /\ numeroPid \in Pid /\ PasaDe(numeroPid, "inexistente", "new")
          /\ UNCHANGED <<aviso, procesosEnSistema, conPaginas>>
      BY <1>t, <2>4, EstNuevoPrograma DEF NuevoPrograma
    <3>2. Muda(numeroPid)
      BY <3>1 DEF Muda, Flechas, PasaDe
    <3>. QED BY <3>1, <3>2 DEF PasoDelCiclo
  <2>5. ASSUME NEW p \in Pid, AtenderPrograma(p) PROVE PasoDelCiclo
    <3>1. /\ FinalizarPrograma(p, "COMANDO_FINALIZAR") /\ numeroPid' = numeroPid
          /\ "COMANDO_FINALIZAR" \in CodigosFinales
      BY <2>5 DEF AtenderPrograma, CodigosFinales
    <3>. QED BY <1>t, <2>5, <3>1, EstFinalizar DEF PasoDelCiclo, Muere, NoMuda, ConservaRecursos
  <2>6. CASE AdmitirNuevo
    <3> DEFINE p == listas["new"][indice]
    <3>1. p \in Pid /\ PasaDe(p, "new", "ready") /\ Ingresa(p) /\ UNCHANGED aviso
      BY <1>t, <2>6, EstAdmitirNuevo DEF AdmitirNuevo, Ingresa
    <3>. HIDE DEF p
    <3>2. Muda(p)
      BY <3>1 DEF Muda, Flechas, PasaDe
    <3>. QED BY <3>1, <3>2 DEF PasoDelCiclo
  <2>7. CASE \E c \in Cpu : EnviarProcesoACpu(c)
    <3>1. PICK p \in Pid : PasaDe(p, "ready", "exec")
      BY <1>t, <2>7, EstEnviarProceso
    <3>2. UNCHANGED <<aviso, procesosEnSistema, conPaginas>>
      BY <2>7 DEF EnviarProcesoACpu
    <3>3. Muda(p)
      BY <3>1, <3>2 DEF Muda, Flechas, PasaDe
    <3>. QED BY <3>3 DEF PasoDelCiclo
  <2>. QED BY <2>0, <2>1, <2>2, <2>3, <2>4, <2>5, <2>6, <2>7 DEF NextKernel, PasoSinListas
<1>2. CASE ~PasoDeKernel
  <2>1. UNCHANGED kernel
    BY <1>2, PasoAjeno
  <2>. QED BY <2>1, EstSinMover DEF kernel, pcbs, PasoDelCiclo, NoMuda
<1>. QED BY <1>1, <1>2

(* The kernel implements the life cycle of every process, whatever is      *)
(* killed, fails or goes away: it moves a process only along the five      *)
(* states, ends it once, and tells its console, at that moment and never   *)
(* again, one code, that is not a mark of a semaphore.                     *)
THEOREM ImplementaCiclo == Spec => CumpleCiclo
<1>1. Init => Ciclo!Init
  <2>. SUFFICES ASSUME Init PROVE Ciclo!Init
    OBVIOUS
  <2>1. numeroPid = 1 /\ aviso = [p \in Pid |-> SinAviso]
    BY DEF Init, InitKernel
  <2>2. \A p \in Pid : Estado(p) = "inexistente"
    BY <2>1 DEF Estado, Pid
  <2>. QED BY <2>1, <2>2 DEF Ciclo!Init
<1>2. InvTipo /\ UnicaLista /\ InvVuelo /\ InvColas /\ [Next]_vars => [Ciclo!Next]_(Ciclo!vars)
  <2>. SUFFICES ASSUME InvTipo, UnicaLista, InvVuelo, InvColas, [Next]_vars
                PROVE  [Ciclo!Next]_(Ciclo!vars)
    OBVIOUS
  <2>1. CASE NoMuda
    BY <2>1 DEF Ciclo!vars, Est, NoMuda
  <2>2. ASSUME NEW p \in Pid, Muda(p) PROVE Ciclo!Next
    <3>1. PICK f \in Flechas : PasaDe(p, f[1], f[2]) /\ UNCHANGED aviso
      BY <2>2 DEF Muda
    <3>2. Ciclo!Cambiar(p, f[1], f[2])
      BY <3>1 DEF Ciclo!Cambiar, PasaDe, Est
    <3>. QED BY <3>2 DEF Flechas, Ciclo!Next, Ciclo!Crear, Ciclo!Admitir, Ciclo!Despachar,
                         Ciclo!Desalojar, Ciclo!Bloquear, Ciclo!Desbloquear
  <2>3. ASSUME NEW p \in Pid, Muere(p) PROVE Ciclo!Next
    <3>1. PICK codigo \in CodigosFinales : aviso' = [aviso EXCEPT ![p] = codigo]
      BY <2>3 DEF Muere, LiberarRecursos
    <3>2. Ciclo!Terminar(p, codigo)
      BY <2>3, <3>1 DEF Ciclo!Terminar, Ciclo!Vivos, Muere, PasaDe, Vivo, Est
    <3>. QED BY <3>2 DEF Ciclo!Next
  <2>. QED BY <2>1, <2>2, <2>3, CicloNext DEF PasoDelCiclo
<1>. QED BY <1>1, <1>2, InvTipoInductivo, SiempreEnUnaLista, MensajesDeQuienEjecuta,
            InvColasSiempre, PTL DEF Spec, CumpleCiclo, Ciclo!Spec
-----------------------------------------------------------------------------
(* The counts: how many processes are in the system.                       *)
Admitidos == {p \in Pid : Est[p] \in {"ready", "exec", "blocked"}}

(* A list without repetitions has as many places as processes.             *)
LEMMA LargoDeLista ==
  ASSUME TipoListas, UnicaLista, NEW e \in Estados
  PROVE  IsFiniteSet(En(e)) /\ Cardinality(En(e)) = Len(listas[e]) /\ Len(listas[e]) \in Nat
<1> DEFINE l == listas[e]
<1>1. l \in Seq(Pid) /\ Len(l) \in Nat /\ DOMAIN l = 1..Len(l)
  BY LenProperties DEF TipoListas
<1>2. \A j, k \in 1..Len(l) : l[j] = l[k] => j = k
  BY <1>1 DEF UnicaLista
<1>3. En(e) = {l[k] : k \in 1..Len(l)}
  BY <1>1 DEF En, ToSet
<1>4. l \in [1..Len(l) -> En(e)]
  BY <1>1, <1>3
<1>5. l \in Bijection(1..Len(l), En(e))
  BY <1>2, <1>3, <1>4 DEF Bijection, Injection, Surjection, IsInjective
<1>6. ExistsBijection(1..Len(l), En(e))
  BY <1>5 DEF ExistsBijection
<1>. HIDE DEF l
<1>7. IsFiniteSet(1..Len(l)) /\ Cardinality(1..Len(l)) = Len(l)
  BY <1>1, FS_Interval
<1>8. IsFiniteSet(En(e)) /\ Cardinality(En(e)) = Cardinality(1..Len(l))
  BY <1>6, <1>7, FS_Bijection
<1>. QED BY <1>1, <1>7, <1>8 DEF l

(* The three lengths of EnSistema count the admitted processes.            *)
LEMMA CuantosAdmitidos ==
  ASSUME TipoListas, UnicaLista
  PROVE  IsFiniteSet(Admitidos) /\ EnSistema = Cardinality(Admitidos) /\ EnSistema \in Nat
<1> DEFINE a == En("ready")
           b == En("exec")
           d == En("blocked")
<1>1. /\ a = {p \in Pid : Est[p] = "ready"}
      /\ b = {p \in Pid : Est[p] = "exec"}
      /\ d = {p \in Pid : Est[p] = "blocked"}
  <2>1. \A e \in Estados : En(e) \subseteq Pid
    BY DEF En, ToSet, TipoListas
  <2>. QED BY <2>1, EstadoEnLista
<1>2. /\ IsFiniteSet(a) /\ Cardinality(a) = Len(listas["ready"]) /\ Cardinality(a) \in Nat
      /\ IsFiniteSet(b) /\ Cardinality(b) = Len(listas["exec"]) /\ Cardinality(b) \in Nat
      /\ IsFiniteSet(d) /\ Cardinality(d) = Len(listas["blocked"]) /\ Cardinality(d) \in Nat
  BY LargoDeLista
<1>. HIDE DEF a, b, d
<1> DEFINE ab == a \cup b
           abd == ab \cup d
<1>3. Admitidos = abd /\ a \cap b = {} /\ ab \cap d = {}
  BY <1>1 DEF Admitidos
<1>4. Cardinality({}) = 0
  BY FS_EmptySet
<1>5. IsFiniteSet(ab) /\ Cardinality(ab) = Cardinality(a) + Cardinality(b) - Cardinality(a \cap b)
  BY <1>2, FS_Union
<1>. HIDE DEF ab
<1>6. IsFiniteSet(abd) /\ Cardinality(abd) = Cardinality(ab) + Cardinality(d) - Cardinality(ab \cap d)
  BY <1>2, <1>5, FS_Union
<1>. HIDE DEF abd
<1>7. Cardinality(ab) = Cardinality(a) + Cardinality(b) - 0
  BY <1>3, <1>4, <1>5
<1>8. Cardinality(abd) = Cardinality(ab) + Cardinality(d) - 0
  BY <1>3, <1>4, <1>6
<1>9. EnSistema = Cardinality(a) + Cardinality(b) + Cardinality(d)
  BY <1>2 DEF EnSistema
<1>10. EnSistema = Cardinality(abd) /\ EnSistema \in Nat
  <2>1. \A i, j, k, m, n \in Nat : m = i + j - 0 /\ n = m + k - 0 => n = i + j + k
    OBVIOUS
  <2>2. Cardinality(ab) \in Nat /\ Cardinality(abd) \in Nat
    BY <1>5, <1>6, FS_CardinalityType
  <2>3. Cardinality(a) \in Nat /\ Cardinality(b) \in Nat /\ Cardinality(d) \in Nat
    BY <1>2
  <2>4. Cardinality(abd) = Cardinality(a) + Cardinality(b) + Cardinality(d)
    BY <1>7, <1>8, <2>1, <2>2, <2>3
  <2>. QED BY <1>9, <2>2, <2>4
<1>. QED BY <1>3, <1>6, <1>10

(* procesosEnSistema counts modulo Modulo, and never gets there.           *)
LEMMA CuentaModular ==
  /\ \A n \in 0..Grado : n < Grado => (n + 1) % Modulo = n + 1
  /\ \A n \in 1..Grado : (n + Modulo - 1) % Modulo = n - 1
<1>1. Grado \in Nat /\ Modulo \in Nat /\ Modulo > Grado /\ Modulo > 0
  BY ConstantesPlanificador
<1>2. \A a, b \in Nat : a < Modulo /\ (b = a \/ b = a + Modulo) => b % Modulo = a
  BY <1>1
<1>3. ASSUME NEW n \in 0..Grado, n < Grado PROVE (n + 1) % Modulo = n + 1
  BY <1>1, <1>2, <1>3
<1>4. ASSUME NEW n \in 1..Grado PROVE (n + Modulo - 1) % Modulo = n - 1
  <2>1. n - 1 \in Nat /\ n + Modulo - 1 \in Nat /\ n - 1 < Modulo /\ n + Modulo - 1 = (n - 1) + Modulo
    BY <1>1
  <2>. QED BY <1>2, <2>1
<1>. QED BY <1>3, <1>4

(* Who is asked to end has been admitted.                                  *)
PedidosAdmitidos ==
  \A p \in Pid : pedido[p] \in {"finalizar", "cierre"} \/ p \in readfds.programas =>
    Est[p] \notin {"inexistente", "new"}

CuentaExacta ==
  procesosEnSistema = Cardinality(Admitidos) /\ procesosEnSistema <= Grado

(* Only for a process that was admitted do the requests grow, if no        *)
(* console ends a program that is still in NEW.                            *)
LEMMA PedidosCrecen ==
  ASSUME "matar_new" \notin Eventos, InvTipo, UnicaLista, [Next]_vars, NEW p \in Pid
  PROVE  /\ pedido'[p] \in {"finalizar", "cierre"} =>
              pedido[p] \in {"finalizar", "cierre"} \/ Est[p] \notin {"inexistente", "new"}
         /\ p \in readfds'.programas =>
              p \in readfds.programas \/ pedido[p] \in {"finalizar", "cierre"}
<1>t. TypeOK
  BY DEF InvTipo, TipoKernel
<1>1. CASE PasoDeKernel
  <2>1. ASSUME NEW c \in Cpu, AtenderCpu(c) PROVE UNCHANGED <<pedido, readfds>>
    BY <2>1 DEF AtenderCpu, Recibir
  <2>2. ASSUME NEW q \in Pid, AtenderPrograma(q)
        PROVE  /\ pedido'[p] \in {"finalizar", "cierre"} => pedido[p] \in {"finalizar", "cierre"}
               /\ p \in readfds'.programas => p \in readfds.programas
    BY <1>t, <2>2 DEF AtenderPrograma, TypeOK, TypeOKCanales
  <2>3. CASE Select \/ FinDeEventos
    BY <2>3 DEF Select, FinDeEventos, Legibles, Nada, canales
  <2>4. CASE NuevoPrograma \/ \E c \in Cpu : NuevoCpu(c)
    BY <1>t, <2>4 DEF NuevoPrograma, NuevoCpu, TypeOK
  <2>5. CASE UNCHANGED <<pedido, readfds>>
    BY <2>5
  <2>. QED BY <1>1, <2>1, <2>2, <2>3, <2>4, <2>5
           DEF PasoDeKernel, NextKernel, PasarNuevo, PasarCpu, FinBloqueados, FinNuevos,
               FinDespacho, FinDeLazo, DesconexionCpu, PasarBloqueado, AtenderES,
               AtenderESConError, AtenderWait, AtenderWaitDesconocido, PorAtender,
               EnBloqueado, AdmitirNuevo, EnviarProcesoACpu, canales
<1>2. ASSUME NEW q \in Pid, PuedeMatar(q), PedirFinalizar(q) \/ CerrarConsola(q), Consola
      PROVE  /\ pedido'[p] \in {"finalizar", "cierre"} =>
                  pedido[p] \in {"finalizar", "cierre"} \/ Est[p] \notin {"inexistente", "new"}
             /\ UNCHANGED readfds
  <2>1. Est[q] \notin {"inexistente", "new"}
    BY <1>2, EstadoEnLista DEF PuedeMatar, ConoceElPid
  <2>2. p # q => pedido'[p] = pedido[p]
    BY <1>2, <1>t DEF PedirFinalizar, CerrarConsola, TypeOK, TypeOKCanales
  <2>. QED BY <1>2, <2>1, <2>2 DEF Consola, kernel, control
<1>3. CASE ~PasoDeKernel
  <2>1. UNCHANGED readfds
    BY <1>3, PasoAjeno DEF kernel, control
  <2>2. \/ pedido' = pedido
        \/ Consola /\ \E q \in Pid : PuedeMatar(q) /\ (PedirFinalizar(q) \/ CerrarConsola(q))
    BY <1>3 DEF Next, Consola, IniciarPrograma, TrabajoDeCpu, SucesoDeCpu,
                RecibirContexto, RecibirOtraCosa, Pedir, RecibirRespuesta,
                RecibirRespuestaInesperada, FinDeRafaga, MoverCursor, Conectar, Sigusr1,
                CaerCpu, vars, canales
  <2>. QED BY <1>2, <2>1, <2>2
<1>. QED BY <1>1, <1>3

(* A move keeps, adds or takes away one of the admitted.                   *)
LEMMA AdmitidosTrasPasar ==
  ASSUME NEW p \in Pid, NEW e, NEW d, PasaDe(p, e, d)
  PROVE  LET A == {"ready", "exec", "blocked"} IN
         /\ e \notin A /\ d \in A => p \notin Admitidos /\ Admitidos' = Admitidos \cup {p}
         /\ e \in A /\ d \notin A => p \in Admitidos /\ Admitidos' = Admitidos \ {p}
         /\ (e \in A <=> d \in A) => Admitidos' = Admitidos
BY PasaDeEst DEF Admitidos

(* The count follows every step.                                           *)
LEMMA CuentaNext ==
  ASSUME "matar_new" \notin Eventos, InvTipo, UnicaLista, InvVuelo, InvColas,
         PedidosAdmitidos, CuentaExacta, [Next]_vars
  PROVE  PedidosAdmitidos' /\ CuentaExacta'
<1>t. TipoListas /\ procesosEnSistema \in Nat
  BY ConstantesPlanificador DEF InvTipo, TipoKernel, TypeOK, TipoListas
<1>0. IsFiniteSet(Admitidos)
  BY <1>t, CuantosAdmitidos
<1>g. Grado \in Nat
  BY ConstantesPlanificador
<1>1. CASE NoMuda
  <2>1. Est' = Est /\ procesosEnSistema' = procesosEnSistema /\ Admitidos' = Admitidos
    BY <1>1 DEF NoMuda, Admitidos
  <2>2. PedidosAdmitidos'
    BY <2>1, PedidosCrecen DEF PedidosAdmitidos
  <2>. QED BY <2>1, <2>2 DEF CuentaExacta
<1>2. ASSUME NEW p \in Pid, Muda(p)
      PROVE  PedidosAdmitidos' /\ CuentaExacta'
  <2>1. PICK f \in Flechas : PasaDe(p, f[1], f[2])
    BY <1>2 DEF Muda
  <2>2. /\ Est[p] = f[1] /\ Est'[p] = f[2]
        /\ \A q \in Pid : q # p => Est'[q] = Est[q]
    BY <2>1, PasaDeEst
  <2>3. \A q \in Pid : Est[q] \notin {"inexistente", "new"} => Est'[q] \notin {"inexistente", "new"}
    BY <2>2 DEF Flechas
  <2>4. PedidosAdmitidos'
    <3>. SUFFICES ASSUME NEW q \in Pid,
                         pedido'[q] \in {"finalizar", "cierre"} \/ q \in readfds'.programas
                  PROVE  Est'[q] \notin {"inexistente", "new"}
      BY DEF PedidosAdmitidos
    <3>. QED BY <2>3, PedidosCrecen DEF PedidosAdmitidos
  <2>5. CASE Est[p] = "new"
    <3>1. f[1] = "new" /\ f[2] = "ready"
      <4>1. f[1] = "new"
        BY <2>2, <2>5
      <4>. QED BY <4>1 DEF Flechas
    <3>2. p \notin Admitidos /\ Admitidos' = Admitidos \cup {p}
      BY <2>1, <3>1, AdmitidosTrasPasar
    <3>3. Cardinality(Admitidos') = Cardinality(Admitidos) + 1
      BY <1>0, <3>2, FS_AddElement
    <3>4. procesosEnSistema < Grado /\ procesosEnSistema' = (procesosEnSistema + 1) % Modulo
      BY <1>2, <1>t, <1>g, <2>5 DEF Muda, Ingresa, Cupo
    <3>5. procesosEnSistema' = procesosEnSistema + 1
      BY <1>t, <1>g, <3>4, CuentaModular
    <3>. QED BY <1>t, <1>g, <2>4, <3>3, <3>4, <3>5 DEF CuentaExacta
  <2>6. CASE Est[p] # "new"
    <3>1. f[1] \in {"ready", "exec", "blocked"} <=> f[2] \in {"ready", "exec", "blocked"}
      BY <2>2, <2>6 DEF Flechas
    <3>2. Admitidos' = Admitidos
      BY <2>1, <3>1, AdmitidosTrasPasar
    <3>. QED BY <1>2, <2>4, <2>6, <3>2 DEF Muda, CuentaExacta
  <2>. QED BY <2>5, <2>6
<1>3. ASSUME NEW p \in Pid, Muere(p)
      PROVE  PedidosAdmitidos' /\ CuentaExacta'
  <2>1. Est[p] \in Vivo /\ PasaDe(p, Est[p], "exit") /\ Est[p] # "new"
    <3>1. ~AtenderPrograma(p) \/ Est[p] # "new"
      BY DEF AtenderPrograma, PedidosAdmitidos
    <3>. QED BY <1>3, <3>1 DEF Muere
  <2>2. Est'[p] = "exit" /\ \A q \in Pid : q # p => Est'[q] = Est[q]
    BY <2>1, PasaDeEst
  <2>3. PedidosAdmitidos'
    <3>. SUFFICES ASSUME NEW q \in Pid,
                         pedido'[q] \in {"finalizar", "cierre"} \/ q \in readfds'.programas
                  PROVE  Est'[q] \notin {"inexistente", "new"}
      BY DEF PedidosAdmitidos
    <3>. QED BY <2>2, PedidosCrecen DEF PedidosAdmitidos
  <2>4. p \in Admitidos /\ Admitidos' = Admitidos \ {p}
    BY <2>1, AdmitidosTrasPasar DEF Vivo
  <2>5. Cardinality(Admitidos') = Cardinality(Admitidos) - 1 /\ Cardinality(Admitidos) # 0
    BY <1>0, <2>4, FS_RemoveElement, FS_EmptySet
  <2>6. procesosEnSistema \in 1..Grado
    BY <1>t, <1>g, <2>5 DEF CuentaExacta
  <2>7. procesosEnSistema' = procesosEnSistema - 1
    BY <1>3, <2>6, CuentaModular DEF Muere, LiberarRecursos
  <2>. QED BY <1>g, <2>3, <2>5, <2>6, <2>7 DEF CuentaExacta
<1>. QED BY <1>1, <1>2, <1>3, CicloNext DEF PasoDelCiclo

(* procesosEnSistema is the number of admitted processes that have not     *)
(* ended, and the degree of multiprogramming bounds them, whatever fails   *)
(* and whoever is killed once admitted.  A console that ends a program     *)
(* still in NEW breaks both (run grado): it is discounted without having   *)
(* been counted.                                                           *)
LEMMA CuentasSiempre ==
  ASSUME "matar_new" \notin Eventos
  PROVE  Spec => []CuentaExacta
<1>1. Init => PedidosAdmitidos /\ CuentaExacta
  <2>. SUFFICES ASSUME Init PROVE PedidosAdmitidos /\ CuentaExacta
    OBVIOUS
  <2>1. /\ numeroPid = 1 /\ procesosEnSistema = 0 /\ readfds.programas = {}
        /\ \A p \in Pid : pedido[p] = "nada"
    BY DEF Init, InitKernel, InitCanales, Nada
  <2>2. Admitidos = {}
    BY <2>1 DEF Admitidos, Est, Estado, Pid
  <2>. QED BY <2>1, <2>2, FS_EmptySet, ConstantesPlanificador DEF PedidosAdmitidos, CuentaExacta
<1>2. /\ InvTipo /\ UnicaLista /\ InvVuelo /\ InvColas
      /\ PedidosAdmitidos /\ CuentaExacta /\ [Next]_vars
      => PedidosAdmitidos' /\ CuentaExacta'
  BY CuentaNext
<1>. QED BY <1>1, <1>2, InvTipoInductivo, SiempreEnUnaLista, MensajesDeQuienEjecuta,
            InvColasSiempre, PTL DEF Spec

(* The count of the code is that of the lists.                             *)
THEOREM CuentaSiempreExacta ==
  ASSUME "matar_new" \notin Eventos
  PROVE  Spec => []CuentaSistema
<1>1. InvTipo /\ UnicaLista /\ CuentaExacta => CuentaSistema
  BY CuantosAdmitidos DEF InvTipo, TipoKernel, TypeOK, TipoListas, CuentaExacta, CuentaSistema
<1>. QED BY <1>1, InvTipoInductivo, SiempreEnUnaLista, CuentasSiempre, PTL

(* The processes in the system never exceed the degree.                    *)
THEOREM GradoSiempreRespetado ==
  ASSUME "matar_new" \notin Eventos
  PROVE  Spec => []GradoRespetado
<1>1. InvTipo /\ UnicaLista /\ CuentaExacta => GradoRespetado
  BY CuantosAdmitidos DEF InvTipo, TipoKernel, TypeOK, TipoListas, CuentaExacta, GradoRespetado
<1>. QED BY <1>1, InvTipoInductivo, SiempreEnUnaLista, CuentasSiempre, PTL
=============================================================================
