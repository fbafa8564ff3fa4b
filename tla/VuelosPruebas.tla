---------------------------- MODULE VuelosPruebas ----------------------------
(***************************************************************************)
(* Proofs about where each process is: in the lists of the kernel, as a    *)
(* function from pids to states, and in the messages between the kernel    *)
(* and the CPUs.                                                           *)
(***************************************************************************)
EXTENDS SistemaPruebas

USE DEF Estados

-----------------------------------------------------------------------------
(* The five lists as one function.                                         *)
Est == [p \in Pid |-> Estado(p)]

(* A step that takes one process from a list to another.                   *)
PasaDe(p, e, d) == Est[p] = e /\ Est' = [Est EXCEPT ![p] = d]

(* While every process is in one list, its state is the name of that list. *)
LEMMA EstadoEnLista ==
  ASSUME UnicaLista, NEW p \in Pid
  PROVE  /\ Est[p] = Estado(p)
         /\ Est[p] \in Estados \cup {"inexistente"}
         /\ \A e \in Estados : p \in En(e) <=> Est[p] = e
         /\ p < numeroPid <=> Est[p] # "inexistente"
<1>1. Est[p] = Estado(p)
  BY DEF Est
<1>2. \A e, d \in Estados : p \in En(e) /\ p \in En(d) => e = d
  BY DEF UnicaLista, En, ToSet
<1>3. CASE p < numeroPid
  <2>1. \E e \in Estados : p \in En(e)
    BY <1>3 DEF UnicaLista
  <2>2. Estado(p) \in Estados /\ p \in En(Estado(p))
    BY <1>3, <2>1 DEF Estado
  <2>. QED BY <1>1, <1>2, <1>3, <2>2
<1>4. CASE ~(p < numeroPid)
  <2>1. \A e \in Estados : p \notin En(e)
    BY <1>4 DEF UnicaLista
  <2>. QED BY <1>1, <1>4, <2>1 DEF Estado
<1>. QED BY <1>3, <1>4

(* The same as a formula about one state, which can also be read of the    *)
(* next one.                                                               *)
EstDeListas ==
  \A p \in Pid : /\ Est[p] \in Estados \cup {"inexistente"}
                 /\ \A e \in Estados : p \in En(e) <=> Est[p] = e
                 /\ p < numeroPid <=> Est[p] # "inexistente"

(* Where every process is in one list, now or after a step, EstDeListas.   *)
LEMMA EstDeListasVale ==
  /\ UnicaLista => EstDeListas
  /\ UnicaLista' => EstDeListas'
<1>1. UnicaLista => EstDeListas
  BY EstadoEnLista DEF EstDeListas
<1>. QED BY <1>1, PTL

(* The state does not change while the lists do not.                       *)
LEMMA EstSinMover ==
  ASSUME UNCHANGED listas, numeroPid' = numeroPid
  PROVE  Est' = Est
BY DEF Est, Estado, En

(* A move changes the state of the process that is moved and of no other.  *)
LEMMA EstTrasMover ==
  ASSUME TipoListas, UnicaLista, numeroPid' = numeroPid,
         NEW e \in Estados, NEW d \in Estados, e # d,
         NEW k \in 1..Len(listas[e]), MoverDesde(e, k, d)
  PROVE  PasaDe(listas[e][k], e, d)
<1> DEFINE p == listas[e][k]
<1>1. /\ \A x \in Estados : listas[x] \in Seq(Pid) /\ DOMAIN listas[x] = 1..Len(listas[x])
      /\ \A x \in Estados : Len(listas[x]) \in Nat
      /\ p \in Pid
  BY LenProperties, TipoEnLista DEF TipoListas
<1>2. /\ listas'[e] = RemoveAt(listas[e], k)
      /\ listas'[d] = Append(listas[d], p)
      /\ \A x \in Estados : x # e /\ x # d => listas'[x] = listas[x]
  BY DEF MoverDesde, TipoListas
<1>3. UnicaLista'
  BY UnicaTrasMover
<1>4. p \in En(d)'
  <2>1. Len(listas[d]) + 1 \in DOMAIN listas'[d] /\ listas'[d][Len(listas[d]) + 1] = p
    BY <1>1, <1>2
  <2>. QED BY <2>1 DEF En, ToSet
<1>5. ASSUME NEW q \in Pid, q # p, NEW x \in Estados, q \in En(x)
      PROVE  q \in En(x)'
  <2>1. PICK i \in 1..Len(listas[x]) : listas[x][i] = q
    BY <1>1, <1>5 DEF En, ToSet
  <2>2. CASE x = e
    <3>1. /\ DOMAIN listas'[e] = 1..(Len(listas[e]) - 1)
          /\ \A j \in 1..(Len(listas[e]) - 1) :
               listas'[e][j] = IF j < k THEN listas[e][j] ELSE listas[e][j + 1]
      <4>1. listas[e] \in Seq(Pid)
        BY <1>1
      <4>2. RemoveAt(listas[e], k) \in Seq(Pid)
        BY <4>1, QuitarDeSecuencia
      <4>3. /\ Len(RemoveAt(listas[e], k)) = Len(listas[e]) - 1
            /\ \A j \in 1..(Len(listas[e]) - 1) : RemoveAt(listas[e], k)[j] =
                 IF j < k THEN listas[e][j] ELSE listas[e][j + 1]
        BY <4>1, QuitarDeSecuencia
      <4>4. DOMAIN RemoveAt(listas[e], k) = 1..(Len(listas[e]) - 1)
        BY <4>2, <4>3, LenProperties
      <4>. QED BY <1>2, <4>3, <4>4
    <3>2. i \in Nat /\ k \in Nat /\ i # k /\ 1 <= i /\ i <= Len(listas[e]) /\ k <= Len(listas[e])
      BY <1>1, <1>5, <2>1, <2>2
    <3>3. CASE i < k
      <4>1. i \in 1..(Len(listas[e]) - 1)
        BY <1>1, <3>2, <3>3
      <4>2. i \in DOMAIN listas'[e] /\ listas'[e][i] = q
        BY <2>1, <2>2, <3>1, <3>3, <4>1
      <4>. QED BY <2>2, <4>2 DEF En, ToSet
    <3>4. CASE i > k
      <4>1. i - 1 \in 1..(Len(listas[e]) - 1) /\ ~(i - 1 < k) /\ (i - 1) + 1 = i
        BY <1>1, <3>2, <3>4
      <4>2. i - 1 \in DOMAIN listas'[e] /\ listas'[e][i - 1] = q
        BY <2>1, <2>2, <3>1, <4>1
      <4>. QED BY <2>2, <4>2 DEF En, ToSet
    <3>. QED BY <3>2, <3>3, <3>4
  <2>3. CASE x = d
    <3>1. i \in DOMAIN listas'[d] /\ listas'[d][i] = q
      BY <1>1, <1>2, <2>1, <2>3
    <3>. QED BY <2>3, <3>1 DEF En, ToSet
  <2>4. CASE x # e /\ x # d
    <3>1. listas'[x] = listas[x]
      BY <1>2, <2>4
    <3>. QED BY <1>1, <2>1, <3>1 DEF En, ToSet
  <2>. QED BY <2>2, <2>3, <2>4
<1>. HIDE DEF p
<1>6. p \in En(e)
  BY <1>1 DEF p, En, ToSet
<1>7. Est[p] = e /\ Est'[p] = d
  BY <1>1, <1>3, <1>4, <1>6, EstDeListasVale DEF EstDeListas
<1>8. ASSUME NEW q \in Pid, q # p
      PROVE  Est'[q] = Est[q]
  <2>1. CASE Est[q] \in Estados
    <3>1. q \in En(Est[q])
      BY <2>1, EstDeListasVale DEF EstDeListas
    <3>2. \A x \in Estados : q \in En(x) => Est'[q] = x
      BY <1>3, <1>5, <1>8, EstDeListasVale DEF EstDeListas
    <3>. QED BY <2>1, <3>1, <3>2
  <2>2. CASE Est[q] \notin Estados
    <3>1. Est[q] = "inexistente" /\ ~(q < numeroPid')
      BY <2>2, EstDeListasVale DEF EstDeListas
    <3>2. Est'[q] = "inexistente"
      BY <1>3, <3>1, EstDeListasVale DEF EstDeListas
    <3>. QED BY <3>1, <3>2
  <2>. QED BY <2>1, <2>2
<1>9. Est' = [Est EXCEPT ![p] = d]
  BY <1>1, <1>7, <1>8 DEF Est
<1>. QED BY <1>7, <1>9 DEF p, PasaDe
-----------------------------------------------------------------------------
(* What each function that moves a process does to its state.              *)

(* Mover: the process goes from one state to the other.                    *)
LEMMA EstMover ==
  ASSUME TipoListas, UnicaLista, numeroPid' = numeroPid,
         NEW e \in Estados, NEW d \in Estados, e # d, NEW p \in En(e), Mover(e, p, d)
  PROVE  PasaDe(p, e, d)
BY PosicionEnLista, EstTrasMover DEF Mover

(* moverProgramaDeExecAReady and ...ABlocked.                              *)
LEMMA EstMoverDeExec ==
  ASSUME TipoListas, UnicaLista, numeroPid' = numeroPid,
         NEW p \in Pid, NEW d \in {"ready", "blocked"}, MoverDeExec(p, d)
  PROVE  PasaDe(p, "exec", d) \/ (Est[p] # "exec" /\ Est' = Est)
<1>1. CASE p \in En("exec")
  BY <1>1, EstMover DEF MoverDeExec
<1>2. CASE p \notin En("exec")
  BY <1>2, EstSinMover, EstadoEnLista DEF MoverDeExec
<1>. QED BY <1>1, <1>2

(* moverProgramaDeExecAExit.                                               *)
LEMMA EstExecAExit ==
  ASSUME TipoListas, UnicaLista, numeroPid' = numeroPid,
         NEW p \in Pid, MoverProgramaDeExecAExit(p)
  PROVE  \/ PasaDe(p, "exec", "exit") /\ LiberarRecursos(p, exitCode'[p])
         \/ Est[p] # "exec" /\ Est' = Est /\ ConservaRecursos
<1>1. CASE /\ p \in En("exec")
           /\ Mover("exec", p, "exit")
           /\ LiberarRecursos(p, exitCode'[p])
  BY <1>1, EstMover
<1>2. CASE p \notin En("exec") /\ UNCHANGED listas /\ ConservaRecursos
  BY <1>2, EstSinMover, EstadoEnLista
<1>. QED BY <1>1, <1>2 DEF MoverProgramaDeExecAExit

Vivo == {"new", "ready", "exec", "blocked"}

(* finalizarPrograma.                                                      *)
LEMMA EstFinalizar ==
  ASSUME TipoListas, UnicaLista, numeroPid' = numeroPid,
         NEW p \in Pid, NEW codigo, FinalizarPrograma(p, codigo)
  PROVE  \/ /\ Est[p] \in Vivo /\ PasaDe(p, Est[p], "exit")
            /\ exitCode' = [exitCode EXCEPT ![p] = codigo]
            /\ LiberarRecursos(p, codigo)
         \/ Est[p] \notin Vivo /\ Est' = Est /\ UNCHANGED exitCode /\ ConservaRecursos
<1>1. ASSUME NEW e \in Vivo, p \in En(e), FinalizarProgramaConError(e, p, codigo)
      PROVE  /\ Est[p] = e /\ PasaDe(p, e, "exit")
             /\ exitCode' = [exitCode EXCEPT ![p] = codigo]
             /\ LiberarRecursos(p, codigo)
  <2>1. PasaDe(p, e, "exit")
    BY <1>1, EstMover DEF FinalizarProgramaConError, Vivo
  <2>. QED BY <1>1, <2>1 DEF FinalizarProgramaConError, PasaDe
<1>2. CASE /\ \A e \in Vivo : p \notin En(e)
           /\ UNCHANGED <<listas, exitCode>> /\ ConservaRecursos
  <2>1. Est[p] \notin Vivo
    BY <1>2, EstadoEnLista DEF Vivo
  <2>. QED BY <1>2, <2>1, EstSinMover
<1>. QED BY <1>1, <1>2 DEF FinalizarPrograma, Vivo

(* The process that the first loop of actualizarEstadoSistema visits.      *)
LEMMA EstEnBloqueado ==
  ASSUME TipoKernel, UnicaLista, NEW p \in Pid, EnBloqueado(p)
  PROVE  /\ Est[p] = "blocked" /\ numeroPid' = numeroPid
         /\ UNCHANGED listas => Est' = Est
         /\ ABlockedReady => PasaDe(p, "blocked", "ready")
<1>1. indice \in 1..Len(listas["blocked"]) /\ listas["blocked"][indice] = p
      /\ numeroPid' = numeroPid
  BY TipoEnBloqueado DEF EnBloqueado
<1>2. p \in En("blocked") /\ TipoListas
  BY <1>1, LenProperties DEF En, ToSet, TipoKernel, TypeOK, TipoListas
<1>3. Est[p] = "blocked"
  BY <1>2, EstadoEnLista
<1>4. ASSUME ABlockedReady PROVE PasaDe(p, "blocked", "ready")
  BY <1>1, <1>2, <1>4, EstTrasMover DEF ABlockedReady
<1>. QED BY <1>1, <1>3, <1>4, EstSinMover

(* NuevoPrograma: a pid that was in no list is now in NEW.                 *)
LEMMA EstNuevoPrograma ==
  ASSUME TipoKernel, UnicaLista, NuevoPrograma
  PROVE  numeroPid \in Pid /\ PasaDe(numeroPid, "inexistente", "new")
<1>1. /\ numeroPid \in Pid /\ numeroPid' = numeroPid + 1 /\ numeroPid \in Nat
      /\ \A x \in Estados : listas[x] \in Seq(Pid) /\ DOMAIN listas[x] = 1..Len(listas[x])
  BY ConstantesCanales, LenProperties DEF TipoKernel, TypeOK, NuevoPrograma, Pid
<1>2. /\ listas'["new"] = Append(listas["new"], numeroPid)
      /\ \A x \in Estados : x # "new" => listas'[x] = listas[x]
  BY DEF NuevoPrograma, TipoKernel, TypeOK
<1>3. UnicaLista'
  BY UnicaTrasCrear
<1>4. numeroPid \in En("new")'
  <2>1. Len(listas["new"]) + 1 \in DOMAIN listas'["new"]
        /\ listas'["new"][Len(listas["new"]) + 1] = numeroPid
    BY <1>1, <1>2
  <2>. QED BY <2>1 DEF En, ToSet
<1>5. ASSUME NEW q \in Pid, NEW x \in Estados, q \in En(x)
      PROVE  q \in En(x)'
  <2>1. PICK i \in 1..Len(listas[x]) : listas[x][i] = q
    BY <1>1, <1>5 DEF En, ToSet
  <2>2. i \in DOMAIN listas'[x] /\ listas'[x][i] = q
    <3>1. CASE x = "new"
      <4>1. listas["new"] \in Seq(Pid) /\ Len(listas["new"]) \in Nat
        BY <1>1, LenProperties
      <4>2. i \in 1..(Len(listas["new"]) + 1) /\ i \in 1..Len(listas["new"])
        BY <2>1, <3>1, <4>1
      <4>3. /\ DOMAIN Append(listas["new"], numeroPid) = 1..(Len(listas["new"]) + 1)
            /\ Append(listas["new"], numeroPid)[i] = listas["new"][i]
        BY <1>1, <4>1, <4>2
      <4>. QED BY <1>2, <2>1, <3>1, <4>2, <4>3
    <3>2. CASE x # "new"
      <4>1. listas'[x] = listas[x]
        BY <1>2, <3>2
      <4>. QED BY <1>1, <2>1, <4>1
    <3>. QED BY <3>1, <3>2
  <2>. QED BY <2>2 DEF En, ToSet
<1>6. Est[numeroPid] = "inexistente" /\ Est'[numeroPid] = "new"
  BY <1>1, <1>3, <1>4, EstDeListasVale DEF EstDeListas
<1>7. ASSUME NEW q \in Pid, q # numeroPid
      PROVE  Est'[q] = Est[q]
  <2>1. CASE Est[q] \in Estados
    <3>1. q \in En(Est[q])
      BY <2>1, EstadoEnLista
    <3>. QED BY <1>3, <1>5, <2>1, <3>1, EstDeListasVale DEF EstDeListas
  <2>2. CASE Est[q] \notin Estados
    <3>1. Est[q] = "inexistente" /\ ~(q < numeroPid)
      BY <2>2, EstDeListasVale DEF EstDeListas
    <3>2. ~(q < numeroPid')
      BY <1>1, <1>7, <3>1 DEF Pid
    <3>. QED BY <1>3, <3>1, <3>2, EstDeListasVale DEF EstDeListas
  <2>. QED BY <2>1, <2>2
<1>8. Est' = [Est EXCEPT ![numeroPid] = "new"]
  BY <1>1, <1>6, <1>7 DEF Est
<1>. QED BY <1>1, <1>6, <1>8 DEF PasaDe

(* AdmitirNuevo: from NEW to READY.                                        *)
LEMMA EstAdmitirNuevo ==
  ASSUME TipoKernel, UnicaLista, AdmitirNuevo
  PROVE  listas["new"][indice] \in Pid /\ PasaDe(listas["new"][indice], "new", "ready")
<1>1. indice \in 1..Len(listas["new"]) /\ TipoListas /\ numeroPid' = numeroPid
  BY DEF AdmitirNuevo, TipoKernel, TypeOK, TipoListas, pcbs
<1>. QED BY <1>1, EstTrasMover, TipoEnLista DEF AdmitirNuevo

(* EnviarProcesoACpu: the oldest of READY goes to EXEC.                    *)
LEMMA EstEnviarProceso ==
  ASSUME TipoKernel, UnicaLista, NEW c, EnviarProcesoACpu(c)
  PROVE  Head(listas["ready"]) \in Pid /\ PasaDe(Head(listas["ready"]), "ready", "exec")
<1>1. 1 \in 1..Len(listas["ready"]) /\ listas["ready"][1] = Head(listas["ready"])
  BY EmptySeq DEF EnviarProcesoACpu, Despachable, TipoKernel, TypeOK
<1>2. TipoListas /\ numeroPid' = numeroPid
  BY DEF EnviarProcesoACpu, TipoKernel, TypeOK, TipoListas, pcbs
<1>. QED BY <1>1, <1>2, EstTrasMover, TipoEnLista DEF EnviarProcesoACpu, AExec

(* The steps of the kernel that leave the lists as they are.               *)
PasoSinListas ==
  \/ Select \/ FinDeEventos \/ PasarNuevo \/ PasarCpu
  \/ FinBloqueados \/ FinNuevos \/ FinDespacho
  \/ \E c \in Cpu : NuevoCpu(c) \/ DesconexionCpu(c)

(* They change none of what the processes are.                             *)
LEMMA EstSinListas ==
  ASSUME PasoSinListas
  PROVE  /\ Est' = Est
         /\ UNCHANGED <<listas, pcbs, semaforos, procesosEnSistema, aviso, conPaginas,
                        aKernel, aCpu, llegadas, pedido>>
<1>1. UNCHANGED <<listas, pcbs, semaforos, procesosEnSistema, aviso, conPaginas,
                  aKernel, aCpu, llegadas, pedido>>
  BY DEF PasoSinListas, Select, FinDeEventos, PasarNuevo, PasarCpu, FinBloqueados,
         FinNuevos, FinDespacho, FinDeLazo, NuevoCpu, DesconexionCpu, canales, pcbs, semaforos
<1>. QED BY <1>1, EstSinMover DEF pcbs
-----------------------------------------------------------------------------
(* Where a process is mentioned between the kernel and the CPUs: a context *)
(* on its way to a CPU, a burst, a message that the kernel has not read.   *)
Terminales == {"FINALIZO_EJECUCION", "FINALIZO_CON_ERROR", "FINALIZO_STACKOVERFLOW"}
Devoluciones == {"FINALIZO_QUANTUM", "PIDIO_ARCHIVO", "WAIT"}

CorreEn(c, p) == estadoCpu[c] \in {"ejecuta", "respuesta"} /\ pidCpu[c] = p
EsContexto(m, p) == m.tipo = "ENVIAR_CONTEXTO" /\ m.pid = p
Ida(c, p) == \E i \in DOMAIN aCpu[c] : EsContexto(aCpu[c][i], p)
Vuelta(c, p) == \E i \in DOMAIN aKernel[c] : aKernel[c][i].pid = p
Mencion(c, p) == CorreEn(c, p) \/ Ida(c, p) \/ Vuelta(c, p)

(* Only a process that is in EXEC, or that has ended, is mentioned.        *)
MencionSoloDeExec ==
  \A c \in Cpu, p \in Pid : Mencion(c, p) => Est[p] \in {"exec", "exit"}

(* No process is mentioned at two CPUs.                                    *)
MencionEnUnaCpu ==
  \A p \in Pid : \A c, d \in Cpu : Mencion(c, p) /\ Mencion(d, p) => c = d

(* With message i the CPU has no more to say of p.                         *)
Ultimo(c, p, i) ==
  /\ ~CorreEn(c, p) /\ ~Ida(c, p)
  /\ \A k \in DOMAIN aKernel[c] : aKernel[c][k].pid = p => k <= i

(* A message that gives back a process is the last one about it, unless    *)
(* one that ends the process comes before it.                              *)
DevolucionEsUltima ==
  \A c \in Cpu, p \in Pid : Est[p] = "exec" =>
    \A i \in DOMAIN aKernel[c] :
      aKernel[c][i].pid = p /\ aKernel[c][i].tipo \in Devoluciones =>
        \/ Ultimo(c, p, i)
        \/ \E j \in DOMAIN aKernel[c] :
             j < i /\ aKernel[c][j].pid = p /\ aKernel[c][j].tipo \in Terminales

(* While a context is on its way there is nothing else about its process.  *)
IdaEsUnica ==
  \A c \in Cpu, p \in Pid : Est[p] = "exec" /\ Ida(c, p) =>
    /\ ~CorreEn(c, p) /\ ~Vuelta(c, p)
    /\ \A i, j \in DOMAIN aCpu[c] :
         EsContexto(aCpu[c][i], p) /\ EsContexto(aCpu[c][j], p) => i = j

(* The semaphore of a SIGNAL is one of SEM_IDS.                            *)
SignalConocido ==
  \A c \in Cpu : \A i \in DOMAIN aKernel[c] :
    aKernel[c][i].tipo = "SIGNAL" => aKernel[c][i].sem \in Semaforo

InvVuelo ==
  /\ MencionSoloDeExec
  /\ MencionEnUnaCpu
  /\ DevolucionEsUltima
  /\ IdaEsUnica
  /\ SignalConocido

(* The channels as sequences: the domains that the lemmas below use.       *)
Colas ==
  /\ aKernel \in [Cpu -> Seq(MensajesCpu)]
  /\ aCpu \in [Cpu -> Seq(MensajesKernel)]

(* A message read from a channel takes the others one place forward.       *)
LEMMA ColaTrasLeer ==
  ASSUME NEW S, NEW s \in Seq(S), s # <<>>
  PROVE  /\ Head(s) = s[1] /\ 1 \in DOMAIN s /\ Tail(s) \in Seq(S)
         /\ \A i \in DOMAIN Tail(s) : i \in Nat /\ i + 1 \in DOMAIN s /\ Tail(s)[i] = s[i + 1]
         /\ \A i \in DOMAIN s : i \in Nat /\ i > 0
         /\ \A i \in DOMAIN s : i # 1 => i - 1 \in DOMAIN Tail(s)
<1>1. Len(s) \in Nat /\ Len(s) > 0 /\ DOMAIN s = 1..Len(s)
  BY EmptySeq, LenProperties
<1>2. /\ Tail(s) \in Seq(S) /\ Len(Tail(s)) = Len(s) - 1
      /\ \A i \in 1..Len(Tail(s)) : Tail(s)[i] = s[i + 1]
  BY HeadTailProperties
<1>3. DOMAIN Tail(s) = 1..(Len(s) - 1)
  BY <1>2, LenProperties
<1>. QED BY <1>1, <1>2, <1>3

(* One that is sent goes after the others.                                 *)
LEMMA ColaTrasEnviar ==
  ASSUME NEW S, NEW s \in Seq(S), NEW m \in S
  PROVE  /\ Append(s, m) \in Seq(S)
         /\ \A i \in DOMAIN s : i \in DOMAIN Append(s, m) /\ Append(s, m)[i] = s[i]
         /\ \A i \in DOMAIN Append(s, m) :
              \/ i \in DOMAIN s /\ Append(s, m)[i] = s[i]
              \/ i = Len(s) + 1 /\ Append(s, m)[i] = m
         /\ Len(s) + 1 \in DOMAIN Append(s, m) /\ Append(s, m)[Len(s) + 1] = m
         /\ \A i \in DOMAIN s : i \in Nat /\ i < Len(s) + 1
<1>1. Len(s) \in Nat /\ DOMAIN s = 1..Len(s)
  BY LenProperties
<1>. QED BY <1>1
-----------------------------------------------------------------------------
(* The steps that only take processes from one list to another.            *)

(* None of the kernel, the CPUs and the channels between them has changed. *)
SinVuelos == UNCHANGED <<aKernel, aCpu, estadoCpu, pidCpu>>

(* Nobody gets into EXEC and nobody leaves it but to end.                  *)
FueraDeVuelo ==
  \A p \in Pid : Est'[p] # Est[p] =>
    Est'[p] = "exit" \/ (Est[p] \notin {"exec", "exit"} /\ Est'[p] # "exec")

(* Such steps keep what is known of the messages.                          *)
LEMMA VueloQuieto ==
  ASSUME InvVuelo, SinVuelos, FueraDeVuelo
  PROVE  InvVuelo'
<1>1. \A c \in Cpu, p \in Pid : /\ CorreEn(c, p)' = CorreEn(c, p)
                                /\ Ida(c, p)' = Ida(c, p)
                                /\ Vuelta(c, p)' = Vuelta(c, p)
                                /\ Mencion(c, p)' = Mencion(c, p)
  BY DEF SinVuelos, CorreEn, Ida, Vuelta, Mencion
<1>2. \A p \in Pid : Est'[p] = "exec" => Est[p] = "exec"
  BY DEF FueraDeVuelo
<1>3. MencionSoloDeExec'
  BY <1>1 DEF InvVuelo, MencionSoloDeExec, FueraDeVuelo
<1>4. MencionEnUnaCpu'
  BY <1>1, <1>2 DEF InvVuelo, MencionEnUnaCpu
<1>5. DevolucionEsUltima'
  BY <1>1, <1>2 DEF InvVuelo, DevolucionEsUltima, SinVuelos, Ultimo
<1>6. IdaEsUnica'
  BY <1>1, <1>2 DEF InvVuelo, IdaEsUnica, SinVuelos
<1>7. SignalConocido'
  BY DEF InvVuelo, SignalConocido, SinVuelos
<1>. QED BY <1>3, <1>4, <1>5, <1>6, <1>7 DEF InvVuelo
-----------------------------------------------------------------------------
(* The effect of PasaDe on each process.                                   *)
LEMMA PasaDeEst ==
  ASSUME NEW p \in Pid, NEW e, NEW d, PasaDe(p, e, d)
  PROVE  Est[p] = e /\ Est'[p] = d /\ \A q \in Pid : q # p => Est'[q] = Est[q]
BY DEF PasaDe, Est

(* EnviarProcesoACpu: a context goes out, of a process that nothing        *)
(* mentioned.                                                              *)
LEMMA VueloEnviar ==
  ASSUME InvVuelo, Colas, NEW c \in Cpu, NEW p \in Pid, PasaDe(p, "ready", "exec"),
         EnviarACpu(c, "ENVIAR_CONTEXTO", p), UNCHANGED <<aKernel, estadoCpu, pidCpu>>
  PROVE  InvVuelo'
<1> DEFINE m == MensajeKernel("ENVIAR_CONTEXTO", p)
           n == Len(aCpu[c]) + 1
<1>1. /\ Est[p] = "ready" /\ Est'[p] = "exec"
      /\ \A q \in Pid : q # p => Est'[q] = Est[q]
  BY PasaDeEst
<1>2. /\ \A d \in Cpu : d # c => aCpu'[d] = aCpu[d]
      /\ \A i \in DOMAIN aCpu[c] : i \in DOMAIN aCpu'[c] /\ aCpu'[c][i] = aCpu[c][i]
      /\ \A i \in DOMAIN aCpu'[c] : \/ i \in DOMAIN aCpu[c] /\ aCpu'[c][i] = aCpu[c][i]
                                    \/ i = n /\ aCpu'[c][i] = m
  <2>1. m \in MensajesKernel
    BY DEF MensajeKernel, MensajesKernel
  <2>2. aCpu' = [aCpu EXCEPT ![c] = Append(aCpu[c], m)]
    BY DEF EnviarACpu
  <2>. HIDE DEF m
  <2>3. aCpu'[c] = Append(aCpu[c], m) /\ \A d \in Cpu : d # c => aCpu'[d] = aCpu[d]
    BY <2>2 DEF Colas
  <2>4. aCpu[c] \in Seq(MensajesKernel)
    BY DEF Colas
  <2>. QED BY <2>1, <2>3, <2>4, ColaTrasEnviar
<1>3. \A q : EsContexto(m, q) => q = p
  BY DEF EsContexto, MensajeKernel
<1>. HIDE DEF m, n
<1>4. \A d \in Cpu : ~CorreEn(d, p) /\ ~Ida(d, p) /\ ~Vuelta(d, p)
  BY <1>1 DEF InvVuelo, MencionSoloDeExec, Mencion
<1>5. \A d \in Cpu, q \in Pid : /\ (CorreEn(d, q)' <=> CorreEn(d, q))
                                /\ (Vuelta(d, q)' <=> Vuelta(d, q))
                                /\ Ida(d, q)' => Ida(d, q) \/ (d = c /\ q = p)
  <2>1. \A d \in Cpu, q \in Pid : (CorreEn(d, q)' <=> CorreEn(d, q)) /\ (Vuelta(d, q)' <=> Vuelta(d, q))
    BY DEF CorreEn, Vuelta
  <2>2. ASSUME NEW d \in Cpu, NEW q \in Pid, Ida(d, q)', ~(d = c /\ q = p)
        PROVE  Ida(d, q)
    <3>1. PICK i \in DOMAIN aCpu'[d] : EsContexto(aCpu'[d][i], q)
      BY <2>2 DEF Ida, EsContexto
    <3>2. i \in DOMAIN aCpu[d] /\ aCpu'[d][i] = aCpu[d][i]
      BY <1>2, <1>3, <2>2, <3>1
    <3>. QED BY <3>1, <3>2 DEF Ida
  <2>. QED BY <2>1, <2>2
<1>6. MencionSoloDeExec'
  BY <1>1, <1>5 DEF InvVuelo, MencionSoloDeExec, Mencion
<1>7. MencionEnUnaCpu'
  <2>. SUFFICES ASSUME NEW q \in Pid, NEW a \in Cpu, NEW b \in Cpu,
                       Mencion(a, q)', Mencion(b, q)'
                PROVE  a = b
    BY DEF MencionEnUnaCpu
  <2>1. CASE q = p
    BY <1>4, <1>5, <2>1 DEF Mencion
  <2>2. CASE q # p
    BY <1>5, <2>2 DEF InvVuelo, MencionEnUnaCpu, Mencion
  <2>. QED BY <2>1, <2>2
<1>8. DevolucionEsUltima'
  <2>. SUFFICES ASSUME NEW d \in Cpu, NEW q \in Pid, Est'[q] = "exec",
                       NEW i \in DOMAIN aKernel[d], aKernel[d][i].pid = q,
                       aKernel[d][i].tipo \in Devoluciones
                PROVE  \/ Ultimo(d, q, i)'
                       \/ \E j \in DOMAIN aKernel[d] :
                            j < i /\ aKernel[d][j].pid = q /\ aKernel[d][j].tipo \in Terminales
    BY DEF DevolucionEsUltima
  <2>1. q # p
    BY <1>4 DEF Vuelta
  <2>2. Ultimo(d, q, i) => Ultimo(d, q, i)'
    BY <1>5, <2>1 DEF Ultimo
  <2>. QED BY <1>1, <2>1, <2>2 DEF InvVuelo, DevolucionEsUltima
<1>9. IdaEsUnica'
  <2>. SUFFICES ASSUME NEW d \in Cpu, NEW q \in Pid, Est'[q] = "exec", Ida(d, q)'
                PROVE  /\ ~CorreEn(d, q) /\ ~Vuelta(d, q)
                       /\ \A i, j \in DOMAIN aCpu'[d] :
                            EsContexto(aCpu'[d][i], q) /\ EsContexto(aCpu'[d][j], q) => i = j
    BY <1>5 DEF IdaEsUnica, EsContexto
  <2>1. CASE q = p
    <3>1. d = c
      BY <1>4, <1>5, <2>1
    <3>2. \A i \in DOMAIN aCpu[c] : ~EsContexto(aCpu[c][i], p)
      BY <1>4 DEF Ida
    <3>. QED BY <1>2, <1>4, <2>1, <3>1, <3>2
  <2>2. CASE q # p
    <3>1. Est[q] = "exec" /\ Ida(d, q)
      BY <1>1, <1>5, <2>2
    <3>2. \A i \in DOMAIN aCpu'[d] : EsContexto(aCpu'[d][i], q) =>
            i \in DOMAIN aCpu[d] /\ EsContexto(aCpu[d][i], q)
      BY <1>2, <1>3, <2>2
    <3>. QED BY <3>1, <3>2 DEF InvVuelo, IdaEsUnica
  <2>. QED BY <2>1, <2>2
<1>10. SignalConocido'
  BY DEF InvVuelo, SignalConocido
<1>. QED BY <1>6, <1>7, <1>8, <1>9, <1>10 DEF InvVuelo
-----------------------------------------------------------------------------
(* The kernel reads message m of CPU c and may answer it.                  *)
LeeElKernel(c, m) ==
  /\ aKernel[c] # <<>> /\ m = Head(aKernel[c])
  /\ aKernel' = [aKernel EXCEPT ![c] = Tail(@)]
  /\ \/ UNCHANGED aCpu
     \/ \E tipo \in Pedidos \cup {"FINALIZO_PROGRAMA"} : EnviarACpu(c, tipo, m.pid)
  /\ m.pid \in Pid
  /\ \A p \in Pid : p # m.pid => Est'[p] = Est[p]
  /\ Est'[m.pid] \in {Est[m.pid], "exit"} \/ (Est[m.pid] = "exec" /\ m.tipo \in Devoluciones)
  /\ Est[m.pid] = "exec" /\ m.tipo \in Terminales => Est'[m.pid] = "exit"
  /\ Est[m.pid] # "exec" => Est'[m.pid] # "exec"
  /\ UNCHANGED <<estadoCpu, pidCpu>>

(* Reading keeps what is known of the messages: a process leaves EXEC      *)
(* alive only when nothing else mentions it.                               *)
LEMMA VueloLeer ==
  ASSUME InvVuelo, Colas, NEW c \in Cpu, NEW m, LeeElKernel(c, m)
  PROVE  InvVuelo'
<1> DEFINE p == m.pid
<1>1. /\ m = aKernel[c][1] /\ 1 \in DOMAIN aKernel[c]
      /\ \A d \in Cpu : d # c => aKernel'[d] = aKernel[d]
      /\ \A i \in DOMAIN aKernel'[c] :
           i \in Nat /\ i + 1 \in DOMAIN aKernel[c] /\ aKernel'[c][i] = aKernel[c][i + 1]
      /\ \A i \in DOMAIN aKernel[c] : i \in Nat /\ i > 0
      /\ \A i \in DOMAIN aKernel[c] : i # 1 =>
           i - 1 \in DOMAIN aKernel'[c] /\ aKernel'[c][i - 1] = aKernel[c][i]
  <2>1. aKernel[c] \in Seq(MensajesCpu) /\ aKernel[c] # <<>>
    BY DEF Colas, LeeElKernel
  <2>2. aKernel'[c] = Tail(aKernel[c]) /\ \A d \in Cpu : d # c => aKernel'[d] = aKernel[d]
    BY DEF Colas, LeeElKernel
  <2>3. /\ Head(aKernel[c]) = aKernel[c][1] /\ 1 \in DOMAIN aKernel[c]
        /\ \A i \in DOMAIN aKernel'[c] :
             i \in Nat /\ i + 1 \in DOMAIN aKernel[c] /\ aKernel'[c][i] = aKernel[c][i + 1]
        /\ \A i \in DOMAIN aKernel[c] : i \in Nat /\ i > 0
        /\ \A i \in DOMAIN aKernel[c] : i # 1 => i - 1 \in DOMAIN aKernel'[c]
    BY <2>1, <2>2, ColaTrasLeer
  <2>4. \A i \in DOMAIN aKernel[c] : i # 1 => aKernel'[c][i - 1] = aKernel[c][i]
    BY <2>3
  <2>. QED BY <2>2, <2>3, <2>4 DEF LeeElKernel
<1>2. /\ \A d \in Cpu : d # c => aCpu'[d] = aCpu[d]
      /\ \A i \in DOMAIN aCpu[c] : i \in DOMAIN aCpu'[c] /\ aCpu'[c][i] = aCpu[c][i]
      /\ \A i \in DOMAIN aCpu'[c] : \/ i \in DOMAIN aCpu[c] /\ aCpu'[c][i] = aCpu[c][i]
                                    \/ \A q : ~EsContexto(aCpu'[c][i], q)
  <2>1. CASE UNCHANGED aCpu
    BY <2>1
  <2>2. ASSUME NEW tipo \in Pedidos \cup {"FINALIZO_PROGRAMA"}, EnviarACpu(c, tipo, p)
        PROVE  <1>2
    <3> DEFINE r == MensajeKernel(tipo, p)
    <3>1. r \in MensajesKernel /\ \A q : ~EsContexto(r, q)
      BY <2>2 DEF MensajeKernel, MensajesKernel, EsContexto, LeeElKernel, Pedidos, Consultas
    <3>2. aCpu' = [aCpu EXCEPT ![c] = Append(aCpu[c], r)]
      BY <2>2 DEF EnviarACpu
    <3>. HIDE DEF r
    <3>3. aCpu'[c] = Append(aCpu[c], r) /\ \A d \in Cpu : d # c => aCpu'[d] = aCpu[d]
      BY <3>2 DEF Colas
    <3>4. aCpu[c] \in Seq(MensajesKernel)
      BY DEF Colas
    <3>5. \A i \in DOMAIN aCpu'[c] : \/ i \in DOMAIN aCpu[c] /\ aCpu'[c][i] = aCpu[c][i]
                                     \/ aCpu'[c][i] = r
      BY <3>1, <3>3, <3>4, ColaTrasEnviar
    <3>6. \A i \in DOMAIN aCpu[c] : i \in DOMAIN aCpu'[c] /\ aCpu'[c][i] = aCpu[c][i]
      BY <3>1, <3>3, <3>4, ColaTrasEnviar
    <3>. QED BY <3>1, <3>3, <3>5, <3>6
  <2>. QED BY <2>1, <2>2 DEF LeeElKernel
<1>3. \A d \in Cpu, q \in Pid : /\ (CorreEn(d, q)' <=> CorreEn(d, q))
                                /\ Vuelta(d, q)' => Vuelta(d, q)
                                /\ Ida(d, q)' => Ida(d, q)
  <2>1. \A d \in Cpu, q \in Pid : (CorreEn(d, q)' <=> CorreEn(d, q))
    BY DEF CorreEn, LeeElKernel
  <2>2. \A d \in Cpu, q \in Pid : Vuelta(d, q)' => Vuelta(d, q)
    BY <1>1 DEF Vuelta
  <2>3. \A d \in Cpu, q \in Pid : Ida(d, q)' => Ida(d, q)
    BY <1>2 DEF Ida
  <2>. QED BY <2>1, <2>2, <2>3
<1>4. \A d \in Cpu, q \in Pid : Mencion(d, q)' => Mencion(d, q)
  BY <1>3 DEF Mencion
<1>5. \A q \in Pid : Est'[q] = "exec" => Est[q] = "exec"
  BY DEF LeeElKernel
<1>6. ASSUME Est[p] = "exec", m.tipo \in Devoluciones, NEW d \in Cpu
      PROVE  ~Mencion(d, p)'
  <2>1. \A j \in DOMAIN aKernel[c] : ~(j < 1)
    BY <1>1
  <2>2. Ultimo(c, p, 1)
    BY <1>1, <1>6, <2>1 DEF InvVuelo, DevolucionEsUltima, LeeElKernel
  <2>3. ~Vuelta(c, p)'
    <3>. SUFFICES ASSUME NEW i \in DOMAIN aKernel'[c], aKernel'[c][i].pid = p
                  PROVE  FALSE
      BY DEF Vuelta
    <3>1. i > 0 /\ i + 1 <= 1
      <4>1. i + 1 \in DOMAIN aKernel[c] /\ aKernel[c][i + 1].pid = p /\ i \in Nat
        BY <1>1
      <4>2. DOMAIN aKernel'[c] = 1..Len(aKernel'[c])
        BY HeadTailProperties, LenProperties DEF Colas, LeeElKernel
      <4>. QED BY <2>2, <4>1, <4>2 DEF Ultimo
    <3>2. i \in Nat
      BY <1>1
    <3>. QED BY <3>1, <3>2
  <2>4. ~Mencion(c, p)'
    BY <1>3, <2>2, <2>3 DEF Mencion, Ultimo, LeeElKernel
  <2>5. Mencion(c, p)
    BY <1>1 DEF Mencion, Vuelta
  <2>. QED BY <1>4, <1>6, <2>4, <2>5 DEF InvVuelo, MencionEnUnaCpu, LeeElKernel
<1>7. MencionSoloDeExec'
  <2>. SUFFICES ASSUME NEW d \in Cpu, NEW q \in Pid, Mencion(d, q)'
                PROVE  Est'[q] \in {"exec", "exit"}
    BY DEF MencionSoloDeExec
  <2>1. Est[q] \in {"exec", "exit"}
    BY <1>4 DEF InvVuelo, MencionSoloDeExec
  <2>2. CASE q = p
    BY <1>6, <2>1, <2>2 DEF LeeElKernel
  <2>3. CASE q # p
    BY <2>1, <2>3 DEF LeeElKernel
  <2>. QED BY <2>2, <2>3
<1>8. MencionEnUnaCpu'
  BY <1>4, <1>5 DEF InvVuelo, MencionEnUnaCpu
<1>9. DevolucionEsUltima'
  <2>. SUFFICES ASSUME NEW d \in Cpu, NEW q \in Pid, Est'[q] = "exec",
                       NEW i \in DOMAIN aKernel'[d], aKernel'[d][i].pid = q,
                       aKernel'[d][i].tipo \in Devoluciones
                PROVE  \/ Ultimo(d, q, i)'
                       \/ \E j \in DOMAIN aKernel'[d] :
                            j < i /\ aKernel'[d][j].pid = q /\ aKernel'[d][j].tipo \in Terminales
    BY DEF DevolucionEsUltima
  <2>1. Est[q] = "exec"
    BY <1>5
  <2>2. CASE d # c
    <3>1. aKernel'[d] = aKernel[d]
      BY <1>1, <2>2
    <3>2. Ultimo(d, q, i) => Ultimo(d, q, i)'
      BY <1>3, <3>1 DEF Ultimo
    <3>. QED BY <2>1, <3>1, <3>2 DEF InvVuelo, DevolucionEsUltima
  <2>3. CASE d = c
    <3>1. /\ i \in Nat /\ i + 1 \in DOMAIN aKernel[c] /\ aKernel[c][i + 1].pid = q
          /\ aKernel[c][i + 1].tipo \in Devoluciones
      BY <1>1, <2>3
    <3>2. CASE Ultimo(c, q, i + 1)
      <4>1. \A k \in DOMAIN aKernel'[c] : aKernel'[c][k].pid = q => k <= i
        <5>. SUFFICES ASSUME NEW k \in DOMAIN aKernel'[c], aKernel'[c][k].pid = q
                      PROVE  k <= i
          OBVIOUS
        <5>1. k \in Nat /\ k + 1 \in DOMAIN aKernel[c] /\ aKernel[c][k + 1].pid = q
          BY <1>1
        <5>2. k + 1 <= i + 1
          BY <3>2, <5>1 DEF Ultimo
        <5>. QED BY <3>1, <5>1, <5>2
      <4>. QED BY <1>3, <2>3, <3>2, <4>1 DEF Ultimo
    <3>3. ASSUME NEW j \in DOMAIN aKernel[c], j < i + 1, aKernel[c][j].pid = q,
                 aKernel[c][j].tipo \in Terminales
          PROVE  \E k \in DOMAIN aKernel'[c] :
                   k < i /\ aKernel'[c][k].pid = q /\ aKernel'[c][k].tipo \in Terminales
      <4>1. j # 1
        BY <1>1, <2>1, <3>3 DEF LeeElKernel
      <4>2. j - 1 \in DOMAIN aKernel'[c] /\ aKernel'[c][j - 1] = aKernel[c][j] /\ j - 1 < i
        BY <1>1, <3>1, <3>3, <4>1
      <4>. QED BY <3>3, <4>2
    <3>. QED BY <2>1, <2>3, <3>1, <3>2, <3>3 DEF InvVuelo, DevolucionEsUltima
  <2>. QED BY <2>2, <2>3
<1>10. IdaEsUnica'
  <2>. SUFFICES ASSUME NEW d \in Cpu, NEW q \in Pid, Est'[q] = "exec", Ida(d, q)'
                PROVE  /\ ~CorreEn(d, q)' /\ ~Vuelta(d, q)'
                       /\ \A i, j \in DOMAIN aCpu'[d] :
                            EsContexto(aCpu'[d][i], q) /\ EsContexto(aCpu'[d][j], q) => i = j
    BY DEF IdaEsUnica, EsContexto
  <2>1. Est[q] = "exec" /\ Ida(d, q)
    BY <1>3, <1>5
  <2>2. \A i \in DOMAIN aCpu'[d] : EsContexto(aCpu'[d][i], q) =>
          i \in DOMAIN aCpu[d] /\ EsContexto(aCpu[d][i], q)
    BY <1>2
  <2>. QED BY <1>3, <2>1, <2>2 DEF InvVuelo, IdaEsUnica
<1>11. SignalConocido'
  BY <1>1 DEF InvVuelo, SignalConocido
<1>. QED BY <1>7, <1>8, <1>9, <1>10, <1>11 DEF InvVuelo
-----------------------------------------------------------------------------
(* What a CPU does, other than taking a context: it may read something     *)
(* else, it may send messages about the process that it runs, and it does  *)
(* not begin to run another one.                                           *)
Corriendo == {"ejecuta", "respuesta"}

TrabajaLaCpu(c) ==
  /\ Est' = Est
  /\ \A d \in Cpu : d # c => /\ aKernel'[d] = aKernel[d] /\ aCpu'[d] = aCpu[d]
                             /\ estadoCpu'[d] = estadoCpu[d] /\ pidCpu'[d] = pidCpu[d]
  /\ aCpu'[c] = aCpu[c] \/ (aCpu[c] # <<>> /\ aCpu'[c] = Tail(aCpu[c]))
  /\ estadoCpu'[c] \in Corriendo => estadoCpu[c] \in Corriendo /\ pidCpu'[c] = pidCpu[c]
  /\ \A i \in DOMAIN aKernel[c] : i \in DOMAIN aKernel'[c] /\ aKernel'[c][i] = aKernel[c][i]
  /\ \A i \in DOMAIN aKernel'[c] :
       \/ i \in DOMAIN aKernel[c] /\ aKernel'[c][i] = aKernel[c][i]
       \/ /\ estadoCpu[c] \in Corriendo /\ aKernel'[c][i].pid = pidCpu[c]
          /\ aKernel'[c][i].tipo \in Devoluciones =>
               estadoCpu'[c] \notin Corriendo /\ \A k \in DOMAIN aKernel'[c] : k <= i
          /\ aKernel'[c][i].tipo = "SIGNAL" => aKernel'[c][i].sem \in Semaforo

(* None of that mentions a process where it was not mentioned.             *)
LEMMA MencionTrasTrabajo ==
  ASSUME Colas, NEW c \in Cpu, TrabajaLaCpu(c)
  PROVE  \A d \in Cpu, q \in Pid : /\ Ida(d, q)' => Ida(d, q)
                                   /\ CorreEn(d, q)' => CorreEn(d, q)
                                   /\ Vuelta(d, q)' => Vuelta(d, q) \/ CorreEn(d, q)
                                   /\ Mencion(d, q)' => Mencion(d, q)
<1>1. \A d \in Cpu, q \in Pid : Ida(d, q)' => Ida(d, q)
  <2>1. ASSUME aCpu[c] # <<>>, aCpu'[c] = Tail(aCpu[c])
        PROVE  \A i \in DOMAIN aCpu'[c] : i + 1 \in DOMAIN aCpu[c] /\ aCpu'[c][i] = aCpu[c][i + 1]
    BY <2>1, ColaTrasLeer DEF Colas
  <2>. QED BY <2>1 DEF Ida, TrabajaLaCpu
<1>2. \A d \in Cpu, q \in Pid : CorreEn(d, q)' => CorreEn(d, q)
  BY DEF CorreEn, TrabajaLaCpu, Corriendo
<1>3. \A d \in Cpu, q \in Pid : Vuelta(d, q)' => Vuelta(d, q) \/ CorreEn(d, q)
  <2>. SUFFICES ASSUME NEW d \in Cpu, NEW q \in Pid, Vuelta(d, q)'
                PROVE  Vuelta(d, q) \/ CorreEn(d, q)
    OBVIOUS
  <2>1. PICK i \in DOMAIN aKernel'[d] : aKernel'[d][i].pid = q
    BY DEF Vuelta
  <2>2. CASE d # c
    BY <2>1, <2>2 DEF Vuelta, TrabajaLaCpu
  <2>3. CASE d = c
    BY <2>1, <2>3 DEF Vuelta, CorreEn, TrabajaLaCpu, Corriendo
  <2>. QED BY <2>2, <2>3
<1>4. \A d \in Cpu, q \in Pid : Mencion(d, q)' => Mencion(d, q)
  BY <1>1, <1>2, <1>3 DEF Mencion
<1>. QED BY <1>1, <1>2, <1>3, <1>4

(* Nor does it break what is known of the messages.                        *)
LEMMA VueloTrabajo ==
  ASSUME InvVuelo, Colas, NEW c \in Cpu, TrabajaLaCpu(c)
  PROVE  InvVuelo'
<1>1. \A d \in Cpu, q \in Pid : Ida(d, q)' => Ida(d, q)
  BY MencionTrasTrabajo
<1>2. \A d \in Cpu, q \in Pid : CorreEn(d, q)' => CorreEn(d, q)
  BY MencionTrasTrabajo
<1>3. \A d \in Cpu, q \in Pid : Vuelta(d, q)' => Vuelta(d, q) \/ CorreEn(d, q)
  BY MencionTrasTrabajo
<1>4. \A d \in Cpu, q \in Pid : Mencion(d, q)' => Mencion(d, q)
  BY MencionTrasTrabajo
<1>5. MencionSoloDeExec' /\ MencionEnUnaCpu'
  <2>1. Est' = Est
    BY DEF TrabajaLaCpu
  <2>. QED BY <1>4, <2>1 DEF InvVuelo, MencionSoloDeExec, MencionEnUnaCpu
<1>6. DevolucionEsUltima'
  <2>. SUFFICES ASSUME NEW d \in Cpu, NEW q \in Pid, Est'[q] = "exec",
                       NEW i \in DOMAIN aKernel'[d], aKernel'[d][i].pid = q,
                       aKernel'[d][i].tipo \in Devoluciones
                PROVE  \/ Ultimo(d, q, i)'
                       \/ \E j \in DOMAIN aKernel'[d] :
                            j < i /\ aKernel'[d][j].pid = q /\ aKernel'[d][j].tipo \in Terminales
    BY DEF DevolucionEsUltima
  <2>1. Est[q] = "exec"
    BY DEF TrabajaLaCpu
  <2>2. ASSUME Ultimo(d, q, i) PROVE Ultimo(d, q, i)'
    <3>1. \A k \in DOMAIN aKernel'[d] : aKernel'[d][k].pid = q =>
            k \in DOMAIN aKernel[d] /\ aKernel[d][k].pid = q
      <4>1. CASE d # c
        BY <4>1 DEF TrabajaLaCpu
      <4>2. CASE d = c
        BY <2>2, <4>2 DEF TrabajaLaCpu, Ultimo, CorreEn, Corriendo
      <4>. QED BY <4>1, <4>2
    <3>. QED BY <1>1, <1>2, <2>2, <3>1 DEF Ultimo
  <2>3. CASE i \in DOMAIN aKernel[d] /\ aKernel'[d][i] = aKernel[d][i]
    <3>1. \/ Ultimo(d, q, i)
          \/ \E j \in DOMAIN aKernel[d] :
               j < i /\ aKernel[d][j].pid = q /\ aKernel[d][j].tipo \in Terminales
      BY <2>1, <2>3 DEF InvVuelo, DevolucionEsUltima
    <3>2. \A j \in DOMAIN aKernel[d] : j \in DOMAIN aKernel'[d] /\ aKernel'[d][j] = aKernel[d][j]
      BY DEF TrabajaLaCpu
    <3>. QED BY <2>2, <3>1, <3>2
  <2>4. CASE ~(i \in DOMAIN aKernel[d] /\ aKernel'[d][i] = aKernel[d][i])
    <3>1. d = c
      BY <2>4 DEF TrabajaLaCpu
    <3>2. /\ CorreEn(c, q) /\ ~CorreEn(c, q)'
          /\ \A k \in DOMAIN aKernel'[c] : k <= i
      BY <2>4, <3>1 DEF TrabajaLaCpu, CorreEn, Corriendo
    <3>3. ~Ida(c, q)
      BY <2>1, <3>2 DEF InvVuelo, IdaEsUnica
    <3>. QED BY <1>1, <3>1, <3>2, <3>3 DEF Ultimo
  <2>. QED BY <2>3, <2>4
<1>7. IdaEsUnica'
  <2>. SUFFICES ASSUME NEW d \in Cpu, NEW q \in Pid, Est'[q] = "exec", Ida(d, q)'
                PROVE  /\ ~CorreEn(d, q)' /\ ~Vuelta(d, q)'
                       /\ \A i, j \in DOMAIN aCpu'[d] :
                            EsContexto(aCpu'[d][i], q) /\ EsContexto(aCpu'[d][j], q) => i = j
    BY DEF IdaEsUnica, EsContexto
  <2>1. Est[q] = "exec" /\ Ida(d, q)
    BY <1>1 DEF TrabajaLaCpu
  <2>2. /\ ~CorreEn(d, q) /\ ~Vuelta(d, q)
        /\ \A i, j \in DOMAIN aCpu[d] :
             EsContexto(aCpu[d][i], q) /\ EsContexto(aCpu[d][j], q) => i = j
    BY <2>1 DEF InvVuelo, IdaEsUnica
  <2>3. CASE aCpu'[d] = aCpu[d]
    BY <1>2, <1>3, <2>2, <2>3
  <2>4. CASE aCpu[d] # <<>> /\ aCpu'[d] = Tail(aCpu[d])
    <3>1. \A i \in DOMAIN aCpu'[d] :
            i \in Nat /\ i + 1 \in DOMAIN aCpu[d] /\ aCpu'[d][i] = aCpu[d][i + 1]
      BY <2>4, ColaTrasLeer DEF Colas
    <3>2. \A i, j \in Nat : i + 1 = j + 1 => i = j
      OBVIOUS
    <3>. QED BY <1>2, <1>3, <2>2, <3>1, <3>2
  <2>. QED BY <2>3, <2>4 DEF TrabajaLaCpu
<1>8. SignalConocido'
  <2>. SUFFICES ASSUME NEW d \in Cpu, NEW i \in DOMAIN aKernel'[d], aKernel'[d][i].tipo = "SIGNAL"
                PROVE  aKernel'[d][i].sem \in Semaforo
    BY DEF SignalConocido
  <2>1. CASE i \in DOMAIN aKernel[d] /\ aKernel'[d][i] = aKernel[d][i]
    BY <2>1 DEF InvVuelo, SignalConocido
  <2>2. CASE ~(i \in DOMAIN aKernel[d] /\ aKernel'[d][i] = aKernel[d][i])
    BY <2>2 DEF TrabajaLaCpu
  <2>. QED BY <2>1, <2>2
<1>. QED BY <1>5, <1>6, <1>7, <1>8 DEF InvVuelo

(* A CPU takes a context: what was on its way is now running.              *)
LEMMA VueloContexto ==
  ASSUME InvVuelo, Colas, TypeOKProcesador, NEW c \in Cpu, RecibirContexto(c), Est' = Est
  PROVE  InvVuelo'
<1> DEFINE p == Head(aCpu[c]).pid
<1>1. /\ EsContexto(aCpu[c][1], p) /\ 1 \in DOMAIN aCpu[c]
      /\ \A d \in Cpu : d # c => aCpu'[d] = aCpu[d]
      /\ \A i \in DOMAIN aCpu'[c] :
           i \in Nat /\ i > 0 /\ i + 1 \in DOMAIN aCpu[c] /\ aCpu'[c][i] = aCpu[c][i + 1]
  <2>1. aCpu[c] \in Seq(MensajesKernel) /\ aCpu[c] # <<>>
    BY DEF Colas, RecibirContexto
  <2>2. aCpu'[c] = Tail(aCpu[c]) /\ \A d \in Cpu : d # c => aCpu'[d] = aCpu[d]
    BY DEF Colas, RecibirContexto, Leer
  <2>3. /\ Head(aCpu[c]) = aCpu[c][1] /\ 1 \in DOMAIN aCpu[c]
        /\ \A i \in DOMAIN aCpu'[c] :
             i \in Nat /\ i + 1 \in DOMAIN aCpu[c] /\ aCpu'[c][i] = aCpu[c][i + 1]
    BY <2>1, <2>2, ColaTrasLeer
  <2>4. \A i \in DOMAIN aCpu'[c] : i > 0
    <3>1. Tail(aCpu[c]) \in Seq(MensajesKernel)
      BY <2>1, HeadTailProperties
    <3>. QED BY <2>2, <3>1, LenProperties
  <2>. QED BY <2>2, <2>3, <2>4 DEF EsContexto, RecibirContexto
<1>2. /\ aKernel' = aKernel
      /\ \A d \in Cpu, q \in Pid : CorreEn(d, q)' => CorreEn(d, q) \/ (d = c /\ q = p)
  <2>1. /\ estadoCpu' = [estadoCpu EXCEPT ![c] = "ejecuta"] /\ pidCpu' = [pidCpu EXCEPT ![c] = p]
        /\ aKernel' = aKernel
    BY DEF RecibirContexto, Pasar
  <2>. HIDE DEF p
  <2>. QED BY <2>1 DEF CorreEn, TypeOKProcesador
<1>. HIDE DEF p
<1>3. \A d \in Cpu, q \in Pid : Ida(d, q)' => Ida(d, q)
  BY <1>1 DEF Ida
<1>4. Ida(c, p)
  BY <1>1 DEF Ida
<1>5. \A d \in Cpu, q \in Pid : Vuelta(d, q)' => Vuelta(d, q)
  BY <1>2 DEF Vuelta
<1>6. \A d \in Cpu, q \in Pid : Mencion(d, q)' => Mencion(d, q)
  BY <1>2, <1>3, <1>4, <1>5 DEF Mencion
<1>7. MencionSoloDeExec' /\ MencionEnUnaCpu'
  BY <1>6 DEF InvVuelo, MencionSoloDeExec, MencionEnUnaCpu
<1>8. DevolucionEsUltima'
  <2>1. \A d \in Cpu, q \in Pid : \A i \in DOMAIN aKernel[d] : Ultimo(d, q, i) => Ultimo(d, q, i)'
    BY <1>2, <1>3, <1>4 DEF Ultimo
  <2>. QED BY <1>2, <2>1 DEF InvVuelo, DevolucionEsUltima
<1>9. IdaEsUnica'
  <2>. SUFFICES ASSUME NEW d \in Cpu, NEW q \in Pid, Est'[q] = "exec", Ida(d, q)'
                PROVE  /\ ~CorreEn(d, q)' /\ ~Vuelta(d, q)'
                       /\ \A i, j \in DOMAIN aCpu'[d] :
                            EsContexto(aCpu'[d][i], q) /\ EsContexto(aCpu'[d][j], q) => i = j
    BY DEF IdaEsUnica, EsContexto
  <2>1. /\ ~CorreEn(d, q) /\ ~Vuelta(d, q)
        /\ \A i, j \in DOMAIN aCpu[d] :
             EsContexto(aCpu[d][i], q) /\ EsContexto(aCpu[d][j], q) => i = j
    BY <1>3 DEF InvVuelo, IdaEsUnica
  <2>2. CASE d # c
    BY <1>1, <1>2, <1>5, <2>1, <2>2
  <2>3. CASE d = c
    <3>1. q # p
      <4>1. PICK i \in DOMAIN aCpu'[c] : EsContexto(aCpu'[c][i], q)
        BY <2>3 DEF Ida, EsContexto
      <4>2. EsContexto(aCpu[c][i + 1], q) /\ i + 1 \in DOMAIN aCpu[c] /\ i + 1 # 1
        BY <1>1, <4>1
      <4>. QED BY <1>1, <2>1, <2>3, <4>2
    <3>2. \A i, j \in Nat : i + 1 = j + 1 => i = j
      OBVIOUS
    <3>. QED BY <1>1, <1>2, <1>5, <2>1, <2>3, <3>1, <3>2
  <2>. QED BY <2>2, <2>3
<1>10. SignalConocido'
  BY <1>2 DEF InvVuelo, SignalConocido
<1>. QED BY <1>7, <1>8, <1>9, <1>10 DEF InvVuelo
-----------------------------------------------------------------------------
(* Each step of the system is one of those.                                *)

(* The handlers of a message, as in AtenderCpu.                            *)
Trata(c, m) ==
  \/ FinalizoEjecucion(c, m) \/ FinalizoConError(c, m) \/ FinalizoQuantum(c, m)
  \/ PidioArchivo(c, m) \/ Wait(c, m) \/ Signal(c, m) \/ Consulta(c, m)
  \/ AlocarBien(c, m) \/ AlocarMal(c, m)

(* The handlers of the messages move the process that the message names,   *)
(* and only if it is in EXEC or they end it.                               *)
LEMMA EstTrata ==
  ASSUME TipoListas, UnicaLista, numeroPid' = numeroPid, NEW c \in Cpu, NEW m, m.pid \in Pid,
         Trata(c, m)
  PROVE  /\ \A p \in Pid : p # m.pid => Est'[p] = Est[p]
         /\ Est'[m.pid] \in {Est[m.pid], "exit"} \/ (Est[m.pid] = "exec" /\ m.tipo \in Devoluciones)
         /\ Est[m.pid] = "exec" /\ m.tipo \in Terminales => Est'[m.pid] = "exit"
         /\ Est[m.pid] # "exec" => Est'[m.pid] # "exec"
         /\ \/ UNCHANGED aCpu
            \/ \E tipo \in Pedidos \cup {"FINALIZO_PROGRAMA"} : EnviarACpu(c, tipo, m.pid)
<1>1. CASE FinalizoEjecucion(c, m) \/ FinalizoConError(c, m)
  <2>1. MoverProgramaDeExecAExit(m.pid) /\ DevolverCpu(c)
    BY <1>1 DEF FinalizoEjecucion, FinalizoConError
  <2>2. PasaDe(m.pid, "exec", "exit") \/ (Est[m.pid] # "exec" /\ Est' = Est)
    BY <2>1, EstExecAExit
  <2>. QED BY <2>1, <2>2, PasaDeEst DEF DevolverCpu
<1>2. CASE FinalizoQuantum(c, m) \/ PidioArchivo(c, m) \/ Wait(c, m)
  <2>1. /\ MoverDeExec(m.pid, "ready") \/ MoverDeExec(m.pid, "blocked")
        /\ DevolverCpu(c) /\ m.tipo \in Devoluciones
    BY <1>2 DEF FinalizoQuantum, PidioArchivo, Wait, Devoluciones
  <2>2. \/ PasaDe(m.pid, "exec", "ready") \/ PasaDe(m.pid, "exec", "blocked")
        \/ Est[m.pid] # "exec" /\ Est' = Est
    BY <2>1, EstMoverDeExec
  <2>. QED BY <2>1, <2>2, PasaDeEst DEF DevolverCpu, Devoluciones, Terminales
<1>3. CASE Signal(c, m) \/ Consulta(c, m) \/ AlocarBien(c, m)
  <2>1. UNCHANGED listas /\ m.tipo \notin Terminales
    BY <1>3 DEF Signal, Consulta, AlocarBien, Terminales, Consultas
  <2>2. \E tipo \in Pedidos : EnviarACpu(c, tipo, m.pid)
    BY <1>3 DEF Signal, Consulta, AlocarBien, Pedidos
  <2>. QED BY <2>1, <2>2, EstSinMover
<1>4. CASE AlocarMal(c, m)
  <2>1. /\ FinalizarPrograma(m.pid, "LIMITE_PAGINA") /\ m.tipo \notin Terminales
        /\ EnviarACpu(c, "FINALIZO_PROGRAMA", m.pid) \/ UNCHANGED aCpu
    BY <1>4 DEF AlocarMal, Terminales
  <2>2. PasaDe(m.pid, Est[m.pid], "exit") \/ Est' = Est
    BY <2>1, EstFinalizar
  <2>. QED BY <2>1, <2>2, PasaDeEst
<1>. QED BY <1>1, <1>2, <1>3, <1>4 DEF Trata

(* The kernel that attends a CPU does LeeElKernel.                         *)
LEMMA AtenderCpuLee ==
  ASSUME TipoKernel, UnicaLista, NEW c \in Cpu, AtenderCpu(c), UNCHANGED procesador
  PROVE  \E m \in ToSet(aKernel[c]) :
           Recibir(c, m) /\ Trata(c, m) /\ LeeElKernel(c, m) /\ m = aKernel[c][1]
<1>1. PICK m \in ToSet(aKernel[c]) : Recibir(c, m) /\ Trata(c, m)
  BY DEF AtenderCpu, Trata
<1>2. m.pid \in Pid /\ TipoListas /\ numeroPid' = numeroPid
  BY <1>1, TipoMensaje DEF Recibir, TipoKernel, TypeOK, TipoListas
<1>3. LeeElKernel(c, m)
  BY <1>1, <1>2, EstTrata DEF Recibir, LeeElKernel, procesador
<1>. QED BY <1>1, <1>3 DEF LeeElKernel

(* The other steps of the kernel move processes that are not running, or   *)
(* end one.                                                                *)
LEMMA KernelFueraDeVuelo ==
  ASSUME TipoKernel, UnicaLista, NextKernel,
         ~\E c \in Cpu : AtenderCpu(c) \/ EnviarProcesoACpu(c)
  PROVE  FueraDeVuelo /\ UNCHANGED <<aKernel, aCpu>>
<1>t. TipoListas
  BY DEF TipoKernel, TypeOK, TipoListas
<1>0. ASSUME NEW p \in Pid, NEW e \in {"inexistente", "new", "ready", "exec", "blocked"},
             NEW d \in {"new", "ready", "exit"}, PasaDe(p, e, d), e # "exec" \/ d = "exit"
      PROVE  FueraDeVuelo
  BY <1>0, PasaDeEst DEF FueraDeVuelo
<1>1. CASE PasoSinListas
  BY <1>1, EstSinListas DEF FueraDeVuelo
<1>2. CASE NuevoPrograma
  BY <1>2, <1>0, EstNuevoPrograma DEF NuevoPrograma
<1>3. ASSUME NEW p \in Pid, AtenderPrograma(p)
      PROVE  FueraDeVuelo /\ UNCHANGED <<aKernel, aCpu>>
  <2>1. (PasaDe(p, Est[p], "exit") /\ Est[p] \in Vivo) \/ Est' = Est
    BY <1>3, <1>t, EstFinalizar DEF AtenderPrograma
  <2>. QED BY <1>3, <2>1, <1>0 DEF AtenderPrograma, Vivo, FueraDeVuelo
<1>4. ASSUME NEW p \in Pid,
             \/ PasarBloqueado(p) \/ AtenderES(p) \/ AtenderESConError(p)
             \/ AtenderWait(p) \/ AtenderWaitDesconocido(p)
      PROVE  FueraDeVuelo /\ UNCHANGED <<aKernel, aCpu>>
  <2>1. EnBloqueado(p)
    BY <1>4 DEF PasarBloqueado, AtenderES, AtenderESConError, AtenderWait,
                AtenderWaitDesconocido, PorAtender
  <2>2. Est[p] = "blocked" /\ numeroPid' = numeroPid
    BY <2>1, EstEnBloqueado
  <2>3. UNCHANGED listas \/ ABlockedReady \/ AtenderESConError(p)
    BY <1>4 DEF PasarBloqueado, AtenderES, AtenderWait, AtenderWaitDesconocido, SalirSiPuede
  <2>4. CASE UNCHANGED listas
    BY <2>1, <2>4, EstEnBloqueado DEF EnBloqueado, canales, FueraDeVuelo
  <2>5. CASE ABlockedReady
    BY <2>1, <2>5, EstEnBloqueado, <1>0 DEF EnBloqueado, canales
  <2>6. CASE AtenderESConError(p)
    <3>1. p \in En("blocked")
      BY <2>2, EstadoEnLista
    <3>2. PasaDe(p, "blocked", "exit")
      BY <2>2, <2>6, <3>1, <1>t, EstMover DEF AtenderESConError, FinalizarProgramaConError
    <3>. QED BY <2>1, <3>2, <1>0 DEF EnBloqueado, canales
  <2>. QED BY <2>3, <2>4, <2>5, <2>6
<1>5. CASE AdmitirNuevo
  BY <1>5, <1>0, EstAdmitirNuevo DEF AdmitirNuevo, canales
<1>. QED BY <1>1, <1>2, <1>3, <1>4, <1>5 DEF NextKernel, PasoSinListas

(* The kernel keeps what is known of the messages.                         *)
LEMMA VueloKernel ==
  ASSUME InvTipo, UnicaLista, InvVuelo, PasoDeKernel
  PROVE  InvVuelo'
<1>t. Colas /\ TipoKernel /\ NextKernel /\ UNCHANGED procesador
  BY DEF InvTipo, TipoKernel, TypeOK, TypeOKCanales, Colas, PasoDeKernel
<1>1. ASSUME NEW c \in Cpu, AtenderCpu(c)
      PROVE  InvVuelo'
  BY <1>1, <1>t, AtenderCpuLee, VueloLeer
<1>2. ASSUME NEW c \in Cpu, EnviarProcesoACpu(c)
      PROVE  InvVuelo'
  BY <1>2, <1>t, EstEnviarProceso, VueloEnviar DEF EnviarProcesoACpu, procesador
<1>3. CASE ~\E c \in Cpu : AtenderCpu(c) \/ EnviarProcesoACpu(c)
  BY <1>3, <1>t, KernelFueraDeVuelo, VueloQuieto DEF SinVuelos, procesador
<1>. QED BY <1>1, <1>2, <1>3

(* What is sent to the kernel goes after what was there.                   *)
LEMMA ColaTrasAgregar ==
  ASSUME Colas, NEW c \in Cpu, NEW m \in MensajesCpu,
         EnviarAKernel(c, <<m>>) \/ EnviarAKernel(c, <<m, m>>)
  PROVE  /\ \A d \in Cpu : d # c => aKernel'[d] = aKernel[d]
         /\ \A i \in DOMAIN aKernel[c] : i \in DOMAIN aKernel'[c] /\ aKernel'[c][i] = aKernel[c][i]
         /\ \A i \in DOMAIN aKernel'[c] :
              (i \in DOMAIN aKernel[c] /\ aKernel'[c][i] = aKernel[c][i]) \/ aKernel'[c][i] = m
         /\ EnviarAKernel(c, <<m>>) =>
              \A i \in DOMAIN aKernel'[c] :
                \/ i \in DOMAIN aKernel[c] /\ aKernel'[c][i] = aKernel[c][i]
                \/ \A k \in DOMAIN aKernel'[c] : k <= i
<1>1. aKernel[c] \in Seq(MensajesCpu) /\ Len(aKernel[c]) \in Nat
      /\ DOMAIN aKernel[c] = 1..Len(aKernel[c])
  BY LenProperties DEF Colas
<1>2. ASSUME NEW ms \in Seq(MensajesCpu), EnviarAKernel(c, ms)
      PROVE  /\ \A d \in Cpu : d # c => aKernel'[d] = aKernel[d]
             /\ DOMAIN aKernel'[c] = 1..(Len(aKernel[c]) + Len(ms))
             /\ \A i \in 1..(Len(aKernel[c]) + Len(ms)) :
                  aKernel'[c][i] = IF i <= Len(aKernel[c]) THEN aKernel[c][i]
                                                           ELSE ms[i - Len(aKernel[c])]
  <2>1. aKernel'[c] = aKernel[c] \o ms /\ \A d \in Cpu : d # c => aKernel'[d] = aKernel[d]
    BY <1>2 DEF EnviarAKernel, Colas
  <2>. QED BY <1>1, <2>1, ConcatProperties, LenProperties
<1>3. /\ <<m>> \in Seq(MensajesCpu) /\ Len(<<m>>) = 1 /\ <<m>>[1] = m
      /\ <<m, m>> \in Seq(MensajesCpu) /\ Len(<<m, m>>) = 2
      /\ <<m, m>>[1] = m /\ <<m, m>>[2] = m
  OBVIOUS
<1>4. CASE EnviarAKernel(c, <<m>>)
  <2>1. /\ \A d \in Cpu : d # c => aKernel'[d] = aKernel[d]
        /\ DOMAIN aKernel'[c] = 1..(Len(aKernel[c]) + 1)
        /\ \A i \in 1..(Len(aKernel[c]) + 1) :
             aKernel'[c][i] = IF i <= Len(aKernel[c]) THEN aKernel[c][i]
                                                      ELSE <<m>>[i - Len(aKernel[c])]
    BY <1>2, <1>3, <1>4
  <2>2. aKernel'[c][Len(aKernel[c]) + 1] = m
    BY <1>1, <1>3, <2>1
  <2>3. \A i \in 1..(Len(aKernel[c]) + 1) : i \in 1..Len(aKernel[c]) \/ i = Len(aKernel[c]) + 1
    BY <1>1
  <2>. QED BY <1>1, <2>1, <2>2, <2>3
<1>5. CASE EnviarAKernel(c, <<m, m>>) /\ ~EnviarAKernel(c, <<m>>)
  <2>1. /\ \A d \in Cpu : d # c => aKernel'[d] = aKernel[d]
        /\ DOMAIN aKernel'[c] = 1..(Len(aKernel[c]) + 2)
        /\ \A i \in 1..(Len(aKernel[c]) + 2) :
             aKernel'[c][i] = IF i <= Len(aKernel[c]) THEN aKernel[c][i]
                                                      ELSE <<m, m>>[i - Len(aKernel[c])]
    BY <1>2, <1>3, <1>5
  <2>2. aKernel'[c][Len(aKernel[c]) + 1] = m /\ aKernel'[c][Len(aKernel[c]) + 2] = m
    BY <1>1, <1>3, <2>1
  <2>3. \A i \in 1..(Len(aKernel[c]) + 2) :
          i \in 1..Len(aKernel[c]) \/ i = Len(aKernel[c]) + 1 \/ i = Len(aKernel[c]) + 2
    BY <1>1
  <2>. QED BY <1>1, <1>5, <2>1, <2>2, <2>3
<1>. QED BY <1>4, <1>5

(* A CPU that leaves the channels alone and does not begin a burst.        *)
LEMMA TrabajoMudo ==
  ASSUME TypeOKProcesador, NEW c \in Cpu, Est' = Est, UNCHANGED <<aKernel, aCpu>>,
         NEW e \in EstadosCpu, e \in Corriendo => estadoCpu[c] \in Corriendo,
         estadoCpu' = [estadoCpu EXCEPT ![c] = e],
         \/ pidCpu' = pidCpu
         \/ e \notin Corriendo /\ pidCpu' = [pidCpu EXCEPT ![c] = 0]
  PROVE  TrabajaLaCpu(c)
BY DEF TrabajaLaCpu, TypeOKProcesador

(* The end of a burst: the CPU is not running and has no process.          *)
LEMMA FinDeRafagaQuieta ==
  ASSUME TypeOKProcesador, NEW c \in Cpu, NEW desde, TerminarRafaga(c, desde)
  PROVE  \E e \in {"contexto", "terminado"} :
           /\ estadoCpu[c] = desde /\ estadoCpu' = [estadoCpu EXCEPT ![c] = e]
           /\ pidCpu' = [pidCpu EXCEPT ![c] = 0]
BY DEF TerminarRafaga, Descartar, Pasar

(* A CPU that sends one or two messages about its process.                 *)
LEMMA TrabajoQueEnvia ==
  ASSUME TypeOKProcesador, Colas, NEW c \in Cpu, Est' = Est, estadoCpu[c] \in Corriendo,
         NEW m \in MensajesCpu, m.pid = pidCpu[c],
         aCpu' = aCpu \/ (aCpu[c] # <<>> /\ Leer(c)),
         \/ EnviarAKernel(c, <<m>>)
         \/ EnviarAKernel(c, <<m, m>>) /\ m.tipo \notin Devoluciones,
         NEW e \in EstadosCpu, estadoCpu' = [estadoCpu EXCEPT ![c] = e],
         e \in Corriendo => m.tipo \notin Devoluciones,
         pidCpu' = pidCpu \/ (e \notin Corriendo /\ pidCpu' = [pidCpu EXCEPT ![c] = 0]),
         m.tipo = "SIGNAL" => m.sem \in Semaforo
  PROVE  TrabajaLaCpu(c)
<1>1. /\ \A d \in Cpu : d # c => aKernel'[d] = aKernel[d]
      /\ \A i \in DOMAIN aKernel[c] : i \in DOMAIN aKernel'[c] /\ aKernel'[c][i] = aKernel[c][i]
  BY ColaTrasAgregar
<1>2. \A i \in DOMAIN aKernel'[c] :
        \/ i \in DOMAIN aKernel[c] /\ aKernel'[c][i] = aKernel[c][i]
        \/ /\ aKernel'[c][i] = m
           /\ m.tipo \in Devoluciones => \A k \in DOMAIN aKernel'[c] : k <= i
  <2>1. CASE EnviarAKernel(c, <<m>>)
    BY <2>1, ColaTrasAgregar
  <2>2. CASE EnviarAKernel(c, <<m, m>>) /\ m.tipo \notin Devoluciones
    BY <2>2, ColaTrasAgregar
  <2>. QED BY <2>1, <2>2
<1>3. /\ \A d \in Cpu : d # c => aCpu'[d] = aCpu[d]
      /\ aCpu'[c] = aCpu[c] \/ (aCpu[c] # <<>> /\ aCpu'[c] = Tail(aCpu[c]))
  BY DEF Leer, Colas
<1>4. /\ \A d \in Cpu : d # c => estadoCpu'[d] = estadoCpu[d] /\ pidCpu'[d] = pidCpu[d]
      /\ estadoCpu'[c] = e
      /\ e \in Corriendo => pidCpu'[c] = pidCpu[c]
  BY DEF TypeOKProcesador
<1>5. \A i \in DOMAIN aKernel'[c] :
        \/ i \in DOMAIN aKernel[c] /\ aKernel'[c][i] = aKernel[c][i]
        \/ /\ estadoCpu[c] \in Corriendo /\ aKernel'[c][i].pid = pidCpu[c]
           /\ aKernel'[c][i].tipo \in Devoluciones =>
                estadoCpu'[c] \notin Corriendo /\ \A k \in DOMAIN aKernel'[c] : k <= i
           /\ aKernel'[c][i].tipo = "SIGNAL" => aKernel'[c][i].sem \in Semaforo
  BY <1>2, <1>4
<1>. QED BY <1>1, <1>3, <1>4, <1>5 DEF TrabajaLaCpu

(* Every step of a CPU but taking a context is TrabajaLaCpu.               *)
LEMMA CpuTrabaja ==
  ASSUME InvCpu, NEW c \in Cpu, TrabajoDeCpu(c) \/ SucesoDeCpu(c), ~RecibirContexto(c)
  PROVE  TrabajaLaCpu(c)
<1>t. TypeOKProcesador /\ Colas
  BY DEF InvCpu, TypeOKCanales, Colas
<1>e. Est' = Est
  BY EstSinMover DEF TrabajoDeCpu, SucesoDeCpu, kernel, pcbs
<1>1. CASE RecibirOtraCosa(c)
  <2>1. /\ estadoCpu' = [estadoCpu EXCEPT ![c] = "desfasado"] /\ UNCHANGED <<pidCpu, aKernel>>
        /\ aCpu[c] # <<>> /\ aCpu' = [aCpu EXCEPT ![c] = Tail(@)]
    BY <1>1 DEF RecibirOtraCosa, Pasar, Leer
  <2>. QED BY <2>1, <1>t, <1>e DEF TrabajaLaCpu, TypeOKProcesador, Colas, Corriendo
<1>2. ASSUME NEW tipo \in Pedidos, NEW s \in Semaforo \cup {SinNombre}, Pedir(c, tipo, s)
      PROVE  TrabajaLaCpu(c)
  <2> DEFINE m == MensajeCpu(tipo, pidCpu[c], s)
  <2>1. estadoCpu[c] = "ejecuta" /\ estadoCpu' = [estadoCpu EXCEPT ![c] = "respuesta"]
    BY <1>2 DEF Pedir, Pasar
  <2>2. /\ m \in MensajesCpu
        /\ m.tipo = tipo /\ m.pid = pidCpu[c] /\ m.sem = s
    BY <2>1, TipoMensajeCpu, ConstantesCanales DEF MensajeCpu
  <2>3. m.tipo \notin Devoluciones /\ (m.tipo = "SIGNAL" => m.sem \in Semaforo)
    BY <1>2, <2>2 DEF Pedir, Pedidos, Consultas, Devoluciones
  <2>4. EnviarAKernel(c, <<m>>) /\ aCpu' = aCpu /\ pidCpu' = pidCpu
    BY <1>2 DEF Pedir
  <2>. HIDE DEF m
  <2>. QED BY <1>t, <1>e, <2>1, <2>2, <2>3, <2>4, TrabajoQueEnvia DEF Corriendo, EstadosCpu
<1>3. CASE RecibirRespuesta(c)
  <2>1. /\ estadoCpu[c] = "respuesta" /\ estadoCpu' = [estadoCpu EXCEPT ![c] = "ejecuta"]
        /\ aCpu[c] # <<>> /\ aCpu' = [aCpu EXCEPT ![c] = Tail(@)]
        /\ UNCHANGED <<pidCpu, aKernel>>
    BY <1>3 DEF RecibirRespuesta, Pasar, Leer
  <2>. QED BY <2>1, <1>t, <1>e DEF TrabajaLaCpu, TypeOKProcesador, Colas, Corriendo
<1>4. CASE RecibirRespuestaInesperada(c)
  <2> DEFINE m == MensajeCpu("FINALIZO_CON_ERROR", pidCpu[c], SinNombre)
  <2>1. estadoCpu[c] = "respuesta" /\ aCpu[c] # <<>> /\ Leer(c)
    BY <1>4 DEF RecibirRespuestaInesperada, Pasar, TerminarRafaga
  <2>2. /\ m \in MensajesCpu
        /\ m.tipo = "FINALIZO_CON_ERROR" /\ m.pid = pidCpu[c]
    BY <2>1, TipoMensajeCpu DEF MensajeCpu, Finales
  <2>3. m.tipo \notin Devoluciones /\ m.tipo # "SIGNAL"
    BY <2>2 DEF Devoluciones
  <2>4. CASE /\ Pasar(c, "respuesta", "ejecuta") /\ EnviarAKernel(c, <<m>>)
             /\ UNCHANGED <<enlace, pidCpu, restante>>
    <3>1. estadoCpu' = [estadoCpu EXCEPT ![c] = "ejecuta"]
      BY <2>4 DEF Pasar
    <3>. HIDE DEF m
    <3>. QED BY <1>t, <1>e, <2>1, <2>2, <2>3, <2>4, <3>1, TrabajoQueEnvia
             DEF Corriendo, EstadosCpu
  <2>5. CASE TerminarRafaga(c, "respuesta") /\ EnviarAKernel(c, <<m, m>>)
    <3>1. PICK e \in {"contexto", "terminado"} :
            estadoCpu' = [estadoCpu EXCEPT ![c] = e] /\ pidCpu' = [pidCpu EXCEPT ![c] = 0]
      BY <2>5, <1>t, FinDeRafagaQuieta
    <3>. HIDE DEF m
    <3>2. e \in EstadosCpu /\ e \notin Corriendo
      BY DEF Corriendo, EstadosCpu
    <3>3. estadoCpu[c] \in Corriendo
      BY <2>1 DEF Corriendo
    <3>. QED BY <1>t, <1>e, <2>1, <2>2, <2>3, <2>5, <3>1, <3>2, <3>3, TrabajoQueEnvia
  <2>. QED BY <1>4, <2>4, <2>5 DEF RecibirRespuestaInesperada
<1>5. ASSUME NEW tipo \in Finales, NEW s \in Nombre \cup {SinNombre}, FinDeRafaga(c, tipo, s)
      PROVE  TrabajaLaCpu(c)
  <2> DEFINE m == MensajeCpu(tipo, pidCpu[c], s)
  <2>1. PICK e \in {"contexto", "terminado"} :
          /\ estadoCpu[c] = "ejecuta" /\ estadoCpu' = [estadoCpu EXCEPT ![c] = e]
          /\ pidCpu' = [pidCpu EXCEPT ![c] = 0]
    BY <1>5, <1>t, FinDeRafagaQuieta DEF FinDeRafaga
  <2>2. m \in MensajesCpu /\ m.tipo = tipo /\ m.pid = pidCpu[c]
    BY <2>1, TipoMensajeCpu DEF MensajeCpu
  <2>3. m.tipo # "SIGNAL"
    BY <2>2 DEF Finales
  <2>4. EnviarAKernel(c, <<m>>) /\ aCpu' = aCpu
    BY <1>5 DEF FinDeRafaga
  <2>. HIDE DEF m
  <2>5. e \in EstadosCpu /\ e \notin Corriendo
    BY DEF Corriendo, EstadosCpu
  <2>6. estadoCpu[c] \in Corriendo
    BY <2>1 DEF Corriendo
  <2>. QED BY <1>t, <1>e, <2>1, <2>2, <2>3, <2>4, <2>5, <2>6, TrabajoQueEnvia
<1>6. CASE MoverCursor(c)
  <2>1. PICK e \in {"contexto", "terminado"} :
          estadoCpu' = [estadoCpu EXCEPT ![c] = e] /\ pidCpu' = [pidCpu EXCEPT ![c] = 0]
    BY <1>6, <1>t, FinDeRafagaQuieta DEF MoverCursor
  <2>. QED BY <1>6, <1>t, <1>e, <2>1, TrabajoMudo DEF MoverCursor, Corriendo, EstadosCpu
<1>7. CASE Conectar(c) \/ Sigusr1(c)
  BY <1>7, <1>e DEF Conectar, Sigusr1, procesador, canales, TrabajaLaCpu
<1>8. CASE CaerCpu(c)
  BY <1>8, <1>t, <1>e, TrabajoMudo DEF CaerCpu, Descartar, Corriendo, EstadosCpu
<1>. QED BY <1>1, <1>2, <1>3, <1>4, <1>5, <1>6, <1>7, <1>8 DEF TrabajoDeCpu, SucesoDeCpu

(* No step of the system breaks what is known of the messages.             *)
LEMMA VueloNext ==
  ASSUME InvTipo, ConPid, UnicaLista, InvVuelo, [Next]_vars
  PROVE  InvVuelo'
<1>t. InvCpu /\ Colas /\ TypeOKProcesador
  BY DEF InvTipo, TipoKernel, TypeOK, TypeOKCanales, InvCpu, Colas
<1>1. CASE PasoDeKernel
  BY <1>1, VueloKernel
<1>2. ASSUME NEW c \in Cpu, TrabajoDeCpu(c) \/ SucesoDeCpu(c)
      PROVE  InvVuelo'
  <2>1. Est' = Est
    BY <1>2, EstSinMover DEF TrabajoDeCpu, SucesoDeCpu, kernel, pcbs
  <2>. QED BY <1>2, <1>t, <2>1, CpuTrabaja, VueloTrabajo, VueloContexto
<1>3. CASE Consola \/ UNCHANGED vars
  <2>1. UNCHANGED kernel /\ SinVuelos
    BY <1>3 DEF Consola, IniciarPrograma, PedirFinalizar, CerrarConsola, vars, canales,
                procesador, SinVuelos
  <2>2. Est' = Est
    BY <2>1, EstSinMover DEF kernel, pcbs
  <2>. QED BY <2>1, <2>2, VueloQuieto DEF FueraDeVuelo
<1>. QED BY <1>1, <1>2, <1>3 DEF Next

(* What is known of the messages holds always, whatever is killed, lost or *)
(* refused: a process that the kernel has taken back, or that sleeps, is   *)
(* mentioned nowhere, so that no late message can move it or change it.    *)
THEOREM MensajesDeQuienEjecuta == Spec => []InvVuelo
<1>1. Init => InvVuelo
  <2>. SUFFICES ASSUME Init PROVE InvVuelo
    OBVIOUS
  <2>1. /\ \A c \in Cpu : aKernel[c] = <<>> /\ aCpu[c] = <<>>
        /\ \A c \in Cpu : estadoCpu[c] = "contexto"
    BY DEF Init, InitCanales, InitProcesador
  <2>2. \A c \in Cpu, p \in Pid : ~CorreEn(c, p) /\ ~Ida(c, p) /\ ~Vuelta(c, p)
    BY <2>1 DEF CorreEn, Ida, Vuelta
  <2>3. \A c \in Cpu : DOMAIN aKernel[c] = {}
    BY <2>1
  <2>. QED BY <2>2, <2>3
           DEF InvVuelo, MencionSoloDeExec, MencionEnUnaCpu, Mencion, DevolucionEsUltima,
               IdaEsUnica, SignalConocido
<1>2. InvTipo /\ ConPid /\ UnicaLista /\ InvVuelo /\ [Next]_vars => InvVuelo'
  BY VueloNext
<1>. QED BY <1>1, <1>2, InvTipoInductivo, SiempreEnUnaLista, PTL DEF Spec

(* A ready or a blocked process is at no CPU, whatever fails: there is no  *)
(* context of it on its way, no burst of it and no message with which one  *)
(* gives it back.  Its context is never copied to two states.              *)
THEOREM ContextoEnUnSoloLugar == Spec => []FueraDeExecSinCpu
<1>1. InvTipo /\ UnicaLista /\ InvVuelo => FueraDeExecSinCpu
  <2>. SUFFICES ASSUME InvTipo, UnicaLista, InvVuelo,
                       NEW p \in En("ready") \cup En("blocked")
                PROVE  Tenencias(p) = {}
    BY DEF FueraDeExecSinCpu
  <2>1. p \in Pid /\ Est[p] \in {"ready", "blocked"}
    <3>1. TipoListas
      BY DEF InvTipo, TipoKernel, TypeOK, TipoListas
    <3>2. p \in Pid
      BY <3>1 DEF En, ToSet, TipoListas
    <3>. QED BY <3>2, EstadoEnLista
  <2>2. \A c \in Cpu : ~CorreEn(c, p) /\ ~Ida(c, p) /\ ~Vuelta(c, p)
    BY <2>1 DEF InvVuelo, MencionSoloDeExec, Mencion
  <2>3. \A c \in Cpu : MensajeKernel("ENVIAR_CONTEXTO", p) \notin ToSet(aCpu[c])
    BY <2>2 DEF Ida, EsContexto, MensajeKernel, ToSet
  <2>4. \A c \in Cpu : \A m \in ToSet(aKernel[c]) : m.pid # p
    BY <2>2 DEF Vuelta, ToSet
  <2>. QED BY <2>2, <2>3, <2>4 DEF Tenencias, CorreEn
<1>. QED BY <1>1, InvTipoInductivo, SiempreEnUnaLista, MensajesDeQuienEjecuta, PTL
=============================================================================
