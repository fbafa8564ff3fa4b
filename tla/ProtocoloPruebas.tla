--------------------------- MODULE ProtocoloPruebas ---------------------------
(***************************************************************************)
(* Proofs about the conversation of the kernel with each CPU: who speaks   *)
(* next, and what that means for the processes in EXEC.                    *)
(***************************************************************************)
EXTENDS ColasPruebas

USE DEF Estados

-----------------------------------------------------------------------------
(* The turns of a CPU.  At most one message is on its way in either        *)
(* direction, and who waits for it waits for one of that type.             *)
Callado(c) == aCpu[c] = <<>> /\ aKernel[c] = <<>>

HayIda(c, tipos) ==
  /\ aKernel[c] = <<>>
  /\ \E m \in MensajesKernel : aCpu[c] = <<m>> /\ m.tipo \in tipos

HayVuelta(c, tipos) ==
  /\ aCpu[c] = <<>>
  /\ \E m \in MensajesCpu : aKernel[c] = <<m>> /\ m.tipo \in tipos

Tipos == Pedidos \cup Finales \cup {"ENVIAR_CONTEXTO", "FINALIZO_PROGRAMA"}

EsperaContexto(c) ==
  /\ estadoCpu[c] = "contexto"
  /\ \/ Callado(c)
     \/ ~libre[c] /\ (HayIda(c, {"ENVIAR_CONTEXTO"}) \/ HayVuelta(c, Finales))

EnRafaga(c) == estadoCpu[c] = "ejecuta" /\ ~libre[c] /\ Callado(c)

EsperaRespuesta(c) ==
  /\ estadoCpu[c] = "respuesta" /\ ~libre[c] /\ rpc[c] \in Pedidos
  /\ HayIda(c, {rpc[c]}) \/ HayVuelta(c, {rpc[c]})

SeFue(c) ==
  /\ estadoCpu[c] = "terminado"
  /\ Callado(c) \/ (~libre[c] /\ (HayIda(c, Tipos) \/ HayVuelta(c, Tipos)))

(* A CPU that the kernel has not accepted has said and heard nothing.      *)
SinAceptar(c) ==
  enlace[c] \in {"ausente", "pendiente"} =>
    estadoCpu[c] = "contexto" /\ Callado(c) /\ ~libre[c]

Turno(c) ==
  /\ EsperaContexto(c) \/ EnRafaga(c) \/ EsperaRespuesta(c) \/ SeFue(c)
  /\ SinAceptar(c)

Protocolo == \A c \in Cpu : Turno(c)

(* What the turn of a CPU depends on.                                      *)
IgualCpu(c) ==
  /\ aCpu'[c] = aCpu[c] /\ aKernel'[c] = aKernel[c] /\ libre'[c] = libre[c]
  /\ enlace'[c] = enlace[c] /\ estadoCpu'[c] = estadoCpu[c] /\ rpc'[c] = rpc[c]

(* While that does not change, the turn does not.                          *)
LEMMA TurnoIgual ==
  ASSUME NEW c \in Cpu, Turno(c), IgualCpu(c)
  PROVE  Turno(c)'
BY DEF Turno, IgualCpu, EsperaContexto, EnRafaga, EsperaRespuesta, SeFue, SinAceptar,
       Callado, HayIda, HayVuelta

(* A channel with one message.                                             *)
LEMMA UnMensaje ==
  ASSUME NEW m
  PROVE  /\ Append(<<>>, m) = <<m>> /\ <<>> \o <<m>> = <<m>>
         /\ Head(<<m>>) = m /\ Tail(<<m>>) = <<>> /\ <<m>> # <<>>
OBVIOUS

(* A channel where something was sent is not empty.                        *)
LEMMA ConMensajes ==
  ASSUME NEW S, NEW s \in Seq(S), NEW m \in S
  PROVE  Append(s, m) # <<>>
<1>1. Len(Append(s, m)) = Len(s) + 1 /\ Len(s) \in Nat
  OBVIOUS
<1>2. Len(<<>>) = 0
  OBVIOUS
<1>. QED BY <1>1, <1>2

(* No request of heap memory that has been sent can be refused.            *)
Rechazable(m) == m.tipo = "ALOCAR" /\ "alocar" \in Eventos
NadieRechaza == \A c \in Cpu : \A m \in ToSet(aKernel[c]) : ~Rechazable(m)

(* It is so where no reservation of memory fails.                          *)
LEMMA SinRechazos ==
  ASSUME "alocar" \notin Eventos
  PROVE  NadieRechaza
BY DEF NadieRechaza, Rechazable

(* The kernel's two ways of treating a message: it takes the process back  *)
(* and frees the CPU, or it answers with the type of the request.          *)
LEMMA TrataPorTipo ==
  ASSUME NEW c \in Cpu, NEW m, ~Rechazable(m), Trata(c, m)
  PROVE  \/ m.tipo \in Finales /\ m.tipo \notin Pedidos /\ DevolverCpu(c)
         \/ m.tipo \in Pedidos /\ m.tipo \notin Finales /\ UNCHANGED libre
            /\ EnviarACpu(c, m.tipo, m.pid)
<1>1. CASE \/ FinalizoEjecucion(c, m) \/ FinalizoConError(c, m) \/ FinalizoQuantum(c, m)
           \/ PidioArchivo(c, m) \/ Wait(c, m)
  BY <1>1 DEF FinalizoEjecucion, FinalizoConError, FinalizoQuantum, PidioArchivo, Wait,
              Finales, Pedidos, Consultas
<1>2. CASE Signal(c, m) \/ Consulta(c, m) \/ AlocarBien(c, m)
  BY <1>2 DEF Signal, Consulta, AlocarBien, SigueEnCpu, Finales, Pedidos, Consultas
<1>. QED BY <1>1, <1>2 DEF Trata, AlocarMal, Rechazable

(* Whose turn it is after the kernel has attended the CPU.                 *)
LEMMA TurnoAtenderCpu ==
  ASSUME NadieRechaza, InvTipo, UnicaLista, NEW c \in Cpu, Turno(c),
         AtenderCpu(c), UNCHANGED procesador
  PROVE  Turno(c)' /\ \A d \in Cpu : d # c => IgualCpu(d)
<1>t. TypeOK /\ TypeOKCanales
  BY DEF InvTipo, TipoKernel, TypeOK
<1>1. PICK m \in ToSet(aKernel[c]) : Recibir(c, m) /\ Trata(c, m)
  BY DEF AtenderCpu, Trata
<1>2. /\ m \in MensajesCpu /\ m.pid \in Pid
      /\ aKernel[c] # <<>> /\ m = Head(aKernel[c])
      /\ aKernel'[c] = Tail(aKernel[c]) /\ \A d \in Cpu : d # c => aKernel'[d] = aKernel[d]
      /\ enlace' = enlace
  BY <1>t, <1>1, TipoMensaje DEF Recibir, TypeOKCanales
<1>3. aCpu[c] = <<>> /\ aKernel[c] = <<m>> /\ aKernel'[c] = <<>>
  <2>1. aCpu[c] = <<>> /\ \E n \in MensajesCpu : aKernel[c] = <<n>>
    BY <1>2 DEF Turno, EsperaContexto, EnRafaga, EsperaRespuesta, SeFue, Callado, HayIda, HayVuelta
  <2>. QED BY <1>2, <2>1
<1>4. /\ ~libre[c] /\ enlace[c] \notin {"ausente", "pendiente"}
      /\ \/ estadoCpu[c] = "contexto" /\ m.tipo \in Finales
         \/ estadoCpu[c] = "respuesta" /\ rpc[c] \in Pedidos /\ m.tipo = rpc[c]
         \/ estadoCpu[c] = "terminado"
  <2>1. ~Callado(c) /\ \A tipos : ~HayIda(c, tipos)
    BY <1>3 DEF Callado, HayIda
  <2>2. \A n : aKernel[c] = <<n>> => n = m
    BY <1>3
  <2>3. \A tipos : HayVuelta(c, tipos) => m.tipo \in tipos
    BY <2>2 DEF HayVuelta
  <2>4. /\ HayVuelta(c, Finales) => m.tipo \in Finales
        /\ HayVuelta(c, {rpc[c]}) => m.tipo = rpc[c]
        /\ ~HayIda(c, {"ENVIAR_CONTEXTO"}) /\ ~HayIda(c, {rpc[c]}) /\ ~HayIda(c, Tipos)
    BY <2>1, <2>3
  <2>. QED BY <2>1, <2>4 DEF Turno, EsperaContexto, EnRafaga, EsperaRespuesta, SeFue, SinAceptar
<1>5. CASE m.tipo \in Finales /\ m.tipo \notin Pedidos /\ DevolverCpu(c)
  <2>1. /\ aCpu' = aCpu /\ \A d \in Cpu : d # c => libre'[d] = libre[d]
    BY <1>5, <1>t DEF DevolverCpu, TypeOK
  <2>2. Callado(c)' /\ estadoCpu'[c] \in {"contexto", "terminado"}
        /\ enlace'[c] \notin {"ausente", "pendiente"}
    BY <1>2, <1>3, <1>4, <1>5, <2>1 DEF Callado, procesador
  <2>3. Turno(c)'
    BY <2>2 DEF Turno, EsperaContexto, SeFue, SinAceptar
  <2>. QED BY <1>2, <2>1, <2>3 DEF IgualCpu, procesador
<1>6. CASE /\ m.tipo \in Pedidos /\ m.tipo \notin Finales /\ UNCHANGED libre
           /\ EnviarACpu(c, m.tipo, m.pid)
  <2> DEFINE r == MensajeKernel(m.tipo, m.pid)
  <2>1. r \in MensajesKernel /\ r.tipo = m.tipo
    BY <1>2, <1>6 DEF MensajeKernel, MensajesKernel
  <2>2. aCpu' = [aCpu EXCEPT ![c] = Append(@, r)]
    BY <1>6 DEF EnviarACpu
  <2>. HIDE DEF r
  <2>3. aCpu'[c] = <<r>> /\ \A d \in Cpu : d # c => aCpu'[d] = aCpu[d]
    BY <1>t, <1>3, <2>2, UnMensaje DEF TypeOKCanales
  <2>4. \A tipos : m.tipo \in tipos => HayIda(c, tipos)'
    BY <1>3, <2>1, <2>3 DEF HayIda
  <2>5. m.tipo \in Tipos
    BY <1>6 DEF Tipos
  <2>6. Turno(c)'
    <3>1. UNCHANGED <<estadoCpu, rpc, libre, enlace>>
      BY <1>2, <1>6 DEF procesador
    <3>2. HayIda(c, {m.tipo})' /\ HayIda(c, Tipos)'
      BY <2>4, <2>5
    <3>3. CASE estadoCpu[c] = "respuesta" /\ rpc[c] \in Pedidos /\ m.tipo = rpc[c]
      BY <1>4, <3>1, <3>2, <3>3 DEF Turno, EsperaRespuesta, SinAceptar
    <3>4. CASE estadoCpu[c] = "terminado"
      BY <1>4, <3>1, <3>2, <3>4 DEF Turno, SeFue, SinAceptar
    <3>. QED BY <1>4, <1>6, <3>3, <3>4
  <2>. QED BY <1>2, <1>6, <2>3, <2>6 DEF IgualCpu, procesador
<1>. QED BY <1>1, <1>5, <1>6, TrataPorTipo DEF NadieRechaza

(* A context is sent to a CPU that waits for one.                          *)
LEMMA TurnoEnviar ==
  ASSUME InvTipo, NEW c \in Cpu, Turno(c), EnviarProcesoACpu(c), UNCHANGED procesador
  PROVE  Turno(c)' /\ \A d \in Cpu : d # c => IgualCpu(d)
<1> DEFINE p == Head(listas["ready"])
           m == MensajeKernel("ENVIAR_CONTEXTO", p)
<1>1. libre[c] /\ aCpu' = [aCpu EXCEPT ![c] = Append(@, m)] /\ listas["ready"] # <<>>
      /\ libre' = [libre EXCEPT ![c] = FALSE] /\ UNCHANGED <<enlace, aKernel>>
  BY DEF EnviarProcesoACpu, Despachable, EnviarACpu
<1>2. p \in Pid
  BY <1>1, HeadTailProperties DEF InvTipo, TipoKernel, TypeOK
<1>3. m \in MensajesKernel /\ m.tipo = "ENVIAR_CONTEXTO"
  BY <1>2 DEF MensajeKernel, MensajesKernel
<1>. HIDE DEF m, p
<1>4. /\ Callado(c) /\ estadoCpu[c] \in {"contexto", "terminado"}
      /\ enlace[c] \notin {"ausente", "pendiente"}
  BY <1>1 DEF Turno, EsperaContexto, EnRafaga, EsperaRespuesta, SeFue, SinAceptar
<1>5. /\ aCpu'[c] = <<m>> /\ aKernel'[c] = <<>> /\ ~libre'[c]
      /\ \A d \in Cpu : d # c => aCpu'[d] = aCpu[d] /\ libre'[d] = libre[d]
  BY <1>1, <1>4, UnMensaje DEF Callado, InvTipo, TipoKernel, TypeOK, TypeOKCanales
<1>6. HayIda(c, {"ENVIAR_CONTEXTO"})' /\ HayIda(c, Tipos)'
  BY <1>3, <1>5 DEF HayIda, Tipos
<1>7. Turno(c)'
  BY <1>1, <1>4, <1>5, <1>6 DEF Turno, EsperaContexto, SeFue, SinAceptar, procesador
<1>. QED BY <1>1, <1>5, <1>7 DEF IgualCpu, procesador

(* The kernel accepts a CPU, which waits for a context.                    *)
LEMMA TurnoNuevoCpu ==
  ASSUME InvTipo, NEW c \in Cpu, Turno(c), NuevoCpu(c), UNCHANGED procesador
  PROVE  Turno(c)' /\ \A d \in Cpu : d # c => IgualCpu(d)
<1>1. /\ enlace[c] = "pendiente" /\ enlace' = [enlace EXCEPT ![c] = "abierto"]
      /\ libre' = [libre EXCEPT ![c] = TRUE] /\ UNCHANGED <<aKernel, aCpu, estadoCpu, rpc>>
  BY DEF NuevoCpu, procesador
<1>2. /\ enlace'[c] = "abierto" /\ \A d \in Cpu : d # c => enlace'[d] = enlace[d] /\ libre'[d] = libre[d]
  BY <1>1 DEF InvTipo, TipoKernel, TypeOK, TypeOKCanales
<1>3. estadoCpu[c] = "contexto" /\ Callado(c)
  BY <1>1 DEF Turno, SinAceptar
<1>4. Turno(c)'
  BY <1>1, <1>2, <1>3 DEF Turno, EsperaContexto, SinAceptar, Callado
<1>. QED BY <1>1, <1>2, <1>4 DEF IgualCpu

(* The other steps of the kernel change none of that.                      *)
LEMMA IgualTrasKernel ==
  ASSUME NadieRechaza, InvTipo, UnicaLista, Protocolo, PasoDeKernel, NEW c \in Cpu,
         ~(AtenderCpu(c) \/ EnviarProcesoACpu(c) \/ NuevoCpu(c))
  PROVE  IgualCpu(c)
<1>k. NextKernel /\ UNCHANGED procesador
  BY DEF PasoDeKernel
<1>1. ASSUME NEW d \in Cpu, AtenderCpu(d) \/ EnviarProcesoACpu(d) \/ NuevoCpu(d)
      PROVE  IgualCpu(c)
  BY <1>1, <1>k, TurnoAtenderCpu, TurnoEnviar, TurnoNuevoCpu DEF Protocolo
<1>2. CASE ~\E d \in Cpu : AtenderCpu(d) \/ EnviarProcesoACpu(d) \/ NuevoCpu(d)
  <2>1. UNCHANGED <<aKernel, aCpu, libre, enlace>>
    BY <1>2, <1>k
       DEF NextKernel, Select, FinDeEventos, PasarNuevo, PasarCpu, FinBloqueados, FinNuevos,
           FinDespacho, FinDeLazo, DesconexionCpu, NuevoPrograma, AtenderPrograma,
           PasarBloqueado, AtenderES, AtenderESConError, AtenderWait, AtenderWaitDesconocido,
           PorAtender, EnBloqueado, AdmitirNuevo, canales, tablaCpus
  <2>. QED BY <1>k, <2>1 DEF IgualCpu, procesador
<1>. QED BY <1>1, <1>2

(* No step of the kernel breaks the protocol.                              *)
LEMMA ProtocoloKernel ==
  ASSUME NadieRechaza, InvTipo, UnicaLista, Protocolo, PasoDeKernel
  PROVE  Protocolo'
<1>. SUFFICES ASSUME NEW c \in Cpu PROVE Turno(c)'
  BY DEF Protocolo
<1>1. CASE AtenderCpu(c) \/ EnviarProcesoACpu(c) \/ NuevoCpu(c)
  BY <1>1, TurnoAtenderCpu, TurnoEnviar, TurnoNuevoCpu DEF Protocolo, PasoDeKernel
<1>2. CASE ~(AtenderCpu(c) \/ EnviarProcesoACpu(c) \/ NuevoCpu(c))
  BY <1>2, IgualTrasKernel, TurnoIgual DEF Protocolo
<1>. QED BY <1>1, <1>2

(* The end of a burst leaves the CPU waiting for a context, or gone.       *)
LEMMA EstadoTrasRafaga ==
  ASSUME InvCpu, NEW c \in Cpu, NEW desde, TerminarRafaga(c, desde)
  PROVE  /\ estadoCpu'[c] \in {"contexto", "terminado"}
         /\ enlace'[c] \in {enlace[c], "cerrado"}
         /\ \A d \in Cpu : d # c => estadoCpu'[d] = estadoCpu[d] /\ enlace'[d] = enlace[d]
         /\ estadoCpu'[c] = "contexto" => enlace'[c] = enlace[c]
BY DEF TerminarRafaga, Descartar, Pasar, InvCpu, TypeOKProcesador, TypeOKCanales

(* A CPU that has just sent something, with both channels empty.           *)
LEMMA TrasEnviar ==
  ASSUME InvCpu, NEW c \in Cpu, Callado(c), NEW m \in MensajesCpu, EnviarAKernel(c, <<m>>),
         aCpu' = aCpu
  PROVE  /\ \A tipos : m.tipo \in tipos => HayVuelta(c, tipos)'
         /\ aKernel'[c] = <<m>>
         /\ \A d \in Cpu : d # c => aKernel'[d] = aKernel[d]
<1>1. aKernel' = [aKernel EXCEPT ![c] = @ \o <<m>>]
  BY DEF EnviarAKernel
<1>2. aKernel'[c] = <<m>> /\ \A d \in Cpu : d # c => aKernel'[d] = aKernel[d]
  BY <1>1, UnMensaje DEF InvCpu, TypeOKCanales, Callado
<1>. QED BY <1>2 DEF HayVuelta, Callado

(* A CPU that has just read the only message.                              *)
LEMMA TrasLeer ==
  ASSUME InvCpu, NEW c \in Cpu, NEW m, aCpu[c] = <<m>>, aKernel[c] = <<>>, Leer(c),
         aKernel' = aKernel
  PROVE  Callado(c)' /\ \A d \in Cpu : d # c => aCpu'[d] = aCpu[d]
<1>1. aCpu'[c] = <<>> /\ \A d \in Cpu : d # c => aCpu'[d] = aCpu[d]
  BY UnMensaje DEF Leer, InvCpu, TypeOKCanales
<1>. QED BY <1>1 DEF Callado

(* A CPU that reads finds what it waits for.                               *)
LEMMA LlegaLoEsperado ==
  ASSUME NEW c \in Cpu, Turno(c)
  PROVE  /\ ~RecibirOtraCosa(c) /\ ~RecibirRespuestaInesperada(c)
         /\ RecibirContexto(c) =>
              /\ aCpu[c] = <<Head(aCpu[c])>> /\ aKernel[c] = <<>> /\ ~libre[c]
              /\ Head(aCpu[c]).tipo = "ENVIAR_CONTEXTO"
         /\ RecibirRespuesta(c) =>
              aCpu[c] = <<Head(aCpu[c])>> /\ aKernel[c] = <<>> /\ ~libre[c]
<1>1. ASSUME aCpu[c] # <<>>, estadoCpu[c] = "contexto"
      PROVE  /\ aCpu[c] = <<Head(aCpu[c])>> /\ aKernel[c] = <<>> /\ ~libre[c]
             /\ Head(aCpu[c]).tipo = "ENVIAR_CONTEXTO"
  <2>1. HayIda(c, {"ENVIAR_CONTEXTO"}) /\ ~libre[c]
    BY <1>1 DEF Turno, EsperaContexto, EnRafaga, EsperaRespuesta, SeFue, Callado, HayVuelta
  <2>. QED BY <2>1 DEF HayIda
<1>2. ASSUME aCpu[c] # <<>>, estadoCpu[c] = "respuesta"
      PROVE  /\ aCpu[c] = <<Head(aCpu[c])>> /\ aKernel[c] = <<>> /\ ~libre[c]
             /\ Head(aCpu[c]).tipo = rpc[c]
  <2>1. HayIda(c, {rpc[c]}) /\ ~libre[c]
    BY <1>2 DEF Turno, EsperaContexto, EnRafaga, EsperaRespuesta, SeFue, HayVuelta
  <2>. QED BY <2>1 DEF HayIda
<1>3. ~RecibirOtraCosa(c)
  BY <1>1 DEF RecibirOtraCosa, Pasar
<1>4. ~RecibirRespuestaInesperada(c)
  BY <1>2 DEF RecibirRespuestaInesperada, Pasar, TerminarRafaga
<1>. QED BY <1>1, <1>2, <1>3, <1>4 DEF RecibirContexto, RecibirRespuesta, Pasar

(* A running CPU has been accepted, and is silent.                         *)
LEMMA TurnoDeQuienCorre ==
  ASSUME NEW c \in Cpu, Turno(c), estadoCpu[c] = "ejecuta"
  PROVE  Callado(c) /\ ~libre[c] /\ enlace[c] \notin {"ausente", "pendiente"}
BY DEF Turno, EsperaContexto, EnRafaga, EsperaRespuesta, SeFue, SinAceptar

(* The step of a CPU leaves it, and the others, in their turns.            *)
LEMMA TurnoCpu ==
  ASSUME InvCpu, NEW c \in Cpu, Turno(c), TrabajoDeCpu(c) \/ SucesoDeCpu(c)
  PROVE  Turno(c)' /\ \A d \in Cpu : d # c => IgualCpu(d)
<1>t. /\ aKernel \in [Cpu -> Seq(MensajesCpu)] /\ aCpu \in [Cpu -> Seq(MensajesKernel)]
      /\ enlace \in [Cpu -> {"ausente", "pendiente", "abierto", "cerrado"}]
      /\ estadoCpu \in [Cpu -> EstadosCpu] /\ rpc \in [Cpu -> Pedidos \cup {"ninguno"}]
  BY DEF InvCpu, TypeOKCanales, TypeOKProcesador
<1>l. libre' = libre
  BY DEF TrabajoDeCpu, SucesoDeCpu, kernel, tablaCpus
<1>1. CASE RecibirContexto(c)
  <2>1. /\ aCpu[c] = <<Head(aCpu[c])>> /\ aKernel[c] = <<>> /\ ~libre[c]
    BY <1>1, LlegaLoEsperado
  <2>2. /\ Leer(c) /\ UNCHANGED <<aKernel, rpc, enlace>>
        /\ estadoCpu' = [estadoCpu EXCEPT ![c] = "ejecuta"] /\ estadoCpu[c] = "contexto"
    BY <1>1 DEF RecibirContexto, Pasar
  <2>3. Callado(c)' /\ \A d \in Cpu : d # c => aCpu'[d] = aCpu[d]
    BY <2>1, <2>2, TrasLeer
  <2>4. estadoCpu'[c] = "ejecuta" /\ \A d \in Cpu : d # c => estadoCpu'[d] = estadoCpu[d]
    BY <1>t, <2>2
  <2>5. enlace[c] \notin {"ausente", "pendiente"}
    BY <2>1, UnMensaje DEF Turno, SinAceptar, Callado
  <2>. QED BY <1>l, <2>1, <2>2, <2>3, <2>4, <2>5 DEF Turno, EnRafaga, SinAceptar, IgualCpu
<1>2. CASE RecibirRespuesta(c)
  <2>1. /\ aCpu[c] = <<Head(aCpu[c])>> /\ aKernel[c] = <<>> /\ ~libre[c]
    BY <1>2, LlegaLoEsperado
  <2>2. /\ Leer(c) /\ UNCHANGED <<aKernel, enlace>> /\ rpc' = [rpc EXCEPT ![c] = "ninguno"]
        /\ estadoCpu' = [estadoCpu EXCEPT ![c] = "ejecuta"] /\ estadoCpu[c] = "respuesta"
    BY <1>2 DEF RecibirRespuesta, Pasar
  <2>3. Callado(c)' /\ \A d \in Cpu : d # c => aCpu'[d] = aCpu[d]
    BY <2>1, <2>2, TrasLeer
  <2>4. /\ estadoCpu'[c] = "ejecuta"
        /\ \A d \in Cpu : d # c => estadoCpu'[d] = estadoCpu[d] /\ rpc'[d] = rpc[d]
    BY <1>t, <2>2
  <2>5. enlace[c] \notin {"ausente", "pendiente"}
    BY <2>2 DEF Turno, SinAceptar
  <2>. QED BY <1>l, <2>1, <2>2, <2>3, <2>4, <2>5 DEF Turno, EnRafaga, SinAceptar, IgualCpu
<1>3. ASSUME NEW tipo \in Pedidos, NEW s \in Semaforo \cup {SinNombre}, Pedir(c, tipo, s)
      PROVE  Turno(c)' /\ \A d \in Cpu : d # c => IgualCpu(d)
  <2> DEFINE m == MensajeCpu(tipo, pidCpu[c], s)
  <2>1. /\ estadoCpu[c] = "ejecuta" /\ estadoCpu' = [estadoCpu EXCEPT ![c] = "respuesta"]
        /\ rpc' = [rpc EXCEPT ![c] = tipo] /\ UNCHANGED <<aCpu, enlace>>
        /\ EnviarAKernel(c, <<m>>)
    BY <1>3 DEF Pedir, Pasar
  <2>2. m \in MensajesCpu /\ m.tipo = tipo
    BY <2>1, TipoMensajeCpu, ConstantesCanales DEF MensajeCpu
  <2>. HIDE DEF m
  <2>3. Callado(c) /\ ~libre[c] /\ enlace[c] \notin {"ausente", "pendiente"}
    BY <2>1, TurnoDeQuienCorre
  <2>4. HayVuelta(c, {tipo})' /\ \A d \in Cpu : d # c => aKernel'[d] = aKernel[d]
    BY <2>1, <2>2, <2>3, TrasEnviar
  <2>5. /\ estadoCpu'[c] = "respuesta" /\ rpc'[c] = tipo
        /\ \A d \in Cpu : d # c => estadoCpu'[d] = estadoCpu[d] /\ rpc'[d] = rpc[d]
    BY <1>t, <2>1
  <2>. QED BY <1>l, <2>1, <2>3, <2>4, <2>5 DEF Turno, EsperaRespuesta, SinAceptar, IgualCpu
<1>4. ASSUME NEW tipo \in Finales, NEW s \in Nombre \cup {SinNombre}, FinDeRafaga(c, tipo, s)
      PROVE  Turno(c)' /\ \A d \in Cpu : d # c => IgualCpu(d)
  <2> DEFINE m == MensajeCpu(tipo, pidCpu[c], s)
  <2>1. /\ estadoCpu[c] = "ejecuta" /\ TerminarRafaga(c, "ejecuta")
        /\ UNCHANGED <<aCpu, rpc>> /\ EnviarAKernel(c, <<m>>)
    BY <1>4 DEF FinDeRafaga, TerminarRafaga, Pasar
  <2>2. m \in MensajesCpu /\ m.tipo = tipo
    BY <2>1, TipoMensajeCpu DEF MensajeCpu
  <2>. HIDE DEF m
  <2>3. Callado(c) /\ ~libre[c] /\ enlace[c] \notin {"ausente", "pendiente"}
    BY <2>1, TurnoDeQuienCorre
  <2>4. /\ HayVuelta(c, Finales)' /\ HayVuelta(c, Tipos)'
        /\ \A d \in Cpu : d # c => aKernel'[d] = aKernel[d]
    BY <2>1, <2>2, <2>3, TrasEnviar DEF Tipos
  <2>5. /\ estadoCpu'[c] \in {"contexto", "terminado"}
        /\ enlace'[c] \in {enlace[c], "cerrado"}
        /\ \A d \in Cpu : d # c => estadoCpu'[d] = estadoCpu[d] /\ enlace'[d] = enlace[d]
    BY <2>1, EstadoTrasRafaga
  <2>. QED BY <1>l, <2>1, <2>3, <2>4, <2>5
           DEF Turno, EsperaContexto, SeFue, SinAceptar, IgualCpu
<1>5. CASE MoverCursor(c)
  <2>1. /\ estadoCpu[c] = "ejecuta" /\ TerminarRafaga(c, "ejecuta")
        /\ UNCHANGED <<aCpu, aKernel, rpc>>
    BY <1>5 DEF MoverCursor, TerminarRafaga, Pasar
  <2>2. Callado(c) /\ ~libre[c] /\ enlace[c] \notin {"ausente", "pendiente"}
    BY <2>1, TurnoDeQuienCorre
  <2>3. /\ estadoCpu'[c] \in {"contexto", "terminado"}
        /\ enlace'[c] \in {enlace[c], "cerrado"}
        /\ \A d \in Cpu : d # c => estadoCpu'[d] = estadoCpu[d] /\ enlace'[d] = enlace[d]
    BY <2>1, EstadoTrasRafaga
  <2>. QED BY <1>l, <2>1, <2>2, <2>3
           DEF Turno, EsperaContexto, SeFue, SinAceptar, IgualCpu, Callado
<1>6. CASE Conectar(c)
  <2>1. /\ enlace[c] = "ausente" /\ enlace' = [enlace EXCEPT ![c] = "pendiente"]
        /\ UNCHANGED <<aCpu, aKernel, rpc, estadoCpu>>
    BY <1>6 DEF Conectar, procesador
  <2>2. enlace'[c] = "pendiente" /\ \A d \in Cpu : d # c => enlace'[d] = enlace[d]
    BY <1>t, <2>1
  <2>3. estadoCpu[c] = "contexto" /\ Callado(c) /\ ~libre[c]
    BY <2>1 DEF Turno, SinAceptar
  <2>. QED BY <1>l, <2>1, <2>2, <2>3 DEF Turno, EsperaContexto, SinAceptar, Callado, IgualCpu
<1>7. CASE Sigusr1(c)
  <2>1. \A d \in Cpu : IgualCpu(d)
    BY <1>7, <1>l DEF Sigusr1, canales, IgualCpu
  <2>. QED BY <2>1, TurnoIgual
<1>8. CASE CaerCpu(c)
  <2>1. /\ enlace[c] = "abierto" /\ estadoCpu' = [estadoCpu EXCEPT ![c] = "terminado"]
        /\ enlace' = [enlace EXCEPT ![c] = "cerrado"] /\ UNCHANGED <<aCpu, aKernel, rpc>>
    BY <1>8 DEF CaerCpu
  <2>2. /\ estadoCpu'[c] = "terminado" /\ enlace'[c] = "cerrado"
        /\ \A d \in Cpu : d # c => estadoCpu'[d] = estadoCpu[d] /\ enlace'[d] = enlace[d]
    BY <1>t, <2>1
  <2>3. Callado(c) \/ (~libre[c] /\ (HayIda(c, Tipos) \/ HayVuelta(c, Tipos)))
    <3>1. /\ HayIda(c, {"ENVIAR_CONTEXTO"}) => HayIda(c, Tipos)
          /\ HayVuelta(c, Finales) => HayVuelta(c, Tipos)
      BY DEF HayIda, HayVuelta, Tipos
    <3>2. rpc[c] \in Pedidos =>
            /\ HayIda(c, {rpc[c]}) => HayIda(c, Tipos)
            /\ HayVuelta(c, {rpc[c]}) => HayVuelta(c, Tipos)
      BY DEF HayIda, HayVuelta, Tipos
    <3>. QED BY <3>1, <3>2 DEF Turno, EsperaContexto, EnRafaga, EsperaRespuesta, SeFue
  <2>4. SeFue(c)'
    BY <1>l, <2>1, <2>2, <2>3 DEF SeFue, HayIda, HayVuelta, Callado
  <2>. QED BY <1>l, <2>1, <2>2, <2>4 DEF Turno, SinAceptar, IgualCpu
<1>9. ~RecibirOtraCosa(c) /\ ~RecibirRespuestaInesperada(c)
  BY LlegaLoEsperado
<1>. QED BY <1>1, <1>2, <1>3, <1>4, <1>5, <1>6, <1>7, <1>8, <1>9 DEF TrabajoDeCpu, SucesoDeCpu

(* The protocol is followed, while no reservation of memory is refused.    *)
LEMMA ProtocoloNext ==
  ASSUME NadieRechaza, InvTipo, ConPid, UnicaLista, Protocolo, [Next]_vars
  PROVE  Protocolo'
<1>1. CASE PasoDeKernel
  BY <1>1, ProtocoloKernel
<1>2. ASSUME NEW c \in Cpu, TrabajoDeCpu(c) \/ SucesoDeCpu(c)
      PROVE  Protocolo'
  <2>1. InvCpu
    BY DEF InvTipo, TipoKernel, TypeOK, InvCpu
  <2>2. Turno(c)' /\ \A d \in Cpu : d # c => IgualCpu(d)
    BY <1>2, <2>1, TurnoCpu DEF Protocolo
  <2>. QED BY <2>2, TurnoIgual DEF Protocolo
<1>3. CASE Consola \/ UNCHANGED vars
  <2>1. UNCHANGED <<aKernel, aCpu, libre, enlace, estadoCpu, rpc>>
    BY <1>3 DEF Consola, IniciarPrograma, PedirFinalizar, CerrarConsola, vars, kernel, tablaCpus,
                canales, procesador
  <2>2. \A c \in Cpu : IgualCpu(c)
    BY <2>1 DEF IgualCpu
  <2>. QED BY <2>2, TurnoIgual DEF Protocolo
<1>. QED BY <1>1, <1>2, <1>3 DEF Next

(* The protocol always holds where no reservation of memory fails: a       *)
(* request has one answer, of its type, and a CPU that is given a context  *)
(* was waiting for one.                                                    *)
THEOREM ProtocoloSiempre ==
  ASSUME "alocar" \notin Eventos
  PROVE  Spec => []Protocolo
<1>1. Init => Protocolo
  BY DEF Init, InitKernel, InitCanales, InitProcesador, Protocolo, Turno, EsperaContexto,
         SinAceptar, Callado
<1>2. InvTipo /\ ConPid /\ UnicaLista /\ Protocolo /\ [Next]_vars => Protocolo'
  BY ProtocoloNext, SinRechazos
<1>. QED BY <1>1, <1>2, InvTipoInductivo, SiempreEnUnaLista, PTL DEF Spec
-----------------------------------------------------------------------------
(* What the protocol says of the places where a CPU holds a process.       *)
EnIda(c, p) == MensajeKernel("ENVIAR_CONTEXTO", p) \in ToSet(aCpu[c])
EnVuelta(c, p) == \E m \in ToSet(aKernel[c]) : m.pid = p /\ m.tipo \in Finales

(* A CPU holds a process in one place only.                                *)
LEMMA UnLugarPorCpu ==
  ASSUME NEW c \in Cpu, NEW p \in Pid, Turno(c)
  PROVE  /\ ~(EnIda(c, p) /\ CorreEn(c, p))
         /\ ~(EnIda(c, p) /\ EnVuelta(c, p))
         /\ ~(CorreEn(c, p) /\ EnVuelta(c, p))
<1>1. /\ aCpu[c] = <<>> => ~EnIda(c, p)
      /\ aKernel[c] = <<>> => ~EnVuelta(c, p)
  BY DEF EnIda, EnVuelta, ToSet
<1>2. aCpu[c] = <<>> \/ aKernel[c] = <<>>
  BY DEF Turno, EsperaContexto, EnRafaga, EsperaRespuesta, SeFue, Callado, HayIda, HayVuelta
<1>3. CASE CorreEn(c, p)
  <2>1. Callado(c) \/ (rpc[c] \in Pedidos /\ (HayIda(c, {rpc[c]}) \/ HayVuelta(c, {rpc[c]})))
    BY <1>3 DEF CorreEn, Turno, EsperaContexto, EnRafaga, EsperaRespuesta, SeFue
  <2>2. /\ HayIda(c, Pedidos) => ~EnIda(c, p)
        /\ HayVuelta(c, Pedidos) => ~EnVuelta(c, p)
    BY DEF HayIda, HayVuelta, EnIda, EnVuelta, ToSet, MensajeKernel, Pedidos, Consultas, Finales
  <2>3. /\ HayIda(c, Pedidos) => aKernel[c] = <<>>
        /\ HayVuelta(c, Pedidos) => aCpu[c] = <<>>
        /\ rpc[c] \in Pedidos /\ HayIda(c, {rpc[c]}) => HayIda(c, Pedidos)
        /\ rpc[c] \in Pedidos /\ HayVuelta(c, {rpc[c]}) => HayVuelta(c, Pedidos)
    BY DEF HayIda, HayVuelta
  <2>. QED BY <1>1, <2>1, <2>2, <2>3 DEF Callado
<1>. QED BY <1>1, <1>2, <1>3

(* Being held is being mentioned.                                          *)
LEMMA TenerEsMencionar ==
  ASSUME NEW c \in Cpu, NEW p \in Pid, EnIda(c, p) \/ CorreEn(c, p) \/ EnVuelta(c, p)
  PROVE  Mencion(c, p)
BY DEF EnIda, EnVuelta, Mencion, Ida, Vuelta, EsContexto, MensajeKernel, ToSet

(* The set of the places, by its elements.                                 *)
LEMMA LugaresDeTenencias ==
  ASSUME NEW p \in Pid
  PROVE  \A x : x \in Tenencias(p) <=>
           \E c \in Cpu : \/ x = <<c, "ida">> /\ EnIda(c, p)
                          \/ x = <<c, "cpu">> /\ CorreEn(c, p)
                          \/ x = <<c, "vuelta">> /\ EnVuelta(c, p)
BY DEF Tenencias, EnIda, EnVuelta, CorreEn

(* No process, alive or ended, is held by two CPUs, nor twice by one: not  *)
(* even where CPUs die in the middle of a burst, or leave after one, and   *)
(* programs are killed while they run.                                     *)
THEOREM NuncaEnDosCpus ==
  ASSUME "alocar" \notin Eventos
  PROVE  Spec => []UnaSolaCpu
<1>1. InvVuelo /\ Protocolo => UnaSolaCpu
  <2>. SUFFICES ASSUME InvVuelo, Protocolo, NEW p \in Pid
                PROVE  Cardinality(Tenencias(p)) <= 1
    BY DEF UnaSolaCpu
  <2>1. ASSUME NEW x \in Tenencias(p), NEW y \in Tenencias(p)
        PROVE  x = y
    <3>1. PICK c \in Cpu : \/ x = <<c, "ida">> /\ EnIda(c, p)
                           \/ x = <<c, "cpu">> /\ CorreEn(c, p)
                           \/ x = <<c, "vuelta">> /\ EnVuelta(c, p)
      BY LugaresDeTenencias
    <3>2. PICK d \in Cpu : \/ y = <<d, "ida">> /\ EnIda(d, p)
                           \/ y = <<d, "cpu">> /\ CorreEn(d, p)
                           \/ y = <<d, "vuelta">> /\ EnVuelta(d, p)
      BY LugaresDeTenencias
    <3>3. c = d
      BY <3>1, <3>2, TenerEsMencionar DEF InvVuelo, MencionEnUnaCpu
    <3>. QED BY <3>1, <3>2, <3>3, UnLugarPorCpu DEF Protocolo
  <2>2. CASE Tenencias(p) = {}
    BY <2>2, FS_EmptySet
  <2>3. ASSUME NEW x \in Tenencias(p) PROVE Cardinality(Tenencias(p)) <= 1
    <3>1. Tenencias(p) = {x}
      BY <2>1, <2>3
    <3>. QED BY <3>1, FS_Singleton
  <2>. QED BY <2>2, <2>3
<1>. QED BY <1>1, MensajesDeQuienEjecuta, ProtocoloSiempre, PTL
-----------------------------------------------------------------------------
(* A CPU that waits for a context is known to be free, or a message will   *)
(* tell.  It is the strict form of the property: a burst never ends in     *)
(* silence, if no script moves the cursor of a file.                       *)
Avisada(c) ==
  estadoCpu[c] = "contexto" /\ enlace[c] = "abierto" => libre[c] \/ ~Callado(c)

(* No step leaves such a CPU forgotten.                                    *)
LEMMA AvisadaNext ==
  ASSUME {"alocar", "cursor"} \cap Eventos = {}, InvTipo, ConPid, UnicaLista, Protocolo,
         Protocolo', [Next]_vars, NEW c \in Cpu, Avisada(c)
  PROVE  Avisada(c)'
<1>t. InvCpu /\ TypeOK
  BY DEF InvTipo, TipoKernel, TypeOK, InvCpu
<1>0. ASSUME IgualCpu(c) PROVE Avisada(c)'
  BY <1>0 DEF IgualCpu, Avisada, Callado
<1>1. CASE PasoDeKernel
  <2>1. CASE AtenderCpu(c)
    <3>1. PICK m \in ToSet(aKernel[c]) : Recibir(c, m) /\ Trata(c, m)
      BY <2>1 DEF AtenderCpu, Trata
    <3>2. CASE DevolverCpu(c)
      BY <3>2, <1>t DEF DevolverCpu, Avisada, TypeOK
    <3>3. CASE EnviarACpu(c, m.tipo, m.pid) /\ m.tipo \in Pedidos
      <4>1. aCpu'[c] = Append(aCpu[c], MensajeKernel(m.tipo, m.pid)) /\ aCpu[c] \in Seq(MensajesKernel)
        BY <3>3, <1>t DEF EnviarACpu, InvCpu, TypeOKCanales
      <4>2. MensajeKernel(m.tipo, m.pid) \in MensajesKernel
        BY <1>t, <3>1, <3>3, TipoMensaje DEF MensajesKernel, MensajeKernel
      <4>3. aCpu'[c] # <<>>
        BY <4>1, <4>2
      <4>. QED BY <4>3 DEF Avisada, Callado
    <3>. QED BY <3>1, <3>2, <3>3, TrataPorTipo DEF Rechazable
  <2>2. CASE EnviarProcesoACpu(c)
    <3> DEFINE m == MensajeKernel("ENVIAR_CONTEXTO", Head(listas["ready"]))
    <3>1. aCpu' = [aCpu EXCEPT ![c] = Append(@, m)]
      BY <2>2 DEF EnviarProcesoACpu, EnviarACpu
    <3>2. m \in MensajesKernel
      <4>1. Head(listas["ready"]) \in Pid
        BY <2>2, <1>t, HeadTailProperties DEF EnviarProcesoACpu, Despachable, TypeOK
      <4>. QED BY <4>1 DEF MensajeKernel, MensajesKernel
    <3>. HIDE DEF m
    <3>3. aCpu'[c] = Append(aCpu[c], m) /\ aCpu[c] \in Seq(MensajesKernel)
      BY <3>1, <1>t DEF InvCpu, TypeOKCanales
    <3>4. aCpu'[c] # <<>>
      BY <3>2, <3>3, ConMensajes
    <3>. QED BY <3>4 DEF Avisada, Callado
  <2>3. CASE NuevoCpu(c)
    <3>1. libre'[c]
      BY <2>3, <1>t DEF NuevoCpu, TypeOK
    <3>. QED BY <3>1 DEF Avisada
  <2>4. CASE ~(AtenderCpu(c) \/ EnviarProcesoACpu(c) \/ NuevoCpu(c))
    BY <1>0, <1>1, <2>4, IgualTrasKernel, SinRechazos
  <2>. QED BY <2>1, <2>2, <2>3, <2>4
<1>2. ASSUME NEW d \in Cpu, d # c, TrabajoDeCpu(d) \/ SucesoDeCpu(d)
      PROVE  Avisada(c)'
  BY <1>0, <1>t, <1>2, TurnoCpu DEF Protocolo
<1>3. CASE TrabajoDeCpu(c) \/ SucesoDeCpu(c)
  <2>1. ASSUME NEW tipo \in Finales, NEW s \in Nombre \cup {SinNombre}, FinDeRafaga(c, tipo, s)
        PROVE  ~Callado(c)'
    <3>1. estadoCpu[c] = "ejecuta" /\ EnviarAKernel(c, <<MensajeCpu(tipo, pidCpu[c], s)>>)
          /\ aCpu' = aCpu
      BY <2>1 DEF FinDeRafaga, TerminarRafaga, Pasar
    <3>2. MensajeCpu(tipo, pidCpu[c], s) \in MensajesCpu /\ Callado(c)
      BY <1>t, <2>1, <3>1, TipoMensajeCpu, TurnoDeQuienCorre DEF Protocolo
    <3>. QED BY <1>t, <3>1, <3>2, TrasEnviar, UnMensaje DEF Callado
  <2>2. CASE Sigusr1(c)
    <3>1. libre' = libre
      BY <1>3 DEF TrabajoDeCpu, SucesoDeCpu, kernel, tablaCpus
    <3>. QED BY <2>2, <3>1, <1>0 DEF Sigusr1, canales, IgualCpu
  <2>3. ASSUME RecibirContexto(c) \/ RecibirRespuesta(c) \/ CaerCpu(c)
               \/ \E tipo \in Pedidos : \E s \in Semaforo \cup {SinNombre} : Pedir(c, tipo, s)
        PROVE  estadoCpu'[c] # "contexto"
    BY <1>t, <2>3 DEF RecibirContexto, RecibirRespuesta, CaerCpu, Pedir, Pasar, InvCpu, TypeOKProcesador
  <2>4. CASE Conectar(c)
    BY <1>t, <2>4 DEF Conectar, Avisada, InvCpu, TypeOKCanales
  <2>5. ~RecibirOtraCosa(c) /\ ~RecibirRespuestaInesperada(c) /\ ~MoverCursor(c)
    BY LlegaLoEsperado DEF Protocolo, MoverCursor
  <2>. QED BY <1>3, <2>1, <2>2, <2>3, <2>4, <2>5 DEF TrabajoDeCpu, SucesoDeCpu, Avisada
<1>4. CASE Consola \/ UNCHANGED vars
  <2>1. UNCHANGED <<aKernel, aCpu, libre, enlace, estadoCpu, rpc>>
    BY <1>4 DEF Consola, IniciarPrograma, PedirFinalizar, CerrarConsola, vars, kernel, tablaCpus,
                canales, procesador
  <2>. QED BY <1>0, <2>1 DEF IgualCpu
<1>. QED BY <1>1, <1>2, <1>3, <1>4 DEF Next

(* A CPU that has given its process back, and goes on, is never forgotten: *)
(* whatever dies or is killed, the kernel has it as free or will read a    *)
(* message that says so.  Where a script moves the cursor of a file the    *)
(* burst ends without a message and the CPU is lost.                       *)
THEOREM NingunaCpuOlvidada ==
  ASSUME {"alocar", "cursor"} \cap Eventos = {}
  PROVE  Spec => []OciosaAvisada
<1> DEFINE Inv == \A c \in Cpu : Avisada(c)
<1>1. Init => Inv
  BY DEF Init, InitCanales, Avisada
<1>2. /\ InvTipo /\ ConPid /\ UnicaLista /\ Protocolo /\ Protocolo' /\ Inv /\ [Next]_vars
      => Inv'
  BY AvisadaNext
<1>3. Inv => OciosaAvisada
  BY DEF Avisada, Callado, OciosaAvisada
<1>4. Spec => []Protocolo
  BY ProtocoloSiempre
<1>. QED BY <1>1, <1>2, <1>3, <1>4, InvTipoInductivo, SiempreEnUnaLista, PTL DEF Spec
-----------------------------------------------------------------------------
(* A process in EXEC is held by some CPU.                                  *)
Tiene(c, p) == EnIda(c, p) \/ CorreEn(c, p) \/ EnVuelta(c, p)

EjecutandoConCpu == \A p \in Pid : Est[p] = "exec" => \E c \in Cpu : Tiene(c, p)

(* A message that gives a process back takes it out of EXEC.               *)
LEMMA FinalSaca ==
  ASSUME TipoListas, UnicaLista, numeroPid' = numeroPid, NEW c \in Cpu, NEW m, m.pid \in Pid,
         Trata(c, m), m.tipo \in Finales
  PROVE  Est'[m.pid] # "exec"
<1>1. CASE FinalizoQuantum(c, m) \/ PidioArchivo(c, m) \/ Wait(c, m)
  <2>1. MoverDeExec(m.pid, "ready") \/ MoverDeExec(m.pid, "blocked")
    BY <1>1 DEF FinalizoQuantum, PidioArchivo, Wait
  <2>2. \/ PasaDe(m.pid, "exec", "ready") \/ PasaDe(m.pid, "exec", "blocked")
        \/ Est[m.pid] # "exec" /\ Est' = Est
    BY <2>1, EstMoverDeExec
  <2>. QED BY <2>2, PasaDeEst
<1>2. CASE FinalizoEjecucion(c, m) \/ FinalizoConError(c, m)
  BY <1>2, EstTrata DEF FinalizoEjecucion, FinalizoConError, Terminales
<1>. QED BY <1>1, <1>2 DEF Trata, Signal, Consulta, AlocarBien, AlocarMal, Finales, Consultas

(* What a CPU holds when its message is attended is only that.             *)
LEMMA TieneTrasAtender ==
  ASSUME "alocar" \notin Eventos, InvTipo, UnicaLista, Protocolo, NEW c \in Cpu, AtenderCpu(c),
         UNCHANGED procesador, NEW p \in Pid, Est'[p] = "exec", NEW d \in Cpu, Tiene(d, p)
  PROVE  Est[p] = "exec" /\ Tiene(d, p)'
<1>t. TipoKernel /\ TypeOK /\ TipoListas
  BY DEF InvTipo, TipoKernel, TypeOK, TipoListas
<1>1. PICK m \in ToSet(aKernel[c]) :
        Recibir(c, m) /\ Trata(c, m) /\ LeeElKernel(c, m) /\ m = aKernel[c][1]
  BY <1>t, AtenderCpuLee
<1>2. Est[p] = "exec"
  BY <1>1 DEF LeeElKernel
<1>3. CASE d # c
  <2>1. IgualCpu(d)
    BY <1>3, TurnoAtenderCpu, SinRechazos DEF Protocolo
  <2>. QED BY <1>2, <2>1 DEF Tiene, EnIda, CorreEn, EnVuelta, IgualCpu, procesador
<1>4. CASE d = c
  <2>1. aCpu[c] = <<>> /\ aKernel[c] = <<m>>
    <3>1. aKernel[c] # <<>>
      BY <1>1 DEF Recibir
    <3>. QED BY <1>1, <3>1 DEF Protocolo, Turno, EsperaContexto, EnRafaga, EsperaRespuesta, SeFue,
                               Callado, HayIda, HayVuelta
  <2>2. ~EnIda(c, p)
    BY <2>1 DEF EnIda, ToSet
  <2>3. ~EnVuelta(c, p)
    <3>1. Est'[m.pid] # "exec" \/ m.tipo \notin Finales
      BY <1>t, <1>1, FinalSaca, TipoMensaje DEF Recibir
    <3>. QED BY <2>1, <3>1 DEF EnVuelta, ToSet
  <2>4. CorreEn(c, p)
    BY <1>4, <2>2, <2>3 DEF Tiene
  <2>. QED BY <1>2, <1>4, <2>4 DEF Tiene, CorreEn, procesador
<1>. QED BY <1>3, <1>4

(* A CPU lets go only what it sends.                                       *)
LEMMA TieneTrasCpu ==
  ASSUME {"cursor", "cae_cpu"} \cap Eventos = {}, InvCpu, Protocolo, NEW c \in Cpu,
         TrabajoDeCpu(c) \/ SucesoDeCpu(c), NEW p \in Pid, NEW d \in Cpu, Tiene(d, p)
  PROVE  Tiene(d, p)'
<1>0. Turno(c)
  BY DEF Protocolo
<1>1. ASSUME RecibirContexto(c), d = c PROVE Tiene(c, p)'
  <2>1. /\ aCpu[c] = <<Head(aCpu[c])>> /\ estadoCpu[c] = "contexto"
        /\ estadoCpu' = [estadoCpu EXCEPT ![c] = "ejecuta"]
        /\ pidCpu' = [pidCpu EXCEPT ![c] = Head(aCpu[c]).pid] /\ aKernel' = aKernel
    BY <1>0, <1>1, LlegaLoEsperado DEF RecibirContexto, Pasar
  <2>2. CASE EnIda(c, p)
    <3>1. Head(aCpu[c]) = MensajeKernel("ENVIAR_CONTEXTO", p)
      BY <2>1, <2>2 DEF EnIda, ToSet
    <3>2. Head(aCpu[c]).pid = p
      BY <3>1 DEF MensajeKernel
    <3>. QED BY <2>1, <3>2 DEF Tiene, CorreEn, InvCpu, TypeOKProcesador
  <2>3. CASE EnVuelta(c, p)
    BY <2>1, <2>3 DEF Tiene, EnVuelta
  <2>. QED BY <1>1, <2>1, <2>2, <2>3 DEF Tiene, CorreEn
<1>2. ASSUME RecibirRespuesta(c), d = c PROVE Tiene(c, p)'
  <2>1. /\ estadoCpu[c] = "respuesta" /\ estadoCpu' = [estadoCpu EXCEPT ![c] = "ejecuta"]
        /\ UNCHANGED <<aKernel, pidCpu>>
        /\ aCpu[c] = <<Head(aCpu[c])>> /\ Head(aCpu[c]).tipo = rpc[c]
    BY <1>0, <1>2, LlegaLoEsperado DEF RecibirRespuesta, Pasar
  <2>2. ~EnIda(c, p)
    <3>1. Head(aCpu[c]).tipo # "ENVIAR_CONTEXTO"
      BY <1>0, <2>1 DEF Turno, EsperaContexto, EnRafaga, EsperaRespuesta, SeFue, Pedidos, Consultas
    <3>2. MensajeKernel("ENVIAR_CONTEXTO", p).tipo = "ENVIAR_CONTEXTO"
      BY DEF MensajeKernel
    <3>3. ToSet(aCpu[c]) = {Head(aCpu[c])}
      BY <2>1 DEF ToSet
    <3>. QED BY <3>1, <3>2, <3>3 DEF EnIda
  <2>. QED BY <1>2, <2>1, <2>2 DEF Tiene, EnVuelta, CorreEn, InvCpu, TypeOKProcesador
<1>3. ASSUME NEW tipo \in Pedidos, NEW s \in Semaforo \cup {SinNombre}, Pedir(c, tipo, s), d = c
      PROVE  Tiene(c, p)'
  <2>1. /\ estadoCpu[c] = "ejecuta" /\ estadoCpu' = [estadoCpu EXCEPT ![c] = "respuesta"]
        /\ UNCHANGED pidCpu
    BY <1>3 DEF Pedir, Pasar
  <2>2. CorreEn(c, p)
    BY <1>0, <1>3, <2>1, TurnoDeQuienCorre DEF Tiene, EnIda, EnVuelta, Callado, ToSet
  <2>. QED BY <2>1, <2>2 DEF Tiene, CorreEn, InvCpu, TypeOKProcesador
<1>4. ASSUME NEW tipo \in Finales, NEW s \in Nombre \cup {SinNombre}, FinDeRafaga(c, tipo, s), d = c
      PROVE  Tiene(c, p)'
  <2> DEFINE m == MensajeCpu(tipo, pidCpu[c], s)
  <2>1. estadoCpu[c] = "ejecuta" /\ EnviarAKernel(c, <<m>>) /\ aCpu' = aCpu
    BY <1>4 DEF FinDeRafaga, TerminarRafaga, Pasar
  <2>2. m \in MensajesCpu /\ m.tipo = tipo /\ m.pid = pidCpu[c]
    BY <2>1, TipoMensajeCpu DEF MensajeCpu
  <2>. HIDE DEF m
  <2>3. Callado(c)
    BY <1>0, <2>1, TurnoDeQuienCorre
  <2>4. pidCpu[c] = p
    BY <1>4, <2>3 DEF Tiene, EnIda, EnVuelta, CorreEn, Callado, ToSet
  <2>5. aKernel'[c] = <<m>>
    BY <2>1, <2>2, <2>3, TrasEnviar
  <2>6. m \in ToSet(aKernel'[c])
    BY <2>5 DEF ToSet
  <2>. QED BY <2>2, <2>4, <2>6 DEF Tiene, EnVuelta
<1>5. CASE Conectar(c) \/ Sigusr1(c)
  <2>1. UNCHANGED <<aCpu, aKernel, estadoCpu, pidCpu>>
    BY <1>5 DEF Conectar, Sigusr1, canales, procesador
  <2>. QED BY <2>1 DEF Tiene, EnIda, EnVuelta, CorreEn
<1>6. CASE d # c
  <2>1. IgualCpu(d)
    BY <1>6, <1>0, TurnoCpu
  <2>2. pidCpu'[d] = pidCpu[d]
    <3>1. CASE RecibirContexto(c)
      BY <1>6, <3>1 DEF RecibirContexto, InvCpu, TypeOKProcesador
    <3>. QED BY <1>6, <3>1, CpuTrabaja DEF TrabajaLaCpu
  <2>. QED BY <2>1, <2>2 DEF Tiene, EnIda, EnVuelta, CorreEn, IgualCpu
<1>7. ~RecibirOtraCosa(c) /\ ~RecibirRespuestaInesperada(c) /\ ~MoverCursor(c) /\ ~CaerCpu(c)
  BY <1>0, LlegaLoEsperado DEF MoverCursor, CaerCpu
<1>. QED BY <1>1, <1>2, <1>3, <1>4, <1>5, <1>6, <1>7 DEF TrabajoDeCpu, SucesoDeCpu

(* No step loses a process that is in EXEC.                                *)
LEMMA EjecutandoNext ==
  ASSUME {"alocar", "cursor", "cae_cpu"} \cap Eventos = {}, InvTipo, ConPid, UnicaLista,
         Protocolo, EjecutandoConCpu, [Next]_vars
  PROVE  EjecutandoConCpu'
<1>. SUFFICES ASSUME NEW p \in Pid, Est'[p] = "exec"
              PROVE  \E c \in Cpu : Tiene(c, p)'
  BY DEF EjecutandoConCpu
<1>t. InvCpu /\ TypeOK /\ TipoKernel
  BY DEF InvTipo, TipoKernel, TypeOK, InvCpu
<1>0. Est[p] = "exec" => \E d \in Cpu : Tiene(d, p)
  BY DEF EjecutandoConCpu
<1>1. CASE PasoDeKernel
  <2>k. NextKernel /\ UNCHANGED procesador
    BY <1>1 DEF PasoDeKernel
  <2>1. ASSUME NEW c \in Cpu, AtenderCpu(c)
        PROVE  \E d \in Cpu : Tiene(d, p)'
    <3>1. Est[p] = "exec"
      <4>1. \E m : LeeElKernel(c, m)
        BY <2>1, <2>k, <1>t, AtenderCpuLee
      <4>. QED BY <4>1 DEF LeeElKernel
    <3>. QED BY <1>0, <2>1, <2>k, <3>1, TieneTrasAtender
  <2>2. ASSUME NEW c \in Cpu, EnviarProcesoACpu(c)
        PROVE  \E d \in Cpu : Tiene(d, p)'
    <3> DEFINE q == Head(listas["ready"])
               m == MensajeKernel("ENVIAR_CONTEXTO", q)
    <3>1. q \in Pid /\ PasaDe(q, "ready", "exec")
      BY <1>t, <2>2, EstEnviarProceso
    <3>2. m \in MensajesKernel
      BY <3>1 DEF MensajeKernel, MensajesKernel
    <3>3. aCpu' = [aCpu EXCEPT ![c] = Append(@, m)] /\ UNCHANGED aKernel
      BY <2>2 DEF EnviarProcesoACpu, EnviarACpu
    <3>4. CASE p = q
      <4>1. MensajeKernel("ENVIAR_CONTEXTO", p) = m
        BY <3>4
      <4>. HIDE DEF m, q
      <4>2. aCpu'[c] = Append(aCpu[c], m) /\ aCpu[c] \in Seq(MensajesKernel)
        BY <3>3, <1>t DEF InvCpu, TypeOKCanales
      <4>3. m \in ToSet(aCpu'[c])
        BY <3>2, <4>2, ColaTrasEnviar DEF ToSet
      <4>. QED BY <4>1, <4>3 DEF Tiene, EnIda
    <3>5. CASE p # q
      <4>1. Est[p] = "exec"
        BY <3>1, <3>5, PasaDeEst
      <4>2. PICK d \in Cpu : Tiene(d, p)
        BY <1>0, <4>1
      <4>. HIDE DEF m, q
      <4>3. \A x \in ToSet(aCpu[d]) : x \in ToSet(aCpu'[d])
        <5>1. CASE d # c
          BY <3>3, <5>1, <1>t DEF InvCpu, TypeOKCanales
        <5>2. CASE d = c
          <6>1. aCpu'[c] = Append(aCpu[c], m) /\ aCpu[c] \in Seq(MensajesKernel)
            BY <3>3, <1>t DEF InvCpu, TypeOKCanales
          <6>. QED BY <3>2, <5>2, <6>1, ColaTrasEnviar DEF ToSet
        <5>. QED BY <5>1, <5>2
      <4>. QED BY <2>k, <3>3, <4>2, <4>3 DEF Tiene, EnIda, EnVuelta, CorreEn, procesador
    <3>. QED BY <3>4, <3>5
  <2>3. CASE ~\E c \in Cpu : AtenderCpu(c) \/ EnviarProcesoACpu(c)
    <3>1. FueraDeVuelo /\ UNCHANGED <<aKernel, aCpu>>
      BY <1>t, <2>k, <2>3, KernelFueraDeVuelo
    <3>2. Est[p] = "exec"
      BY <3>1 DEF FueraDeVuelo
    <3>. QED BY <1>0, <2>k, <3>1, <3>2 DEF Tiene, EnIda, EnVuelta, CorreEn, procesador
  <2>. QED BY <2>1, <2>2, <2>3
<1>2. CASE ~PasoDeKernel
  <2>1. UNCHANGED kernel
    BY <1>2, PasoAjeno
  <2>2. Est[p] = "exec"
    BY <2>1, EstSinMover DEF kernel, pcbs
  <2>3. PICK d \in Cpu : Tiene(d, p)
    BY <1>0, <2>2
  <2>4. ASSUME NEW c \in Cpu, TrabajoDeCpu(c) \/ SucesoDeCpu(c) PROVE Tiene(d, p)'
    BY <1>t, <2>3, <2>4, TieneTrasCpu
  <2>5. CASE Consola \/ UNCHANGED vars
    <3>1. UNCHANGED <<aKernel, aCpu, estadoCpu, pidCpu>>
      BY <2>5 DEF Consola, IniciarPrograma, PedirFinalizar, CerrarConsola, vars, canales, procesador
    <3>. QED BY <2>3, <3>1 DEF Tiene, EnIda, EnVuelta, CorreEn
  <2>. QED BY <1>2, <2>4, <2>5 DEF Next
<1>. QED BY <1>1, <1>2

(* A process in EXEC is at a CPU: its context is on the way, runs, or is   *)
(* on the way back, also when the program is killed and when its CPU is    *)
(* asked to leave.  The code loses it where a CPU dies in a burst, where a *)
(* script moves the cursor of a file and where a reservation fails.        *)
THEOREM EjecutandoSiempreEnCpu ==
  ASSUME {"alocar", "cursor", "cae_cpu"} \cap Eventos = {}
  PROVE  Spec => []ExecEnCpu
<1>1. Init => EjecutandoConCpu
  BY DEF Init, InitKernel, EjecutandoConCpu, Est, Estado, Pid
<1>2. InvTipo /\ ConPid /\ UnicaLista /\ Protocolo /\ EjecutandoConCpu /\ [Next]_vars
      => EjecutandoConCpu'
  BY EjecutandoNext
<1>3. InvTipo /\ UnicaLista /\ EjecutandoConCpu => ExecEnCpu
  <2>. SUFFICES ASSUME InvTipo, UnicaLista, EjecutandoConCpu, NEW p \in En("exec")
                PROVE  Tenencias(p) # {}
    BY DEF ExecEnCpu
  <2>1. p \in Pid
    BY DEF En, ToSet, InvTipo, TipoKernel, TypeOK
  <2>2. Est[p] = "exec"
    BY <2>1, EstadoEnLista
  <2>3. PICK c \in Cpu : Tiene(c, p)
    BY <2>1, <2>2 DEF EjecutandoConCpu
  <2>4. \E x : x \in Tenencias(p)
    BY <2>1, <2>3, LugaresDeTenencias DEF Tiene
  <2>. QED BY <2>4
<1>4. Spec => []Protocolo
  BY ProtocoloSiempre
<1>. QED BY <1>1, <1>2, <1>3, <1>4, InvTipoInductivo, SiempreEnUnaLista, PTL DEF Spec
-----------------------------------------------------------------------------
(* Memory: frames belong to the processes in the system.                   *)
MencionDeVivos == \A c \in Cpu, p \in Pid : Mencion(c, p) => Est[p] = "exec"

(* An answered request moves nobody.                                       *)
LEMMA PedidoNoMueve ==
  ASSUME "alocar" \notin Eventos, numeroPid' = numeroPid, NEW c \in Cpu, NEW m, Trata(c, m),
         m.tipo \in Pedidos
  PROVE  Est' = Est
<1>1. UNCHANGED listas
  BY DEF Trata, FinalizoEjecucion, FinalizoConError, FinalizoQuantum, PidioArchivo, Wait, Signal,
         Consulta, AlocarBien, AlocarMal, Pedidos, Consultas
<1>. QED BY <1>1, EstSinMover

(* Only a message, or the end that a console asks for, takes out of EXEC.  *)
LEMMA SigueEnExec ==
  ASSUME TipoKernel, UnicaLista, NextKernel, \A c \in Cpu : ~AtenderCpu(c),
         \A p \in Pid : ~AtenderPrograma(p), NEW q \in Pid, Est[q] = "exec"
  PROVE  Est'[q] = "exec"
<1>t. TipoListas
  BY DEF TipoKernel, TypeOK, TipoListas
<1>0. ASSUME NEW p \in Pid, NEW e \in {"inexistente", "new", "ready", "blocked"}, NEW d,
             PasaDe(p, e, d)
      PROVE  Est'[q] = "exec"
  BY <1>0, PasaDeEst
<1>1. CASE PasoSinListas
  BY <1>1, EstSinListas
<1>2. CASE NuevoPrograma
  BY <1>0, <1>2, EstNuevoPrograma
<1>3. ASSUME NEW p \in Pid,
             \/ PasarBloqueado(p) \/ AtenderES(p) \/ AtenderESConError(p)
             \/ AtenderWait(p) \/ AtenderWaitDesconocido(p)
      PROVE  Est'[q] = "exec"
  <2>1. EnBloqueado(p)
    BY <1>3 DEF PasarBloqueado, AtenderES, AtenderESConError, AtenderWait,
                AtenderWaitDesconocido, PorAtender
  <2>2. Est[p] = "blocked" /\ numeroPid' = numeroPid /\ p \in En("blocked")
    BY <2>1, EstEnBloqueado, EstadoEnLista
  <2>3. UNCHANGED listas \/ ABlockedReady \/ Mover("blocked", p, "exit")
    BY <1>3 DEF PasarBloqueado, AtenderES, AtenderESConError, AtenderWait,
                AtenderWaitDesconocido, SalirSiPuede, FinalizarProgramaConError
  <2>4. Est' = Est \/ PasaDe(p, "blocked", "ready") \/ PasaDe(p, "blocked", "exit")
    BY <1>t, <2>1, <2>2, <2>3, EstEnBloqueado, EstMover
  <2>. QED BY <1>0, <2>4
<1>4. CASE AdmitirNuevo
  BY <1>0, <1>4, EstAdmitirNuevo
<1>5. CASE \E c \in Cpu : EnviarProcesoACpu(c)
  BY <1>0, <1>5, EstEnviarProceso
<1>. QED BY <1>1, <1>2, <1>3, <1>4, <1>5 DEF NextKernel, PasoSinListas

(* Once a message is attended its CPU has nothing to say of its process,   *)
(* if it gave it back, and mentions the process that it runs otherwise.    *)
LEMMA VivosTrasAtender ==
  ASSUME "alocar" \notin Eventos, InvTipo, UnicaLista, InvVuelo, Protocolo, MencionDeVivos,
         NEW c \in Cpu, AtenderCpu(c), UNCHANGED procesador
  PROVE  MencionDeVivos'
<1>. SUFFICES ASSUME NEW d \in Cpu, NEW q \in Pid, Mencion(d, q)'
              PROVE  Est'[q] = "exec"
  BY DEF MencionDeVivos
<1>t. TipoKernel /\ TypeOK /\ TipoListas /\ TypeOKCanales
  BY DEF InvTipo, TipoKernel, TypeOK, TipoListas
<1>1. PICK m \in ToSet(aKernel[c]) :
        Recibir(c, m) /\ Trata(c, m) /\ LeeElKernel(c, m) /\ m = aKernel[c][1]
  BY <1>t, AtenderCpuLee
<1>2. m.pid \in Pid /\ numeroPid' = numeroPid
  BY <1>t, <1>1, TipoMensaje DEF Recibir
<1>3. /\ aCpu[c] = <<>> /\ aKernel[c] = <<m>> /\ aKernel'[c] = <<>>
      /\ m.tipo \notin Pedidos => estadoCpu[c] \notin Corriendo
  <2>1. aKernel[c] # <<>> /\ aKernel'[c] = Tail(aKernel[c])
    BY <1>t, <1>1 DEF Recibir, TypeOKCanales
  <2>2. aCpu[c] = <<>> /\ aKernel[c] = <<m>>
    BY <1>1, <2>1 DEF Protocolo, Turno, EsperaContexto, EnRafaga, EsperaRespuesta, SeFue,
                      Callado, HayIda, HayVuelta
  <2>3. estadoCpu[c] \in Corriendo => m.tipo \in Pedidos
    <3>1. ~Callado(c) /\ \A tipos : ~HayIda(c, tipos) /\ (HayVuelta(c, tipos) => m.tipo \in tipos)
      BY <2>1, <2>2 DEF Callado, HayIda, HayVuelta
    <3>2. ~HayIda(c, {rpc[c]}) /\ (HayVuelta(c, {rpc[c]}) => m.tipo = rpc[c])
      BY <3>1
    <3>. QED BY <3>1, <3>2 DEF Protocolo, Turno, EsperaContexto, EnRafaga, EsperaRespuesta, SeFue,
                               Corriendo
  <2>. QED BY <2>1, <2>2, <2>3
<1>4. Mencion(c, m.pid)
  <2>1. 1 \in DOMAIN aKernel[c] /\ aKernel[c][1].pid = m.pid
    BY <1>3
  <2>. QED BY <2>1 DEF Mencion, Vuelta
<1>5. CASE d # c
  <2>1. IgualCpu(d)
    BY <1>5, TurnoAtenderCpu, SinRechazos DEF Protocolo
  <2>2. Mencion(d, q)
    BY <2>1 DEF Mencion, CorreEn, Ida, Vuelta, EsContexto, IgualCpu, procesador
  <2>3. q # m.pid
    BY <1>2, <1>4, <1>5, <2>2 DEF InvVuelo, MencionEnUnaCpu
  <2>. QED BY <1>1, <2>2, <2>3 DEF MencionDeVivos, LeeElKernel
<1>6. CASE d = c
  <2>1. ~Vuelta(c, q)'
    BY <1>3 DEF Vuelta
  <2>2. ~Ida(c, q)'
    <3>1. CASE DevolverCpu(c)
      BY <1>3, <3>1 DEF DevolverCpu, Ida
    <3>2. CASE EnviarACpu(c, m.tipo, m.pid) /\ m.tipo \in Pedidos
      <4> DEFINE r == MensajeKernel(m.tipo, m.pid)
      <4>1. ~EsContexto(r, q) /\ aCpu' = [aCpu EXCEPT ![c] = Append(@, r)]
        BY <3>2 DEF EsContexto, MensajeKernel, Pedidos, Consultas, EnviarACpu
      <4>. HIDE DEF r
      <4>2. aCpu'[c] = <<r>>
        BY <1>t, <1>3, <4>1, UnMensaje DEF TypeOKCanales
      <4>. QED BY <4>1, <4>2 DEF Ida, EsContexto
    <3>. QED BY <1>1, <3>1, <3>2, TrataPorTipo DEF Rechazable
  <2>3. CorreEn(c, q)
    BY <1>6, <2>1, <2>2 DEF Mencion, CorreEn, procesador
  <2>4. m.tipo \in Pedidos
    BY <1>3, <2>3 DEF CorreEn, Corriendo
  <2>5. Est' = Est
    BY <1>1, <1>2, <2>4, PedidoNoMueve
  <2>. QED BY <2>3, <2>5 DEF MencionDeVivos, Mencion
<1>. QED BY <1>5, <1>6

(* While nobody is killed and no reservation fails, only processes in EXEC *)
(* are mentioned.                                                          *)
LEMMA VivosNext ==
  ASSUME "alocar" \notin Eventos, InvTipo, ConPid, UnicaLista, InvVuelo, Protocolo,
         MencionDeVivos, \A p \in Pid : ~AtenderPrograma(p), [Next]_vars
  PROVE  MencionDeVivos'
<1>t. InvCpu /\ TypeOK /\ TipoKernel /\ Colas
  BY DEF InvTipo, TipoKernel, TypeOK, TypeOKCanales, InvCpu, Colas
<1>1. CASE PasoDeKernel
  <2>k. NextKernel /\ UNCHANGED procesador
    BY <1>1 DEF PasoDeKernel
  <2>1. CASE \E c \in Cpu : AtenderCpu(c)
    BY <2>1, <2>k, VivosTrasAtender
  <2>2. ASSUME NEW c \in Cpu, EnviarProcesoACpu(c), \A d \in Cpu : ~AtenderCpu(d)
        PROVE  MencionDeVivos'
    <3> DEFINE p == Head(listas["ready"])
               m == MensajeKernel("ENVIAR_CONTEXTO", p)
    <3>. SUFFICES ASSUME NEW d \in Cpu, NEW q \in Pid, Mencion(d, q)'
                  PROVE  Est'[q] = "exec"
      BY DEF MencionDeVivos
    <3>1. p \in Pid /\ Est'[p] = "exec"
      BY <1>t, <2>2, EstEnviarProceso, PasaDeEst
    <3>2. aCpu' = [aCpu EXCEPT ![c] = Append(@, m)] /\ aKernel' = aKernel
      BY <2>2 DEF EnviarProcesoACpu, EnviarACpu
    <3>3. m \in MensajesKernel /\ \A x : EsContexto(m, x) => x = p
      BY <3>1 DEF MensajeKernel, MensajesKernel, EsContexto
    <3>. HIDE DEF m, p
    <3>4. aCpu'[c] = Append(aCpu[c], m) /\ \A x \in Cpu : x # c => aCpu'[x] = aCpu[x]
      BY <1>t, <3>2 DEF Colas
    <3>5. CASE q # p
      <4>1. Ida(d, q)' => Ida(d, q)
        <5>1. aCpu[c] \in Seq(MensajesKernel)
          BY <1>t DEF Colas
        <5>2. \A i \in DOMAIN aCpu'[c] :
                (i \in DOMAIN aCpu[c] /\ aCpu'[c][i] = aCpu[c][i]) \/ aCpu'[c][i] = m
          BY <3>3, <3>4, <5>1, ColaTrasEnviar
        <5>. QED BY <3>3, <3>4, <3>5, <5>2 DEF Ida
      <4>2. Mencion(d, q)
        BY <2>k, <3>2, <4>1 DEF Mencion, CorreEn, Vuelta, procesador
      <4>3. Est[q] = "exec"
        BY <4>2 DEF MencionDeVivos
      <4>. QED BY <1>t, <2>2, <2>k, <4>3, SigueEnExec
    <3>. QED BY <3>1, <3>5
  <2>3. CASE ~\E c \in Cpu : AtenderCpu(c) \/ EnviarProcesoACpu(c)
    <3>1. UNCHANGED <<aKernel, aCpu>>
      BY <1>t, <2>k, <2>3, KernelFueraDeVuelo
    <3>2. \A d \in Cpu, q \in Pid : Mencion(d, q)' => Mencion(d, q)
      BY <2>k, <3>1 DEF Mencion, CorreEn, Ida, Vuelta, EsContexto, procesador
    <3>3. \A q \in Pid : Est[q] = "exec" => Est'[q] = "exec"
      BY <1>t, <2>k, <2>3, SigueEnExec
    <3>. QED BY <3>2, <3>3 DEF MencionDeVivos
  <2>. QED BY <2>1, <2>2, <2>3
<1>2. CASE ~PasoDeKernel
  <2>1. Est' = Est
    BY <1>2, PasoAjeno, EstSinMover DEF kernel, pcbs
  <2>2. ASSUME NEW c \in Cpu, TrabajoDeCpu(c) \/ SucesoDeCpu(c), ~RecibirContexto(c)
        PROVE  \A d \in Cpu, q \in Pid : Mencion(d, q)' => Mencion(d, q)
    BY <1>t, <2>2, CpuTrabaja, MencionTrasTrabajo
  <2>3. ASSUME NEW c \in Cpu, RecibirContexto(c)
        PROVE  \A d \in Cpu, q \in Pid : Mencion(d, q)' => Mencion(d, q)
    <3> DEFINE m == Head(aCpu[c])
    <3>1. /\ aCpu[c] = <<m>> /\ m.tipo = "ENVIAR_CONTEXTO" /\ aKernel' = aKernel
          /\ aCpu' = [aCpu EXCEPT ![c] = Tail(@)]
          /\ estadoCpu' = [estadoCpu EXCEPT ![c] = "ejecuta"]
          /\ pidCpu' = [pidCpu EXCEPT ![c] = m.pid]
      BY <2>3, LlegaLoEsperado DEF RecibirContexto, Pasar, Leer, Protocolo
    <3>. HIDE DEF m
    <3>2. aCpu'[c] = <<>> /\ \A d \in Cpu : d # c => aCpu'[d] = aCpu[d]
      BY <1>t, <3>1, UnMensaje DEF Colas
    <3>3. \A d \in Cpu, q \in Pid : Ida(d, q)' => Ida(d, q)
      BY <3>2 DEF Ida
    <3>4. \A d \in Cpu, q \in Pid : CorreEn(d, q)' => CorreEn(d, q) \/ (d = c /\ q = m.pid)
      BY <1>t, <3>1 DEF CorreEn, InvCpu, TypeOKProcesador
    <3>5. Ida(c, m.pid)
      BY <3>1 DEF Ida, EsContexto
    <3>. QED BY <3>1, <3>3, <3>4, <3>5 DEF Mencion, Vuelta
  <2>4. CASE Consola \/ UNCHANGED vars
    <3>1. UNCHANGED <<aKernel, aCpu, estadoCpu, pidCpu>>
      BY <2>4 DEF Consola, IniciarPrograma, PedirFinalizar, CerrarConsola, vars, canales, procesador
    <3>2. \A d \in Cpu, q \in Pid : Mencion(d, q)' => Mencion(d, q)
      BY <3>1 DEF Mencion, CorreEn, Ida, Vuelta, EsContexto
    <3>. QED BY <2>1, <3>2 DEF MencionDeVivos
  <2>5. ASSUME NEW c \in Cpu, TrabajoDeCpu(c) \/ SucesoDeCpu(c) PROVE MencionDeVivos'
    <3>1. \A d \in Cpu, q \in Pid : Mencion(d, q)' => Mencion(d, q)
      BY <2>2, <2>3, <2>5
    <3>. QED BY <2>1, <3>1 DEF MencionDeVivos
  <2>. QED BY <1>2, <2>4, <2>5 DEF Next
<1>. QED BY <1>1, <1>2

(* The frames follow the processes in the system.                          *)
LEMMA PaginasNext ==
  ASSUME InvTipo, UnicaLista, InvVuelo, InvColas, MencionDeVivos, conPaginas = Admitidos,
         \A p \in Pid : ~AtenderPrograma(p), [Next]_vars
  PROVE  conPaginas' = Admitidos'
<1>t. TypeOK
  BY DEF InvTipo, TipoKernel
<1>1. CASE NoMuda
  <2>1. Admitidos' = Admitidos
    BY <1>1 DEF NoMuda, Admitidos
  <2>2. ASSUME NEW c \in Cpu, NEW m \in ToSet(aKernel[c]), Recibir(c, m), AlocarBien(c, m)
        PROVE  conPaginas' = conPaginas
    <3>1. m.pid \in Pid /\ Mencion(c, m.pid)
      BY <1>t, <2>2, TipoMensaje DEF Mencion, Vuelta, ToSet
    <3>2. m.pid \in Admitidos
      BY <3>1 DEF MencionDeVivos, Admitidos
    <3>. QED BY <2>2, <3>2 DEF AlocarBien
  <2>. QED BY <1>1, <2>1, <2>2 DEF NoMuda, Aloca
<1>2. ASSUME NEW p \in Pid, Muda(p)
      PROVE  conPaginas' = Admitidos'
  <2>1. PICK f \in Flechas : PasaDe(p, f[1], f[2])
    BY <1>2 DEF Muda
  <2>2. Est[p] = f[1]
    BY <2>1, PasaDeEst
  <2>3. CASE Est[p] = "new"
    <3>1. f[1] = "new" /\ f[2] = "ready"
      <4>1. f[1] = "new"
        BY <2>2, <2>3
      <4>. QED BY <4>1 DEF Flechas
    <3>2. Admitidos' = Admitidos \cup {p}
      BY <2>1, <3>1, AdmitidosTrasPasar
    <3>. QED BY <1>2, <2>3, <3>2 DEF Muda, Ingresa, ReservarMemoriaParaProceso
  <2>4. CASE Est[p] # "new"
    <3>1. f[1] \in {"ready", "exec", "blocked"} <=> f[2] \in {"ready", "exec", "blocked"}
      BY <2>2, <2>4 DEF Flechas
    <3>2. Admitidos' = Admitidos
      BY <2>1, <3>1, AdmitidosTrasPasar
    <3>. QED BY <1>2, <2>4, <3>2 DEF Muda
  <2>. QED BY <2>3, <2>4
<1>3. ASSUME NEW p \in Pid, Muere(p)
      PROVE  conPaginas' = Admitidos'
  <2>1. Est[p] \in {"ready", "exec", "blocked"} /\ PasaDe(p, Est[p], "exit")
    BY <1>3 DEF Muere, Vivo
  <2>2. Admitidos' = Admitidos \ {p}
    BY <2>1, AdmitidosTrasPasar
  <2>. QED BY <1>3, <2>2 DEF Muere, LiberarRecursos
<1>. QED BY <1>1, <1>2, <1>3, CicloNext DEF PasoDelCiclo

(* Memory follows the life of the processes: the frames belong to those    *)
(* that were admitted and have not ended, whatever CPU dies or leaves and  *)
(* whatever file operation is refused.  A program that is killed while it  *)
(* waits for the answer to an ALOCAR is given a page after its end (run    *)
(* paginas), and one whose ALOCAR fails goes on asking.                    *)
THEOREM PaginasSoloDeVivos ==
  ASSUME {"matar", "matar_new", "alocar"} \cap Eventos = {}
  PROVE  Spec => []PaginasDeVivos
<1> DEFINE Inv == SinPedidos /\ MencionDeVivos /\ conPaginas = Admitidos
<1>1. Init => Inv
  <2>. SUFFICES ASSUME Init PROVE Inv
    OBVIOUS
  <2>1. /\ numeroPid = 1 /\ readfds.programas = {} /\ conPaginas = {}
        /\ \A p \in Pid : pedido[p] = "nada"
        /\ \A c \in Cpu : aKernel[c] = <<>> /\ aCpu[c] = <<>> /\ estadoCpu[c] = "contexto"
    BY DEF Init, InitKernel, InitCanales, InitProcesador, Nada
  <2>2. SinPedidos
    BY <2>1 DEF SinPedidos
  <2>3. \A c \in Cpu, p \in Pid : ~Mencion(c, p)
    BY <2>1 DEF Mencion, CorreEn, Ida, Vuelta
  <2>4. Admitidos = {}
    BY <2>1 DEF Admitidos, Est, Estado, Pid
  <2>. QED BY <2>1, <2>2, <2>3, <2>4 DEF MencionDeVivos
<1>2. /\ InvTipo /\ ConPid /\ UnicaLista /\ InvVuelo /\ InvColas /\ Protocolo /\ Inv /\ [Next]_vars
      => Inv'
  <2>. SUFFICES ASSUME InvTipo, ConPid, UnicaLista, InvVuelo, InvColas, Protocolo, Inv, [Next]_vars
                PROVE  Inv'
    OBVIOUS
  <2>1. SinPedidos' /\ \A p \in Pid : ~AtenderPrograma(p)
    BY SinPedidosNext DEF InvTipo, TipoKernel
  <2>2. MencionDeVivos'
    BY <2>1, VivosNext
  <2>3. conPaginas' = Admitidos'
    BY <2>1, PaginasNext
  <2>. QED BY <2>1, <2>2, <2>3
<1>3. InvTipo /\ UnicaLista /\ Inv => PaginasDeVivos
  <2>. SUFFICES ASSUME InvTipo, UnicaLista, conPaginas = Admitidos PROVE PaginasDeVivos
    OBVIOUS
  <2>1. \A e \in Estados : En(e) \subseteq Pid
    BY DEF En, ToSet, InvTipo, TipoKernel, TypeOK
  <2>2. \A e \in Estados : En(e) = {p \in Pid : Est[p] = e}
    BY <2>1, EstadoEnLista
  <2>. QED BY <2>2 DEF PaginasDeVivos, Admitidos
<1>4. Spec => []Protocolo
  BY ProtocoloSiempre
<1>. QED BY <1>1, <1>2, <1>3, <1>4, InvTipoInductivo, SiempreEnUnaLista, MensajesDeQuienEjecuta,
            InvColasSiempre, PTL DEF Spec
=============================================================================
