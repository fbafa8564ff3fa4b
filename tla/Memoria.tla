------------------------------- MODULE Memoria --------------------------------
(* The memory process (memoria/memoria.c): the inverted page table, the cache *)
(* and the threads that use them. One thread serves the kernel, one serves    *)
(* each CPU, one the keyboard. Only the kernel's thread writes the table; the *)
(* threads of the CPUs read it, and search the cache, without a lock; only    *)
(* what changes an entry of the cache is done with mutexCache.                *)
EXTENDS Integers, FiniteSets

CONSTANTS
  Pid,              \* processes of the system
  Cpu,              \* CPUs, each with its thread
  marcos,           \* frames
  bloquesAdm,       \* frames taken by the table itself
  entradas_cache,   \* entries of the cache, 0 when it is disabled
  entradas_x_proc,  \* entries that a process may have
  MaxPags,          \* bound: pages of each process
  MaxUso,           \* bound: uses that are counted for an entry before a new request
  Eventos,          \* what may happen: "matar" a running process, "flush"
  Operaciones,      \* what the scripts ask for
  Nadie             \* no process, no thread

Marco == bloquesAdm..(marcos - 1)
Entrada == 0..(entradas_cache - 1)
Pagina == UNION {0..(MaxPags[p] - 1) : p \in Pid}
DeInt == {"leerInt", "guardarInt"}
DeString == {"leerString", "guardarString"}
Operacion == DeInt \cup DeString
(* Where an access ends: inside its page, with it, or in the next; or it is   *)
(* longer than any page. *)
Tramo == {"dentro", "justo", "pasa", "excede"}

(* A process is never numbered like a free page or a free entry of the cache. *)
ASSUME ConstantesMemoria ==
  /\ Pid \subseteq Nat \ {0}
  /\ marcos \in Nat /\ bloquesAdm \in 1..(marcos - 1)
  /\ entradas_cache \in Nat /\ entradas_x_proc \in Nat \ {0}
  /\ MaxPags \in [Pid -> Nat \ {0}] /\ MaxUso \in Nat
  /\ Operaciones \subseteq Operacion
  /\ Nadie \notin Pid \cup Cpu

Libre == [pid |-> -1, pag |-> -1]
EntradaLibre == [pid |-> 0, numPag |-> 0, numBloque |-> 0, vecesUsado |-> 0]

VARIABLES
  tabla,            \* tablaPagsInvert, from bloquesAdm on
  framesOcupados,
  procActivos,      \* listaProcActivos
  memCache,
  mutexCache,       \* the thread that holds it
  fin,              \* the kernel's thread in finalizarProceso: step, pid and numPag
  pc,               \* the step of each CPU's thread
  pedido,           \* the message it serves
  pos, posBloque,   \* its local variables: entry of the cache, frame
  acceso,           \* its operation, and where the access ends
  respuesta,        \* what the CPU is told: "bien", "falla", or a "blanco" for a text
  pisada,           \* history: the entry of the hit had changed when it was used
  ejecuta,          \* the process that each CPU runs
  paginas,          \* the pages the kernel holds for each process
  muertos,          \* the processes whose end the kernel has asked for
  alFin             \* history: the pages that each of them had then

marcoVars == <<tabla, framesOcupados, procActivos>>
cacheVars == <<memCache, mutexCache>>
hiloVars == <<pc, pedido, pos, posBloque, acceso, respuesta, pisada>>
kernelVars == <<fin, paginas, muertos, alFin>>
vars == <<marcoVars, cacheVars, hiloVars, kernelVars, ejecuta>>

SinPedido == [pid |-> Nadie, pag |-> 0]
SinAcceso == [op |-> "nada", tramo |-> "dentro"]
SinFin == [paso |-> "nada", pid |-> Nadie, pag |-> 0]

Init ==
  /\ tabla = [m \in Marco |-> Libre]
  /\ framesOcupados = bloquesAdm
  /\ procActivos = {}
  /\ memCache = [e \in Entrada |-> EntradaLibre]
  /\ mutexCache = Nadie
  /\ fin = SinFin
  /\ pc = [c \in Cpu |-> "espera"]
  /\ pedido = [c \in Cpu |-> SinPedido]
  /\ pos = [c \in Cpu |-> 0]
  /\ posBloque = [c \in Cpu |-> -1]
  /\ acceso = [c \in Cpu |-> SinAcceso]
  /\ respuesta = [c \in Cpu |-> "nada"]
  /\ pisada = [c \in Cpu |-> FALSE]
  /\ ejecuta = [c \in Cpu |-> Nadie]
  /\ paginas = [p \in Pid |-> 0]
  /\ muertos = {}
  /\ alFin = [p \in Pid |-> 0]
-------------------------------------------------------------------------------
(* The table. *)
cacheActivada == entradas_cache > 0
Libres(t) == {m \in Marco : t[m] = Libre}
MarcosDe(t, p, g) == {m \in Marco : t[m] = [pid |-> p, pag |-> g]}
Primero(S) == CHOOSE m \in S : \A n \in S : m <= n

(* verificarPosHash from funcionHash, which is always the first frame. *)
(* (variant: the page is compared and the process is not) *)
verificarPosSinPid(t, p, g) ==
  LET S == {m \in Marco : t[m].pag = g} IN IF S = {} THEN -1 ELSE Primero(S)

verificarPosHash(t, p, g) ==
  IF MarcosDe(t, p, g) = {} THEN -1 ELSE Primero(MarcosDe(t, p, g))

Ocioso(p) == \A c \in Cpu : ejecuta[c] = p => pc[c] = "espera"

(* The kernel adds a page to a process: it loads it, or the process waits for *)
(* the kernel in ALOCAR. One that was killed while it ran still asks: the     *)
(* kernel finds it among its programs, and memory among no dead ones.         *)
reservarPagina(p) ==
  /\ fin.paso = "nada" /\ paginas[p] < MaxPags[p] /\ Ocioso(p)
  /\ p \in muertos => \E c \in Cpu : ejecuta[c] = p
  /\ Libres(tabla) # {}
  /\ tabla' = [tabla EXCEPT ![Primero(Libres(tabla))] = [pid |-> p, pag |-> paginas[p]]]
  /\ framesOcupados' = framesOcupados + 1
  /\ procActivos' = procActivos \cup {p}
  /\ paginas' = [paginas EXCEPT ![p] = @ + 1]
  /\ UNCHANGED <<cacheVars, hiloVars, fin, muertos, alFin, ejecuta>>

(* KM_FIN_PROCESO arrives, for a process that is not running or is killed. *)
PedirFin(p) ==
  /\ fin.paso = "nada" /\ p \notin muertos /\ paginas[p] > 0
  /\ "matar" \in Eventos \/ \A c \in Cpu : ejecuta[c] # p
  /\ muertos' = muertos \cup {p}
  /\ alFin' = [alFin EXCEPT ![p] = paginas[p]]
  /\ fin' = [paso |-> "cache", pid |-> p, pag |-> 0]
  /\ UNCHANGED <<marcoVars, cacheVars, hiloVars, paginas, ejecuta>>

(* eliminarProcesoEnCache and eliminarProcesoDeActivos. *)
SinProceso(cache, p) ==
  [e \in Entrada |-> IF cache[e].pid = p THEN EntradaLibre ELSE cache[e]]

(* (variant: the process stays in the list of the active ones) *)
eliminarSoloDeCache ==
  /\ fin.paso = "cache" /\ (cacheActivada => mutexCache = Nadie)
  /\ memCache' = SinProceso(memCache, fin.pid)
  /\ fin' = [fin EXCEPT !.paso = "memoria"]
  /\ UNCHANGED <<marcoVars, mutexCache, hiloVars, paginas, muertos, alFin, ejecuta>>

eliminarProcesoEnCache ==
  /\ fin.paso = "cache" /\ (cacheActivada => mutexCache = Nadie)
  /\ memCache' = SinProceso(memCache, fin.pid)
  /\ procActivos' = procActivos \ {fin.pid}
  /\ fin' = [fin EXCEPT !.paso = "memoria"]
  /\ UNCHANGED <<tabla, framesOcupados, mutexCache, hiloVars, paginas, muertos, alFin, ejecuta>>

(* One page of eliminarProcesoEnMemoria; a page that is not there ends it. *)
(* (variant: the pages are counted from 1) *)
MarcoSiguiente == verificarPosHash(tabla, fin.pid, fin.pag + 1)

MarcoALiberar == verificarPosHash(tabla, fin.pid, fin.pag)

liberarPagina ==
  /\ fin.paso = "memoria"
  /\ LET m == MarcoALiberar IN
       IF m # -1
       THEN /\ tabla' = [tabla EXCEPT ![m] = Libre]
            /\ framesOcupados' = framesOcupados - 1
            /\ fin' = [fin EXCEPT !.pag = @ + 1]
       ELSE /\ fin' = SinFin
            /\ UNCHANGED <<tabla, framesOcupados>>
  /\ UNCHANGED <<procActivos, cacheVars, hiloVars, paginas, muertos, alFin, ejecuta>>

(* The keyboard empties the cache. *)
flushCache ==
  /\ "flush" \in Eventos /\ cacheActivada /\ mutexCache = Nadie
  /\ memCache' = [e \in Entrada |-> EntradaLibre]
  /\ UNCHANGED <<marcoVars, mutexCache, hiloVars, kernelVars, ejecuta>>
-------------------------------------------------------------------------------
(* The CPUs: one runs a process that is loaded and that no other runs. *)
Ejecutar(c, p) ==
  /\ ejecuta[c] = Nadie /\ paginas[p] > 0 /\ p \notin muertos
  /\ \A d \in Cpu : ejecuta[d] # p
  /\ ejecuta' = [ejecuta EXCEPT ![c] = p]
  /\ UNCHANGED <<marcoVars, cacheVars, hiloVars, kernelVars>>

Soltar(c) ==
  /\ ejecuta[c] # Nadie /\ pc[c] = "espera"
  /\ ejecuta' = [ejecuta EXCEPT ![c] = Nadie]
  /\ UNCHANGED <<marcoVars, cacheVars, hiloVars, kernelVars>>

(* A request for any page, one that the process has not included. What it is *)
(* asked to do there is chosen when it is done, for each part of the access: *)
(* the lookup, the same text in the four operations, does not look at it.    *)
Pedir(c, g) ==
  /\ ejecuta[c] # Nadie /\ pc[c] = "espera" /\ g < MaxPags[ejecuta[c]]
  /\ \A e \in Entrada : memCache[e].vecesUsado <= MaxUso
  /\ pedido' = [pedido EXCEPT ![c].pid = ejecuta[c], ![c].pag = g]
  /\ pc' = [pc EXCEPT ![c] = IF cacheActivada THEN "busca" ELSE "retardo"]
  /\ UNCHANGED <<marcoVars, cacheVars, pos, posBloque, acceso, respuesta, pisada, kernelVars, ejecuta>>
-------------------------------------------------------------------------------
(* The thread of a CPU: the lookup, which the four operations share. *)

(* The entries that follow are left to be read, or it is not in the cache. *)
SeguirBuscando(c) ==
  /\ pos' = [pos EXCEPT ![c] = IF @ + 1 \in Entrada THEN @ + 1 ELSE 0]
  /\ pc' = [pc EXCEPT ![c] = IF pos[c] + 1 \in Entrada THEN "busca" ELSE "retardo"]

(* estaLaPagEnCache reads the pid of an entry and, if it is that, its page; *)
(* nothing keeps the entry from changing between the two.                   *)
CompararPid(c) ==
  /\ pc[c] = "busca"
  /\ IF memCache[pos[c]].pid = pedido[c].pid
     THEN pc' = [pc EXCEPT ![c] = "compara"] /\ UNCHANGED pos
     ELSE SeguirBuscando(c)
  /\ UNCHANGED <<marcoVars, cacheVars, pedido, posBloque, acceso, respuesta, pisada, kernelVars, ejecuta>>

CompararPagina(c) ==
  /\ pc[c] = "compara"
  /\ IF memCache[pos[c]].numPag = pedido[c].pag
     THEN pc' = [pc EXCEPT ![c] = "acierto"] /\ UNCHANGED pos
     ELSE SeguirBuscando(c)
  /\ UNCHANGED <<marcoVars, cacheVars, pedido, posBloque, acceso, respuesta, pisada, kernelVars, ejecuta>>

EsClave(entrada, p, g) == entrada.pid = p /\ entrada.numPag = g

(* A hit: the frame is read from the entry, again without the lock. *)
LeerBloque(c) ==
  /\ pc[c] = "acierto"
  /\ posBloque' = [posBloque EXCEPT ![c] = memCache[pos[c]].numBloque]
  /\ pisada' = [pisada EXCEPT ![c] = ~EsClave(memCache[pos[c]], pedido[c].pid, pedido[c].pag)]
  /\ pc' = [pc EXCEPT ![c] = "suma"]
  /\ UNCHANGED <<marcoVars, cacheVars, pedido, pos, acceso, respuesta, kernelVars, ejecuta>>

sumarVecesUsada(c) ==
  /\ pc[c] = "suma" /\ mutexCache = Nadie
  /\ memCache' = [memCache EXCEPT ![pos[c]].vecesUsado = @ + 1]
  /\ pos' = [pos EXCEPT ![c] = 0]
  /\ pc' = [pc EXCEPT ![c] = "accede"]
  /\ UNCHANGED <<marcoVars, mutexCache, pedido, posBloque, acceso, respuesta, pisada, kernelVars, ejecuta>>

(* A miss: after the delay the page is searched in the table. *)
(* (variant: what was not found goes to the cache as well) *)
BuscarSinMirar(c) ==
  /\ pc[c] = "retardo"
  /\ posBloque' = [posBloque EXCEPT ![c] = verificarPosHash(tabla, pedido[c].pid, pedido[c].pag)]
  /\ pc' = [pc EXCEPT ![c] = IF cacheActivada THEN "cuenta" ELSE "accede"]
  /\ UNCHANGED <<marcoVars, cacheVars, pedido, pos, acceso, respuesta, pisada, kernelVars, ejecuta>>

BuscarEnTabla(c) ==
  /\ pc[c] = "retardo"
  /\ LET m == verificarPosHash(tabla, pedido[c].pid, pedido[c].pag) IN
       /\ posBloque' = [posBloque EXCEPT ![c] = m]
       /\ pc' = [pc EXCEPT ![c] = IF m # -1 /\ cacheActivada THEN "cuenta" ELSE "accede"]
  /\ UNCHANGED <<marcoVars, cacheVars, pedido, pos, acceso, respuesta, pisada, kernelVars, ejecuta>>

EntradasDe(cache, p) == {e \in Entrada : cache[e].pid = p}

(* (variant: a process that has all its entries takes one more) *)
TieneCupoDeMas(p) == Cardinality(EntradasDe(memCache, p)) <= entradas_x_proc

TieneCupo(p) == Cardinality(EntradasDe(memCache, p)) < entradas_x_proc

cantVecesPidEnCache(c) ==
  /\ pc[c] = "cuenta"
  /\ pc' = [pc EXCEPT ![c] = IF TieneCupo(pedido[c].pid) THEN "global" ELSE "local"]
  /\ UNCHANGED <<marcoVars, cacheVars, pedido, pos, posBloque, acceso, respuesta, pisada, kernelVars, ejecuta>>

(* The victim: the first of the least used, or the first of the process. *)
MenosUsadas(cache) ==
  {e \in Entrada : \A f \in Entrada : cache[e].vecesUsado <= cache[f].vecesUsado}

paginaAReemplazarEnCache(c) ==
  /\ pc[c] = "global"
  /\ pos' = [pos EXCEPT ![c] = Primero(MenosUsadas(memCache))]
  /\ pc' = [pc EXCEPT ![c] = "clave"]
  /\ UNCHANGED <<marcoVars, cacheVars, pedido, posBloque, acceso, respuesta, pisada, kernelVars, ejecuta>>

paginaAReemplazarEnCacheDelPid(c) ==
  /\ pc[c] = "local"
  /\ LET propias == EntradasDe(memCache, pedido[c].pid) IN
       pos' = [pos EXCEPT ![c] = IF propias = {} THEN 0 ELSE Primero(propias)]
  /\ pc' = [pc EXCEPT ![c] = "clave"]
  /\ UNCHANGED <<marcoVars, cacheVars, pedido, posBloque, acceso, respuesta, pisada, kernelVars, ejecuta>>

(* actualizarCache: the key and the rest, seen apart by who does not lock. *)
(* (variant: the entry is written without waiting for the lock) *)
EscribirSinEsperar(c) ==
  /\ pc[c] = "clave"
  /\ mutexCache' = c
  /\ memCache' = [memCache EXCEPT ![pos[c]].pid = pedido[c].pid, ![pos[c]].numPag = pedido[c].pag]
  /\ pc' = [pc EXCEPT ![c] = "bloque"]
  /\ UNCHANGED <<marcoVars, pedido, pos, posBloque, acceso, respuesta, pisada, kernelVars, ejecuta>>

EscribirClave(c) ==
  /\ pc[c] = "clave" /\ mutexCache = Nadie
  /\ mutexCache' = c
  /\ memCache' = [memCache EXCEPT ![pos[c]].pid = pedido[c].pid, ![pos[c]].numPag = pedido[c].pag]
  /\ pc' = [pc EXCEPT ![c] = "bloque"]
  /\ UNCHANGED <<marcoVars, pedido, pos, posBloque, acceso, respuesta, pisada, kernelVars, ejecuta>>

EscribirBloque(c) ==
  /\ pc[c] = "bloque"
  /\ mutexCache' = Nadie
  /\ memCache' = [memCache EXCEPT ![pos[c]].numBloque = posBloque[c], ![pos[c]].vecesUsado = 1]
  /\ pos' = [pos EXCEPT ![c] = 0]
  /\ pc' = [pc EXCEPT ![c] = "accede"]
  /\ UNCHANGED <<marcoVars, pedido, posBloque, acceso, respuesta, pisada, kernelVars, ejecuta>>
-------------------------------------------------------------------------------
(* The access itself, different in each operation. *)
Responder(c, op, tramo, r) ==
  /\ acceso' = [acceso EXCEPT ![c] = [op |-> op, tramo |-> tramo]]
  /\ respuesta' = [respuesta EXCEPT ![c] = r]
  /\ posBloque' = [posBloque EXCEPT ![c] = -1]
  /\ pc' = [pc EXCEPT ![c] = "responde"]
  /\ UNCHANGED <<marcoVars, cacheVars, pedido, pos, pisada, kernelVars, ejecuta>>

(* A page that does not exist: a string that could not be read is answered  *)
(* as a blank that was. Where the access ends is not looked at.             *)
Falla(op) == IF op = "leerString" THEN "blanco" ELSE "falla"

SinPagina(c, op) ==
  /\ pc[c] = "accede" /\ posBloque[c] = -1
  /\ Responder(c, op, "dentro", Falla(op))

(* More than a page is refused once the cache was searched. *)
DeMas(c, op) ==
  /\ pc[c] \in {"acierto", "retardo"}
  /\ acceso' = [acceso EXCEPT ![c] = [op |-> op, tramo |-> "excede"]]
  /\ respuesta' = [respuesta EXCEPT ![c] = Falla(op)]
  /\ pos' = [pos EXCEPT ![c] = 0]
  /\ pc' = [pc EXCEPT ![c] = "responde"]
  /\ UNCHANGED <<marcoVars, cacheVars, pedido, posBloque, pisada, kernelVars, ejecuta>>

(* An integer: -1 is answered as a failure, and one that reaches the end of   *)
(* its page ("pasa", here also if it ends with it) is never copied to the     *)
(* variable that is returned, so it is any.                                   *)
leerDatoInt(c, tramo) ==
  /\ pc[c] = "accede" /\ posBloque[c] # -1
  /\ \E r \in {"bien", "falla"} : Responder(c, "leerInt", tramo, r)

(* An integer is stored wherever it ends: what passes the end of its page is  *)
(* written at the start of the frame that follows.                            *)
guardarDatoInt(c, tramo) ==
  /\ pc[c] = "accede" /\ posBloque[c] # -1
  /\ Responder(c, "guardarInt", tramo, "bien")

(* A string: one that is read may be empty, which is answered as a blank. *)
StringEnUnaPagina(c, op) ==
  /\ pc[c] = "accede" /\ posBloque[c] # -1
  /\ \E r \in {"bien", "blanco"} :
       /\ r = "blanco" => op = "leerString"
       /\ Responder(c, op, "dentro", r)

(* A string that reaches the end of its page, even if it ends there: its first *)
(* part, and then the next page is searched, in the table only. The first      *)
(* frame is not used again.                                                    *)
PrimeraParte(c, op, tramo) ==
  /\ pc[c] = "accede" /\ posBloque[c] # -1
  /\ acceso' = [acceso EXCEPT ![c] = [op |-> op, tramo |-> tramo]]
  /\ pc' = [pc EXCEPT ![c] = "segunda"]
  /\ posBloque' = [posBloque EXCEPT ![c] = -1]
  /\ UNCHANGED <<marcoVars, cacheVars, pedido, pos, respuesta, pisada, kernelVars, ejecuta>>

(* (variant: the frame that follows is used, whoever has it) *)
MarcoContiguo(c) ==
  LET m == verificarPosHash(tabla, pedido[c].pid, pedido[c].pag) + 1 IN
    IF m \in Marco THEN m ELSE -1

MarcoDeLaSegunda(c) == verificarPosHash(tabla, pedido[c].pid, pedido[c].pag + 1)

SegundaPagina(c) ==
  /\ pc[c] = "segunda"
  /\ LET m == MarcoDeLaSegunda(c) IN
       IF m = -1
       THEN Responder(c, acceso[c].op, acceso[c].tramo, Falla(acceso[c].op))
       ELSE /\ posBloque' = [posBloque EXCEPT ![c] = m]
            /\ pc' = [pc EXCEPT ![c] = "accede2"]
            /\ UNCHANGED <<marcoVars, cacheVars, pedido, pos, acceso, respuesta, pisada, kernelVars,
                           ejecuta>>

(* The result of a string stored in two pages is never assigned: it is any. *)
SegundaParte(c) ==
  /\ pc[c] = "accede2"
  /\ \E r \in {"bien", Falla(acceso[c].op)} : Responder(c, acceso[c].op, acceso[c].tramo, r)

Acceder(c) ==
  \/ \E op \in Operaciones : DeMas(c, op) \/ SinPagina(c, op)
  \/ "leerInt" \in Operaciones /\ \E tramo \in {"dentro", "pasa"} : leerDatoInt(c, tramo)
  \/ "guardarInt" \in Operaciones /\ \E tramo \in {"dentro", "pasa"} : guardarDatoInt(c, tramo)
  \/ \E op \in DeString \cap Operaciones :
       \/ StringEnUnaPagina(c, op)
       \/ \E tramo \in {"justo", "pasa"} : PrimeraParte(c, op, tramo)
  \/ SegundaPagina(c) \/ SegundaParte(c)

(* The CPU reads the answer and the thread waits for the next message. *)
Recibir(c) ==
  /\ pc[c] = "responde"
  /\ pc' = [pc EXCEPT ![c] = "espera"]
  /\ pedido' = [pedido EXCEPT ![c] = SinPedido]
  /\ acceso' = [acceso EXCEPT ![c] = SinAcceso]
  /\ respuesta' = [respuesta EXCEPT ![c] = "nada"]
  /\ pisada' = [pisada EXCEPT ![c] = FALSE]
  /\ UNCHANGED <<marcoVars, cacheVars, pos, posBloque, kernelVars, ejecuta>>
-------------------------------------------------------------------------------
HiloCPU(c) ==
  \/ CompararPid(c) \/ CompararPagina(c) \/ LeerBloque(c) \/ sumarVecesUsada(c)
  \/ BuscarEnTabla(c) \/ cantVecesPidEnCache(c)
  \/ paginaAReemplazarEnCache(c) \/ paginaAReemplazarEnCacheDelPid(c)
  \/ EscribirClave(c) \/ EscribirBloque(c)
  \/ Acceder(c)

HiloKernel ==
  \/ \E p \in Pid : reservarPagina(p) \/ PedirFin(p)
  \/ eliminarProcesoEnCache \/ liberarPagina

NextCpu(c) ==
  \/ \E p \in Pid : Ejecutar(c, p)
  \/ Soltar(c) \/ Recibir(c)
  \/ \E g \in Pagina : Pedir(c, g)

Next == HiloKernel \/ flushCache \/ \E c \in Cpu : HiloCPU(c) \/ NextCpu(c)
Spec == Init /\ [][Next]_vars
-------------------------------------------------------------------------------
(* Properties. *)
Paso == {"espera", "busca", "compara", "acierto", "suma", "retardo", "cuenta", "global", "local",
         "clave", "bloque", "accede", "segunda", "accede2", "responde"}
Posicion == Entrada \cup {0}

(* Types. *)
TipoMemoria ==
  /\ tabla \in [Marco -> [pid : Pid \cup {-1}, pag : Pagina \cup {-1}]]
  /\ framesOcupados \in Int
  /\ procActivos \subseteq Pid
  /\ memCache \in [Entrada -> [pid : Pid \cup {0}, numPag : Nat,
                               numBloque : Marco \cup {0}, vecesUsado : Nat]]
  /\ mutexCache \in Cpu \cup {Nadie}
  /\ fin \in [paso : {"nada", "cache", "memoria"}, pid : Pid \cup {Nadie}, pag : Nat]
  /\ pc \in [Cpu -> Paso]
  /\ pedido \in [Cpu -> [pid : Pid \cup {Nadie}, pag : Nat]]
  /\ pos \in [Cpu -> Posicion]
  /\ posBloque \in [Cpu -> Marco \cup {-1, 0}]
  /\ acceso \in [Cpu -> [op : Operacion \cup {"nada"}, tramo : Tramo]]
  /\ respuesta \in [Cpu -> {"nada", "bien", "falla", "blanco"}]
  /\ pisada \in [Cpu -> BOOLEAN]
  /\ ejecuta \in [Cpu -> Pid \cup {Nadie}]
  /\ paginas \in [Pid -> Nat]
  /\ muertos \subseteq Pid
  /\ alFin \in [Pid -> Nat]

(* The pages that the table must hold: all those of a live process; of one   *)
(* that is being ended, those that finalizarProceso has not reached; of one  *)
(* that ended, none of those that it had (memoria.c:434, which stops at the  *)
(* first missing page), but those that the kernel reserved for it afterwards *)
(* (kernel.c:311), which nobody releases.                                    *)
DebeEstar(p, g) ==
  /\ g < paginas[p]
  /\ p \in muertos => (p = fin.pid /\ g >= fin.pag) \/ g >= alFin[p]

(* Each page that must be in the table is in exactly one frame, and no other *)
(* page is: what a process had when its end was asked for is all released,   *)
(* although others reserve and release, and nothing of what was reserved for *)
(* it later is.                                                              *)
TablaFiel ==
  /\ \A p \in Pid, g \in Pagina : DebeEstar(p, g) <=> MarcosDe(tabla, p, g) # {}
  /\ \A m, n \in Marco : tabla[m] = tabla[n] /\ tabla[m] # Libre => m = n

(* framesOcupados, which the console reports, counts the frames in use, and *)
(* the list of active processes has those that own one, save the process    *)
(* that eliminarProcesoEnMemoria is working on.                             *)
CuentasExactas ==
  /\ framesOcupados = bloquesAdm + Cardinality(Marco \ Libres(tabla))
  /\ procActivos = {p \in Pid : \E m \in Marco : tabla[m].pid = p}
                   \ (IF fin.paso = "memoria" THEN {fin.pid} ELSE {})

(* The entries of a live process tell the truth about where its pages are,  *)
(* unless they are just being written.                                      *)
EnEscritura(e) == mutexCache # Nadie /\ pos[mutexCache] = e
CacheConcuerda ==
  \A e \in Entrada :
    LET x == memCache[e] IN
      x.pid \in Pid \ muertos /\ ~EnEscritura(e)
        => x.numBloque \in Marco /\ tabla[x.numBloque] = [pid |-> x.pid, pag |-> x.numPag]

(* No process has more entries than entradas_x_proc, whatever other threads  *)
(* did between counting them and writing the new one.                        *)
CuotaRespetada == \A p \in Pid : Cardinality(EntradasDe(memCache, p)) <= entradas_x_proc

(* The frame that a thread is about to use belongs to the page that it looked *)
(* for, as long as the process is not ended and, in a hit, if the entry was   *)
(* still its own when the frame was read from it. It need not be: between the *)
(* comparison of its key and that, nothing keeps it from changing             *)
(* (memoria.c:628); nor does anything keep the frame for a process that was   *)
(* ended while it runs (memoria.c:779).                                       *)
ConBloque == {"suma", "cuenta", "global", "local", "clave", "bloque", "accede", "accede2"}
Buscada(c) == IF pc[c] = "accede2" THEN pedido[c].pag + 1 ELSE pedido[c].pag
DelPedido(c) == tabla[posBloque[c]] = [pid |-> pedido[c].pid, pag |-> Buscada(c)]
Vale(c) == pisada[c] => pc[c] = "accede2"
AccesoPropio ==
  \A c \in Cpu :
    pc[c] \in ConBloque /\ posBloque[c] # -1 /\ pedido[c].pid \notin muertos /\ Vale(c)
      => posBloque[c] \in Marco /\ DelPedido(c)

(* What a CPU is told when its process lives (and, in a hit, the entry was    *)
(* still its own): a text, or an integer inside its page, is only reported as *)
(* done when every page that it takes is there, and a store inside a page is  *)
(* only refused when the page is not. A blank says nothing: it is also a      *)
(* text. The rest is not told truly: a stored -1 is a failure (memoria.c:489), *)
(* a text that ends with its page is refused when the next one is missing, or *)
(* for no reason when it is not (memoria.c:827, 846), and an integer that     *)
(* passes the end of its page is done all the same (memoria.c:645, 779).      *)
Atendido(c) == pc[c] = "responde" /\ pedido[c].pid \notin muertos /\ ~pisada[c]
Falta(c) ==
  \/ ~DebeEstar(pedido[c].pid, pedido[c].pag)
  \/ acceso[c].tramo = "pasa" /\ ~DebeEstar(pedido[c].pid, pedido[c].pag + 1)
Guarda == {"guardarInt", "guardarString"}
RespuestaCierta ==
  \A c \in Cpu : Atendido(c) =>
    /\ respuesta[c] = "bien" /\ (acceso[c].op \in DeInt => acceso[c].tramo = "dentro")
         => ~Falta(c)
    /\ respuesta[c] = "falla" /\ acceso[c].op \in Guarda /\ acceso[c].tramo = "dentro"
         => Falta(c)
===============================================================================
