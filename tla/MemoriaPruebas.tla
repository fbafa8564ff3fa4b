---------------------------- MODULE MemoriaPruebas ----------------------------
(* Theorems about the memory process, for any number of processes, CPUs,      *)
(* frames and entries of the cache: what the table and the cache hold, and    *)
(* what a thread that uses them without a lock may rely on.                   *)
EXTENDS Memoria, FiniteSetTheorems, TLAPS

(* Numbers that are not of a process nor of a frame. *)
LEMMA Numeros ==
  /\ -1 \notin Pid /\ 0 \notin Pid /\ -1 \notin Marco /\ 0 \notin Marco
  /\ Marco \subseteq Nat /\ Pid \subseteq Nat /\ Pagina \subseteq Nat /\ Entrada \subseteq Nat
  /\ \A p \in Pid, g \in Nat : g < MaxPags[p] => g \in Pagina
<1>1. \A p \in Pid : MaxPags[p] \in Nat \ {0}
  BY ConstantesMemoria
<1>2. \A p \in Pid, g \in Nat : g < MaxPags[p] => g \in Pagina
  BY <1>1 DEF Pagina
<1>3. Pagina \subseteq Nat
  BY <1>1 DEF Pagina
<1> QED BY <1>2, <1>3, ConstantesMemoria DEF Marco, Entrada

(* A set of numbers that has some has a first one. *)
LEMMA HayPrimero ==
  ASSUME NEW S, S \subseteq Nat, S # {}
  PROVE  Primero(S) \in S /\ \A n \in S : Primero(S) <= n
<1> DEFINE T == {0..n : n \in S}
           R == StrictSubsetOrdering(Nat)
<1>1. \A n \in S : 0..n \in FiniteSubsetsOf(Nat)
  BY FS_Interval DEF FiniteSubsetsOf
<1>2. T \subseteq FiniteSubsetsOf(Nat) /\ T # {}
  BY <1>1
<1>3. IsWellFoundedOn(R, FiniteSubsetsOf(Nat))
  BY FS_StrictSubsetOrderingWellFounded
<1>4. PICK x \in T : \A y \in T : ~ (<<y, x>> \in R)
  <2> HIDE DEF T, R
  <2> QED BY <1>2, <1>3, WFMin
<1>5. PICK m \in S : x = 0..m
  BY <1>4
<1>6. ASSUME NEW n \in S, n < m PROVE FALSE
  <2>1. 0..n \subseteq Nat /\ 0..m \subseteq Nat /\ 0..n \subseteq 0..m /\ 0..n # 0..m
    BY <1>6
  <2>2. <<0..n, 0..m>> \in R
    BY <2>1 DEF StrictSubsetOrdering
  <2> QED BY <2>2, <1>4, <1>5
<1>7. \E k \in S : \A n \in S : k <= n
  BY <1>6
<1> QED BY <1>7 DEF Primero

(* What the search of the table returns. *)
LEMMA Busqueda ==
  ASSUME NEW t, NEW p, NEW g
  PROVE  \/ MarcosDe(t, p, g) = {} /\ verificarPosHash(t, p, g) = -1
         \/ /\ MarcosDe(t, p, g) # {} /\ verificarPosHash(t, p, g) \in Marco
            /\ verificarPosHash(t, p, g) # -1
            /\ t[verificarPosHash(t, p, g)] = [pid |-> p, pag |-> g]
<1>1. CASE MarcosDe(t, p, g) = {}
  BY <1>1 DEF verificarPosHash
<1>2. CASE MarcosDe(t, p, g) # {}
  <2>1. MarcosDe(t, p, g) \subseteq Nat
    BY Numeros DEF MarcosDe
  <2>2. Primero(MarcosDe(t, p, g)) \in MarcosDe(t, p, g)
    BY <2>1, <1>2, HayPrimero
  <2> QED BY <1>2, <2>2, Numeros DEF verificarPosHash, MarcosDe
<1> QED BY <1>1, <1>2
-------------------------------------------------------------------------------
(* The table, the pages that the kernel holds and the process that is ended.  *)
TipoMarcos ==
  /\ tabla \in [Marco -> [pid : Pid \cup {-1}, pag : Pagina \cup {-1}]]
  /\ fin \in [paso : {"nada", "cache", "memoria"}, pid : Pid \cup {Nadie}, pag : Nat]
  /\ paginas \in [Pid -> Nat]
  /\ muertos \subseteq Pid
  /\ alFin \in [Pid -> Nat]
FinBien ==
  /\ fin.paso = "nada" => fin = SinFin
  /\ fin.paso # "nada" => fin.pid \in muertos /\ alFin[fin.pid] = paginas[fin.pid]
Limite == \A p \in Pid : paginas[p] <= MaxPags[p] /\ alFin[p] <= paginas[p]
InvMarcos == TipoMarcos /\ FinBien /\ Limite /\ TablaFiel

(* Each action is for the table one of these steps. *)
Mismos == UNCHANGED <<tabla, fin, paginas, muertos, alFin>>
PasoMarcos ==
  \/ \E p \in Pid : reservarPagina(p) \/ PedirFin(p)
  \/ eliminarProcesoEnCache \/ liberarPagina \/ Mismos

(* A free frame is taken for the next page of a process, ended or not. *)
LEMMA ReservaGuarda ==
  ASSUME InvMarcos, NEW p \in Pid, reservarPagina(p)
  PROVE  InvMarcos'
<1> DEFINE g == paginas[p]
<1>1. Libres(tabla) # {} /\ Libres(tabla) \subseteq Nat /\ Libres(tabla) \subseteq Marco
  BY Numeros DEF reservarPagina, Libres
<1>2. PICK m \in Marco : tabla[m] = Libre /\ m = Primero(Libres(tabla))
  BY <1>1, HayPrimero DEF Libres
<1>3. /\ tabla' = [tabla EXCEPT ![m] = [pid |-> p, pag |-> g]]
      /\ paginas' = [paginas EXCEPT ![p] = g + 1]
      /\ UNCHANGED <<fin, muertos, alFin>>
      /\ fin.paso = "nada" /\ g < MaxPags[p]
  BY <1>2 DEF reservarPagina
<1>4. /\ tabla \in [Marco -> [pid : Pid \cup {-1}, pag : Pagina \cup {-1}]]
      /\ paginas \in [Pid -> Nat] /\ g \in Nat /\ MaxPags[p] \in Nat /\ fin = SinFin
      /\ muertos \subseteq Pid /\ alFin \in [Pid -> Nat] /\ alFin[p] <= g
  BY <1>3, ConstantesMemoria DEF InvMarcos, TipoMarcos, FinBien, Limite
<1>5. g \in Pagina
  BY <1>3, <1>4, Numeros
<1>6. /\ tabla'[m] = [pid |-> p, pag |-> g]
      /\ \A n \in Marco \ {m} : tabla'[n] = tabla[n]
      /\ paginas'[p] = g + 1 /\ \A q \in Pid \ {p} : paginas'[q] = paginas[q]
  BY <1>3, <1>4
<1>7. TipoMarcos'
  <2>1. tabla' \in [Marco -> [pid : Pid \cup {-1}, pag : Pagina \cup {-1}]]
    BY <1>3, <1>4, <1>5
  <2>2. paginas' \in [Pid -> Nat]
    BY <1>3, <1>4
  <2> QED BY <2>1, <2>2, <1>3 DEF InvMarcos, TipoMarcos
<1>8. FinBien'
  BY <1>3 DEF InvMarcos, FinBien, SinFin
<1>9. Limite'
  <2>1. \A q \in Pid : paginas[q] \in Nat /\ alFin[q] \in Nat
    BY <1>4
  <2> QED BY <2>1, <1>3, <1>4, <1>6 DEF InvMarcos, Limite
<1>10. ASSUME NEW q \in Pid, NEW h \in Pagina
       PROVE  DebeEstar(q, h)' <=> MarcosDe(tabla', q, h) # {}
  <2>1. h \in Nat
    BY Numeros
  <2>2. DebeEstar(q, h)' <=> DebeEstar(q, h) \/ (q = p /\ h = g)
    BY <2>1, <1>3, <1>4, <1>6 DEF DebeEstar
  <2>3. tabla[m] # [pid |-> q, pag |-> h]
    BY <1>2, Numeros DEF Libre
  <2>4. MarcosDe(tabla', q, h) # {} <=> MarcosDe(tabla, q, h) # {} \/ (q = p /\ h = g)
    <3>1. CASE q = p /\ h = g
      BY <3>1, <1>6 DEF MarcosDe
    <3>2. CASE ~(q = p /\ h = g)
      <4>1. MarcosDe(tabla', q, h) = MarcosDe(tabla, q, h)
        BY <3>2, <2>3, <1>6 DEF MarcosDe
      <4> QED BY <4>1, <3>2
    <3> QED BY <3>1, <3>2
  <2> QED BY <2>2, <2>4 DEF InvMarcos, TablaFiel
<1>11. \A n \in Marco : tabla[n] # [pid |-> p, pag |-> g]
  <2>1. ~DebeEstar(p, g)
    BY <1>4 DEF DebeEstar
  <2> QED BY <2>1, <1>5 DEF InvMarcos, TablaFiel, MarcosDe
<1>12. \A n, o \in Marco : tabla'[n] = tabla'[o] /\ tabla'[n] # Libre => n = o
  BY <1>6, <1>11 DEF InvMarcos, TablaFiel
<1>13. TablaFiel'
  BY <1>10, <1>12 DEF TablaFiel
<1> QED BY <1>7, <1>8, <1>9, <1>13 DEF InvMarcos

(* The end of a process is asked for, and nothing is released yet. *)
LEMMA PedirFinGuarda ==
  ASSUME InvMarcos, NEW p \in Pid, PedirFin(p)
  PROVE  InvMarcos'
<1>1. /\ fin = SinFin /\ p \notin muertos /\ muertos' = muertos \cup {p}
      /\ fin' = [paso |-> "cache", pid |-> p, pag |-> 0]
      /\ UNCHANGED <<tabla, paginas>>
      /\ alFin' = [alFin EXCEPT ![p] = paginas[p]]
      /\ alFin \in [Pid -> Nat] /\ paginas \in [Pid -> Nat]
  BY DEF PedirFin, InvMarcos, TipoMarcos, FinBien, marcoVars
<1>2. TipoMarcos' /\ FinBien' /\ Limite'
  <2>1. alFin'[p] = paginas'[p] /\ \A q \in Pid \ {p} : alFin'[q] = alFin[q]
    BY <1>1
  <2> QED BY <2>1, <1>1 DEF InvMarcos, TipoMarcos, FinBien, Limite
<1>3. fin.pid = Nadie /\ Nadie \notin Pid
  BY <1>1, ConstantesMemoria DEF SinFin
<1>4. ASSUME NEW q \in Pid, NEW h \in Pagina PROVE DebeEstar(q, h)' <=> DebeEstar(q, h)
  <2>1. h \in Nat /\ paginas[q] \in Nat
    BY <1>1, Numeros
  <2>2. CASE q = p
    <3>1. alFin'[q] = paginas[q] /\ q \in muertos' /\ q \notin muertos /\ fin'.pid = q /\ fin'.pag = 0
      BY <2>2, <1>1
    <3> QED BY <2>1, <3>1, <1>1 DEF DebeEstar
  <2>3. CASE q # p
    <3>1. alFin'[q] = alFin[q] /\ (q \in muertos' <=> q \in muertos) /\ fin'.pid # q /\ fin.pid # q
      BY <2>3, <1>1, <1>3
    <3> QED BY <3>1, <1>1 DEF DebeEstar
  <2> QED BY <2>2, <2>3
<1>5. TablaFiel'
  BY <1>1, <1>4 DEF InvMarcos, TablaFiel
<1> QED BY <1>2, <1>5 DEF InvMarcos

(* One page is released, or the first that is missing ends the work: there    *)
(* is none after it.                                                          *)
LEMMA LiberarGuarda ==
  ASSUME InvMarcos, liberarPagina
  PROVE  InvMarcos'
<1>0. PICK p, g, m : p = fin.pid /\ g = fin.pag /\ m = verificarPosHash(tabla, p, g)
  OBVIOUS
<1>1. /\ p \in muertos /\ p \in Pid /\ g \in Nat /\ fin.paso = "memoria"
      /\ UNCHANGED <<paginas, muertos, alFin>> /\ alFin[p] = paginas[p]
  BY <1>0 DEF InvMarcos, TipoMarcos, FinBien, liberarPagina
<1>2. /\ tabla \in [Marco -> [pid : Pid \cup {-1}, pag : Pagina \cup {-1}]]
      /\ paginas[p] \in Nat /\ MaxPags[p] \in Nat /\ paginas[p] <= MaxPags[p]
      /\ fin \in [paso : {"nada", "cache", "memoria"}, pid : Pid \cup {Nadie}, pag : Nat]
  BY <1>1, ConstantesMemoria DEF InvMarcos, TipoMarcos, Limite
<1>3. CASE m = -1
  <2>1. MarcosDe(tabla, p, g) = {}
    <3>1. verificarPosHash(tabla, p, g) = -1
      BY <1>0, <1>3
    <3> QED BY <3>1, Busqueda, Zenon
  <2>2. UNCHANGED tabla /\ fin' = [paso |-> "nada", pid |-> Nadie, pag |-> 0]
    BY <1>0, <1>3 DEF liberarPagina, MarcoALiberar, SinFin
  <2>3. g >= paginas[p]
    <3>1. SUFFICES ASSUME g < paginas[p] PROVE FALSE
      BY <1>1, <1>2
    <3>2. g \in Pagina
      BY <3>1, <1>1, <1>2, Numeros
    <3>3. DebeEstar(p, g)
      BY <3>1, <1>0, <1>1 DEF DebeEstar
    <3> QED BY <3>2, <3>3, <2>1, <1>1 DEF InvMarcos, TablaFiel
  <2>4. ASSUME NEW q \in Pid, NEW h \in Pagina
        PROVE  DebeEstar(q, h)' <=> DebeEstar(q, h)
    <3>1. h \in Nat /\ paginas[q] \in Nat /\ alFin[q] \in Nat /\ Nadie \notin Pid
      BY Numeros, ConstantesMemoria DEF InvMarcos, TipoMarcos
    <3> QED BY <3>1, <2>2, <2>3, <1>0, <1>1, <1>2 DEF DebeEstar
  <2>5. TablaFiel'
    BY <2>2, <2>4 DEF InvMarcos, TablaFiel
  <2>6. TipoMarcos' /\ FinBien' /\ Limite'
    BY <2>2, <1>1 DEF InvMarcos, TipoMarcos, FinBien, Limite, SinFin
  <2> QED BY <2>5, <2>6 DEF InvMarcos
<1>4. CASE m # -1
  <2>1. m \in Marco /\ tabla[m] = [pid |-> p, pag |-> g]
    BY <1>0, <1>4, Busqueda
  <2>2. tabla' = [tabla EXCEPT ![m] = Libre] /\ fin' = [fin EXCEPT !.pag = g + 1]
    BY <1>0, <1>4 DEF liberarPagina, MarcoALiberar
  <2>3. /\ tabla'[m] = Libre /\ \A n \in Marco \ {m} : tabla'[n] = tabla[n]
        /\ fin' = [paso |-> "memoria", pid |-> p, pag |-> g + 1]
    BY <2>1, <2>2, <1>0, <1>1, <1>2
  <2>4. TipoMarcos' /\ FinBien' /\ Limite'
    <3>1. tabla' \in [Marco -> [pid : Pid \cup {-1}, pag : Pagina \cup {-1}]]
      BY <2>2, <1>2 DEF Libre
    <3> QED BY <3>1, <2>3, <1>1 DEF InvMarcos, TipoMarcos, FinBien, Limite
  <2>5. tabla[m] # Libre
    BY <2>1, <1>1, Numeros DEF Libre
  <2>6. \A n \in Marco \ {m} : tabla[n] # [pid |-> p, pag |-> g]
    BY <2>1, <2>5 DEF InvMarcos, TablaFiel
  <2>7. ASSUME NEW q \in Pid, NEW h \in Pagina
        PROVE  DebeEstar(q, h)' <=> MarcosDe(tabla', q, h) # {}
    <3>1. h \in Nat
      BY Numeros
    <3>2. Libre # [pid |-> q, pag |-> h]
      BY Numeros DEF Libre
    <3>3. CASE q = p /\ h = g
      <4>1. MarcosDe(tabla', q, h) = {}
        BY <3>2, <3>3, <2>3, <2>6 DEF MarcosDe
      <4>2. ~DebeEstar(q, h)'
        <5>1. g < paginas[p]
          BY <2>1, <3>3, <1>1 DEF InvMarcos, TablaFiel, MarcosDe, DebeEstar
        <5> QED BY <5>1, <3>3, <2>3, <1>1, <1>2 DEF DebeEstar
      <4> QED BY <4>1, <4>2
    <3>4. CASE ~(q = p /\ h = g)
      <4>1. MarcosDe(tabla', q, h) = MarcosDe(tabla, q, h)
        BY <3>2, <3>4, <2>1, <2>3 DEF MarcosDe
      <4>2. DebeEstar(q, h)' <=> DebeEstar(q, h)
        BY <3>1, <3>4, <2>3, <1>0, <1>1 DEF DebeEstar
      <4> QED BY <4>1, <4>2 DEF InvMarcos, TablaFiel
    <3> QED BY <3>3, <3>4
  <2>8. \A n, o \in Marco : tabla'[n] = tabla'[o] /\ tabla'[n] # Libre => n = o
    BY <2>3 DEF InvMarcos, TablaFiel
  <2>9. TablaFiel'
    BY <2>7, <2>8 DEF TablaFiel
  <2> QED BY <2>4, <2>9 DEF InvMarcos
<1> QED BY <1>3, <1>4

(* The other steps. *)
LEMMA MarcosGuarda ==
  ASSUME InvMarcos, PasoMarcos
  PROVE  InvMarcos'
<1>1. ASSUME UNCHANGED <<tabla, paginas, muertos, alFin>>, fin'.paso # "nada" \/ fin' = fin,
             fin'.pid = fin.pid, fin'.pag = fin.pag, TipoMarcos', FinBien'
      PROVE  InvMarcos'
  <2>1. \A q \in Pid, h \in Pagina : DebeEstar(q, h)' <=> DebeEstar(q, h)
    BY <1>1 DEF DebeEstar
  <2>2. TablaFiel'
    BY <2>1, <1>1 DEF InvMarcos, TablaFiel
  <2> QED BY <2>2, <1>1 DEF InvMarcos, Limite
<1>2. CASE Mismos
  <2>1. TipoMarcos' /\ FinBien'
    BY <1>2 DEF Mismos, InvMarcos, TipoMarcos, FinBien, SinFin
  <2> QED BY <2>1, <1>1, <1>2 DEF Mismos
<1>3. CASE eliminarProcesoEnCache
  <2>1. fin' = [fin EXCEPT !.paso = "memoria"] /\ UNCHANGED <<tabla, paginas, muertos, alFin>>
        /\ fin.paso = "cache"
    BY <1>3 DEF eliminarProcesoEnCache
  <2>2. TipoMarcos' /\ FinBien'
    BY <2>1 DEF InvMarcos, TipoMarcos, FinBien, SinFin
  <2> QED BY <2>1, <2>2, <1>1 DEF InvMarcos, TipoMarcos
<1> QED BY <1>2, <1>3, ReservaGuarda, PedirFinGuarda, LiberarGuarda DEF PasoMarcos
-------------------------------------------------------------------------------
(* The threads. Types of the rest of the variables.                           *)
TipoHilos ==
  /\ framesOcupados \in Int /\ procActivos \subseteq Pid
  /\ memCache \in [Entrada -> [pid : Pid \cup {0}, numPag : Nat,
                               numBloque : Marco \cup {0}, vecesUsado : Nat]]
  /\ mutexCache \in Cpu \cup {Nadie}
  /\ pc \in [Cpu -> Paso]
  /\ pedido \in [Cpu -> [pid : Pid \cup {Nadie}, pag : Nat]]
  /\ pos \in [Cpu -> Posicion]
  /\ posBloque \in [Cpu -> Marco \cup {-1, 0}]
  /\ acceso \in [Cpu -> [op : Operacion \cup {"nada"}, tramo : Tramo]]
  /\ respuesta \in [Cpu -> {"nada", "bien", "falla", "blanco"}]
  /\ pisada \in [Cpu -> BOOLEAN]
  /\ ejecuta \in [Cpu -> Pid \cup {Nadie}]

(* Where each thread is: the steps of the lookup in the cache, those of a     *)
(* miss that goes to the cache, and those that come before a hit is used. The *)
(* thread that writes an entry is the one that holds the mutex, and the key   *)
(* that it wrote is still there. It serves the process that its CPU runs.     *)
ConCache == {"busca", "compara", "acierto", "suma", "cuenta", "global", "local", "clave", "bloque"}
DeFallo == {"cuenta", "global", "local", "clave", "bloque"}
SinAcierto == DeFallo \cup {"espera", "busca", "compara", "acierto", "retardo"}
PasoDe(c) ==
  /\ pc[c] \in ConCache => cacheActivada
  /\ pc[c] \in DeFallo => posBloque[c] \in Marco
  /\ pc[c] \in {"suma", "accede2"} => posBloque[c] # -1
  /\ pc[c] \in SinAcierto => ~pisada[c]
  /\ pc[c] = "bloque" <=> mutexCache = c
  /\ pc[c] = "bloque" => EsClave(memCache[pos[c]], pedido[c].pid, pedido[c].pag)
  /\ pc[c] # "espera" => ejecuta[c] \in Pid /\ pedido[c].pid = ejecuta[c]
EnUnaCpu == \A c, d \in Cpu : ejecuta[c] = ejecuta[d] /\ ejecuta[c] # Nadie => c = d
InvHilos == TipoHilos /\ EnUnaCpu /\ \A c \in Cpu : PasoDe(c)

(* The entries, when the cache is enabled. *)
LEMMA ConEntradas ==
  ASSUME cacheActivada, NEW x \in Posicion
  PROVE  x \in Entrada /\ 0 \in Entrada
  BY ConstantesMemoria DEF cacheActivada, Posicion, Entrada

(* There is always a victim. *)
LEMMA HayVictima ==
  ASSUME TipoHilos, cacheActivada
  PROVE  Primero(MenosUsadas(memCache)) \in Entrada
<1> DEFINE V == {memCache[e].vecesUsado : e \in Entrada}
<1>1. V \subseteq Nat
  BY DEF TipoHilos
<1>2. V # {}
  <2>1. 0 \in Entrada
    BY ConEntradas DEF Posicion
  <2>2. memCache[0].vecesUsado \in V
    BY <2>1
  <2> QED BY <2>2
<1>3. Primero(V) \in V /\ \A n \in V : Primero(V) <= n
  BY <1>1, <1>2, HayPrimero
<1>4. MenosUsadas(memCache) # {}
  BY <1>3 DEF MenosUsadas
<1>5. MenosUsadas(memCache) \subseteq Entrada /\ MenosUsadas(memCache) \subseteq Nat
  BY Numeros DEF MenosUsadas
<1> QED BY <1>4, <1>5, HayPrimero

(* The first entry of a process that has some, or the first of all. *)
LEMMA HayPropia ==
  ASSUME NEW p, EntradasDe(memCache, p) # {}
  PROVE  Primero(EntradasDe(memCache, p)) \in EntradasDe(memCache, p)
<1>1. EntradasDe(memCache, p) \subseteq Nat
  BY Numeros DEF EntradasDe
<1> QED BY <1>1, HayPrimero

(* The entries of the cache. *)
TipoEntrada == [pid : Pid \cup {0}, numPag : Nat, numBloque : Marco \cup {0}, vecesUsado : Nat]

(* An entry whose frame or uses change is still an entry. *)
LEMMA CambioDeEntrada ==
  ASSUME NEW t \in [Entrada -> TipoEntrada], NEW e \in Entrada, NEW b \in Marco \cup {0},
         NEW v \in Nat, NEW p \in Pid, NEW g \in Nat
  PROVE  /\ [t EXCEPT ![e].vecesUsado = v] \in [Entrada -> TipoEntrada]
         /\ [t EXCEPT ![e].numBloque = b, ![e].vecesUsado = v] \in [Entrada -> TipoEntrada]
         /\ [t EXCEPT ![e].pid = p, ![e].numPag = g] \in [Entrada -> TipoEntrada]
<1>1. t[e] \in TipoEntrada
  OBVIOUS
<1>2. [t[e] EXCEPT !.vecesUsado = v] \in TipoEntrada
  BY <1>1 DEF TipoEntrada
<1>3. [t[e] EXCEPT !.numBloque = b, !.vecesUsado = v] \in TipoEntrada
  BY <1>1 DEF TipoEntrada
<1>4. [t EXCEPT ![e].vecesUsado = v] = [t EXCEPT ![e] = [t[e] EXCEPT !.vecesUsado = v]]
  OBVIOUS
<1>5. [t EXCEPT ![e].numBloque = b, ![e].vecesUsado = v]
        = [t EXCEPT ![e] = [t[e] EXCEPT !.numBloque = b, !.vecesUsado = v]]
  OBVIOUS
<1>6. \A x \in TipoEntrada : [t EXCEPT ![e] = x] \in [Entrada -> TipoEntrada]
  OBVIOUS
<1>7. [t[e] EXCEPT !.pid = p, !.numPag = g] \in TipoEntrada
  BY <1>1 DEF TipoEntrada
<1>8. [t EXCEPT ![e].pid = p, ![e].numPag = g]
        = [t EXCEPT ![e] = [t[e] EXCEPT !.pid = p, !.numPag = g]]
  OBVIOUS
<1> QED BY <1>2, <1>3, <1>4, <1>5, <1>6, <1>7, <1>8

(* Each step of a thread keeps the types. *)
LEMMA TipoBusquedaGuarda ==
  ASSUME InvHilos, NEW c \in Cpu,
         \/ CompararPid(c) \/ CompararPagina(c) \/ LeerBloque(c) \/ sumarVecesUsada(c)
         \/ BuscarEnTabla(c) \/ cantVecesPidEnCache(c)
         \/ paginaAReemplazarEnCache(c) \/ paginaAReemplazarEnCacheDelPid(c)
         \/ EscribirClave(c) \/ EscribirBloque(c)
  PROVE  TipoHilos'
<1>1. TipoHilos /\ PasoDe(c)
  BY DEF InvHilos
<1>2. pc[c] \in ConCache => pos[c] \in Entrada /\ 0 \in Entrada
  BY <1>1, ConEntradas DEF PasoDe, TipoHilos
<1>3. CASE CompararPid(c) \/ CompararPagina(c)
  <2>1. pos[c] + 1 \in Entrada \/ 0 \in Entrada
    BY <1>2, <1>3 DEF ConCache, CompararPid, CompararPagina
  <2>2. /\ pos' \in [Cpu -> Posicion] /\ pc' \in [Cpu -> Paso]
        /\ UNCHANGED <<marcoVars, cacheVars, pedido, posBloque, acceso, respuesta, pisada, ejecuta>>
    BY <1>1, <1>3 DEF TipoHilos, CompararPid, CompararPagina, SeguirBuscando, Paso, Posicion
  <2> QED BY <2>2, <1>1 DEF TipoHilos, marcoVars, cacheVars
<1>4. CASE LeerBloque(c)
  <2>1. memCache[pos[c]].numBloque \in Marco \cup {0}
    BY <1>1, <1>2, <1>4 DEF ConCache, LeerBloque, TipoHilos
  <2>2. /\ posBloque' \in [Cpu -> Marco \cup {-1, 0}] /\ pc' \in [Cpu -> Paso]
        /\ pisada' \in [Cpu -> BOOLEAN]
        /\ UNCHANGED <<marcoVars, cacheVars, pedido, pos, acceso, respuesta, ejecuta>>
    BY <1>1, <1>4, <2>1 DEF TipoHilos, LeerBloque, Paso, EsClave
  <2> QED BY <2>2, <1>1 DEF TipoHilos, marcoVars, cacheVars
<1>5. CASE sumarVecesUsada(c)
  <2> DEFINE e == pos[c]
  <2>1. e \in Entrada
    BY <1>2, <1>5 DEF sumarVecesUsada, ConCache
  <2>2. /\ memCache[e] \in [pid : Pid \cup {0}, numPag : Nat,
                            numBloque : Marco \cup {0}, vecesUsado : Nat]
        /\ memCache' = [memCache EXCEPT ![e].vecesUsado = memCache[e].vecesUsado + 1]
    BY <1>1, <1>5, <2>1 DEF TipoHilos, sumarVecesUsada
  <2>3. memCache' \in [Entrada -> [pid : Pid \cup {0}, numPag : Nat,
                                  numBloque : Marco \cup {0}, vecesUsado : Nat]]
    <3>1. memCache[e].vecesUsado + 1 \in Nat
      BY <2>2
    <3>2. memCache \in [Entrada -> TipoEntrada]
      BY <1>1 DEF TipoHilos, TipoEntrada
    <3> QED BY <2>1, <2>2, <3>1, <3>2, CambioDeEntrada DEF TipoEntrada
  <2>4. /\ pc' \in [Cpu -> Paso] /\ pos' \in [Cpu -> Posicion]
        /\ UNCHANGED <<marcoVars, mutexCache, pedido, posBloque, acceso, respuesta, pisada, ejecuta>>
    BY <1>1, <1>5 DEF TipoHilos, sumarVecesUsada, Paso, Posicion
  <2> QED BY <2>3, <2>4, <1>1 DEF TipoHilos, marcoVars
<1>6. CASE BuscarEnTabla(c)
  <2>1. verificarPosHash(tabla, pedido[c].pid, pedido[c].pag) \in Marco \cup {-1, 0}
    BY Busqueda
  <2>2. /\ posBloque' \in [Cpu -> Marco \cup {-1, 0}] /\ pc' \in [Cpu -> Paso]
        /\ UNCHANGED <<marcoVars, cacheVars, pedido, pos, acceso, respuesta, pisada, ejecuta>>
    BY <1>1, <1>6, <2>1 DEF TipoHilos, BuscarEnTabla, Paso
  <2> QED BY <2>2, <1>1 DEF TipoHilos, marcoVars, cacheVars
<1>7. CASE cantVecesPidEnCache(c)
  <2>1. /\ pc' \in [Cpu -> Paso]
        /\ UNCHANGED <<marcoVars, cacheVars, pedido, pos, posBloque, acceso, respuesta, pisada, ejecuta>>
    BY <1>1, <1>7 DEF TipoHilos, cantVecesPidEnCache, Paso
  <2> QED BY <2>1, <1>1 DEF TipoHilos, marcoVars, cacheVars
<1>8. CASE paginaAReemplazarEnCache(c) \/ paginaAReemplazarEnCacheDelPid(c)
  <2>1. PICK e \in Posicion : pos' = [pos EXCEPT ![c] = e]
    <3>1. cacheActivada
      BY <1>1, <1>8 DEF PasoDe, ConCache, paginaAReemplazarEnCache, paginaAReemplazarEnCacheDelPid
    <3>2. Primero(MenosUsadas(memCache)) \in Posicion
      BY <1>1, <3>1, HayVictima DEF Posicion
    <3>3. ASSUME EntradasDe(memCache, pedido[c].pid) # {}
          PROVE  Primero(EntradasDe(memCache, pedido[c].pid)) \in Posicion
      BY <3>3, HayPropia DEF EntradasDe, Posicion
    <3> QED BY <1>8, <3>2, <3>3
            DEF paginaAReemplazarEnCache, paginaAReemplazarEnCacheDelPid, Posicion
  <2>2. /\ pc' \in [Cpu -> Paso]
        /\ UNCHANGED <<marcoVars, cacheVars, pedido, posBloque, acceso, respuesta, pisada, ejecuta>>
    BY <1>1, <1>8
    DEF TipoHilos, paginaAReemplazarEnCache, paginaAReemplazarEnCacheDelPid, Paso
  <2> QED BY <2>1, <2>2, <1>1 DEF TipoHilos, marcoVars, cacheVars
<1>9. CASE EscribirClave(c)
  <2>1. pedido[c].pid \in Pid
    BY <1>1, <1>9 DEF PasoDe, EscribirClave
  <2>2. memCache' \in [Entrada -> [pid : Pid \cup {0}, numPag : Nat,
                                  numBloque : Marco \cup {0}, vecesUsado : Nat]]
    <3> DEFINE e == pos[c]
               p == pedido[c].pid
               g == pedido[c].pag
    <3>1. memCache' = [memCache EXCEPT ![e].pid = p, ![e].numPag = g]
      BY <1>9 DEF EscribirClave
    <3>2. p \in Pid /\ g \in Nat
      BY <2>1, <1>1 DEF TipoHilos
    <3>3. memCache \in [Entrada -> TipoEntrada] /\ e \in Entrada
      BY <1>1, <1>2, <1>9 DEF TipoHilos, TipoEntrada, EscribirClave, ConCache
    <3>4. 0 \in Nat /\ 0 \in Marco \cup {0}
      OBVIOUS
    <3> QED BY <3>1, <3>2, <3>3, <3>4, CambioDeEntrada DEF TipoEntrada
  <2>3. /\ pc' \in [Cpu -> Paso] /\ mutexCache' = c
        /\ UNCHANGED <<marcoVars, pedido, pos, posBloque, acceso, respuesta, pisada, ejecuta>>
    BY <1>1, <1>9 DEF TipoHilos, EscribirClave, Paso
  <2> QED BY <2>2, <2>3, <1>1 DEF TipoHilos, marcoVars
<1>10. CASE EscribirBloque(c)
  <2>1. posBloque[c] \in Marco
    BY <1>1, <1>10 DEF PasoDe, EscribirBloque, DeFallo
  <2>2. memCache' \in [Entrada -> [pid : Pid \cup {0}, numPag : Nat,
                                  numBloque : Marco \cup {0}, vecesUsado : Nat]]
    <3> DEFINE e == pos[c]
               b == posBloque[c]
    <3>1. memCache' = [memCache EXCEPT ![e].numBloque = b, ![e].vecesUsado = 1]
      BY <1>10 DEF EscribirBloque
    <3>2. b \in Marco \cup {0}
      BY <2>1
    <3>3. memCache \in [Entrada -> TipoEntrada] /\ e \in Entrada
      BY <1>1, <1>2, <1>10 DEF TipoHilos, TipoEntrada, EscribirBloque, ConCache
    <3> QED BY <3>1, <3>2, <3>3, CambioDeEntrada DEF TipoEntrada
  <2>3. /\ pc' \in [Cpu -> Paso] /\ mutexCache' = Nadie /\ pos' \in [Cpu -> Posicion]
        /\ UNCHANGED <<marcoVars, pedido, posBloque, acceso, respuesta, pisada, ejecuta>>
    BY <1>1, <1>10 DEF TipoHilos, EscribirBloque, Paso, Posicion
  <2> QED BY <2>2, <2>3, <1>1 DEF TipoHilos, marcoVars
<1> QED BY <1>3, <1>4, <1>5, <1>6, <1>7, <1>8, <1>9, <1>10

(* The steps of the access: what they answer, and a second page that is found. *)
Respuesta == {"bien", "falla", "blanco"}
OpAcceso == Operacion \cup {"nada"}
DePaso(c) == pc[c] \in {"acierto", "retardo", "accede", "segunda", "accede2"}
SegundaHallada(c) ==
  /\ pc[c] = "segunda" /\ MarcoDeLaSegunda(c) \in Marco
  /\ posBloque' = [posBloque EXCEPT ![c] = MarcoDeLaSegunda(c)]
  /\ pc' = [pc EXCEPT ![c] = "accede2"]
  /\ UNCHANGED <<marcoVars, cacheVars, pedido, pos, acceso, respuesta, pisada, kernelVars, ejecuta>>

(* What is answered to each operation, by the step of the thread.             *)
Contesta(c, op, t, r) ==
  \/ DeMas(c, op) /\ t = "excede" /\ r = Falla(op)
  \/ SinPagina(c, op) /\ t = "dentro" /\ r = Falla(op)
  \/ /\ pc[c] = "accede" /\ posBloque[c] # -1 /\ Responder(c, op, t, r)
     /\ t = "dentro" /\ op \in Guarda => r = "bien"
     /\ op \notin DeInt => t = "dentro"
  \/ pc[c] = "segunda" /\ MarcoDeLaSegunda(c) = -1 /\ Responder(c, op, t, r)
     /\ op = acceso[c].op /\ t = acceso[c].tramo /\ r = Falla(op)
  \/ pc[c] = "accede2" /\ Responder(c, op, t, r) /\ op = acceso[c].op /\ t = acceso[c].tramo

(* A step of the access answers, asks for the second page or has found it.    *)
LEMMA FormasDeAcceder ==
  ASSUME TipoHilos, NEW c \in Cpu, Acceder(c)
  PROVE  \/ \E op \in OpAcceso, t \in Tramo, r \in Respuesta : Contesta(c, op, t, r)
         \/ \E op \in DeString, t \in {"justo", "pasa"} : PrimeraParte(c, op, t)
         \/ SegundaHallada(c)
<1>1. /\ Operaciones \subseteq Operacion /\ Operacion \subseteq OpAcceso /\ DeString \subseteq Operacion
      /\ {"leerInt", "guardarInt"} \subseteq OpAcceso
  BY ConstantesMemoria DEF OpAcceso, Operacion, DeInt
<1>2. \A op : Falla(op) \in Respuesta
  BY DEF Falla, Respuesta
<1>3. acceso[c].op \in OpAcceso /\ acceso[c].tramo \in Tramo
  BY DEF TipoHilos, OpAcceso
<1>4. {"dentro", "justo", "pasa", "excede"} \subseteq Tramo /\ {"bien", "falla", "blanco"} \subseteq Respuesta
  BY DEF Tramo, Respuesta
<1>5. ASSUME NEW op \in Operaciones, DeMas(c, op) \/ SinPagina(c, op)
      PROVE  \E t \in Tramo, r \in Respuesta : Contesta(c, op, t, r)
  BY <1>2, <1>4, <1>5 DEF Contesta
<1>6. ASSUME NEW t \in {"dentro", "pasa"}, leerDatoInt(c, t)
      PROVE  \E r \in Respuesta : Contesta(c, "leerInt", t, r)
  <2>1. PICK r \in {"bien", "falla"} : Responder(c, "leerInt", t, r)
    BY <1>6 DEF leerDatoInt
  <2>2. Contesta(c, "leerInt", t, r)
    BY <1>6, <2>1 DEF leerDatoInt, Contesta, Guarda, DeInt
  <2> QED BY <2>2, <1>4
<1>7. ASSUME NEW t \in {"dentro", "pasa"}, guardarDatoInt(c, t)
      PROVE  Contesta(c, "guardarInt", t, "bien")
  BY <1>7 DEF guardarDatoInt, Contesta, DeInt
<1>8. ASSUME NEW op \in DeString, StringEnUnaPagina(c, op)
      PROVE  \E r \in Respuesta : Contesta(c, op, "dentro", r)
  <2>1. PICK r \in {"bien", "blanco"} : (r = "blanco" => op = "leerString") /\ Responder(c, op, "dentro", r)
    BY <1>8 DEF StringEnUnaPagina
  <2>2. Contesta(c, op, "dentro", r)
    BY <1>8, <2>1 DEF StringEnUnaPagina, Contesta, Guarda
  <2> QED BY <2>2, <1>4
<1>9. ASSUME SegundaPagina(c)
      PROVE  \/ Contesta(c, acceso[c].op, acceso[c].tramo, Falla(acceso[c].op))
             \/ SegundaHallada(c)
  <2>1. CASE MarcoDeLaSegunda(c) = -1
    BY <1>9, <2>1 DEF SegundaPagina, Contesta
  <2>2. CASE MarcoDeLaSegunda(c) # -1
    <3>1. MarcoDeLaSegunda(c) \in Marco
      BY <2>2, Busqueda DEF MarcoDeLaSegunda
    <3> QED BY <1>9, <2>2, <3>1 DEF SegundaPagina, SegundaHallada
  <2> QED BY <2>1, <2>2
<1>10. ASSUME SegundaParte(c)
       PROVE  \E r \in Respuesta : Contesta(c, acceso[c].op, acceso[c].tramo, r)
  <2>1. PICK r \in {"bien", Falla(acceso[c].op)} : Responder(c, acceso[c].op, acceso[c].tramo, r)
    BY <1>10 DEF SegundaParte
  <2>2. Contesta(c, acceso[c].op, acceso[c].tramo, r)
    BY <1>10, <2>1 DEF SegundaParte, Contesta
  <2> QED BY <2>2, <1>2, <1>4
<1> QED BY <1>1, <1>2, <1>3, <1>4, <1>5, <1>6, <1>7, <1>8, <1>9, <1>10 DEF Acceder

(* An answer, for the thread: its frame is left and its place is the first. *)
LEMMA AlContestar ==
  ASSUME TipoHilos, NEW c \in Cpu, NEW op, NEW t, NEW r, Contesta(c, op, t, r)
  PROVE  /\ acceso' = [acceso EXCEPT ![c] = [op |-> op, tramo |-> t]]
         /\ respuesta' = [respuesta EXCEPT ![c] = r]
         /\ posBloque' = [posBloque EXCEPT ![c] = -1] \/ UNCHANGED posBloque
         /\ pos' = [pos EXCEPT ![c] = 0] \/ UNCHANGED pos
         /\ pc' = [pc EXCEPT ![c] = "responde"]
         /\ DePaso(c)
         /\ UNCHANGED <<marcoVars, cacheVars, pedido, pisada, kernelVars, ejecuta>>
  BY DEF Contesta, DeMas, SinPagina, Responder, DePaso

(* Types after the steps of the access and of the answer. *)
LEMMA TipoAccesoGuarda ==
  ASSUME InvHilos, NEW c \in Cpu, Acceder(c)
  PROVE  TipoHilos'
<1>1. TipoHilos
  BY DEF InvHilos
<1>2. ASSUME NEW op \in OpAcceso, NEW t \in Tramo, NEW r \in Respuesta, Contesta(c, op, t, r)
      PROVE  TipoHilos'
  <2>1. /\ acceso' = [acceso EXCEPT ![c] = [op |-> op, tramo |-> t]]
        /\ respuesta' = [respuesta EXCEPT ![c] = r]
        /\ posBloque' = [posBloque EXCEPT ![c] = -1] \/ UNCHANGED posBloque
        /\ pos' = [pos EXCEPT ![c] = 0] \/ UNCHANGED pos
        /\ pc' = [pc EXCEPT ![c] = "responde"]
        /\ UNCHANGED <<marcoVars, cacheVars, pedido, pisada, ejecuta>>
    BY <1>1, <1>2, AlContestar
  <2>2. acceso' \in [Cpu -> [op : Operacion \cup {"nada"}, tramo : Tramo]]
    BY <1>1, <1>2, <2>1 DEF TipoHilos, OpAcceso
  <2>3. /\ respuesta' \in [Cpu -> {"nada", "bien", "falla", "blanco"}]
        /\ posBloque' \in [Cpu -> Marco \cup {-1, 0}] /\ pc' \in [Cpu -> Paso]
        /\ pos' \in [Cpu -> Posicion]
    BY <1>1, <1>2, <2>1 DEF TipoHilos, Respuesta, Paso, Posicion
  <2> QED BY <2>1, <2>2, <2>3, <1>1 DEF TipoHilos, marcoVars, cacheVars
<1>3. ASSUME NEW op \in DeString, NEW t \in {"justo", "pasa"}, PrimeraParte(c, op, t)
      PROVE  TipoHilos'
  <2>1. acceso' \in [Cpu -> [op : Operacion \cup {"nada"}, tramo : Tramo]]
    <3>1. [op |-> op, tramo |-> t] \in [op : Operacion \cup {"nada"}, tramo : Tramo]
      BY <1>3 DEF Operacion, Tramo
    <3> QED BY <1>1, <1>3, <3>1 DEF TipoHilos, PrimeraParte
  <2>2. /\ pc' \in [Cpu -> Paso] /\ posBloque' \in [Cpu -> Marco \cup {-1, 0}]
        /\ UNCHANGED <<marcoVars, cacheVars, pedido, pos, respuesta, pisada, ejecuta>>
    BY <1>1, <1>3 DEF TipoHilos, PrimeraParte, Paso
  <2> QED BY <2>1, <2>2, <1>1 DEF TipoHilos, marcoVars, cacheVars
<1>4. CASE SegundaHallada(c)
  <2>1. /\ posBloque' \in [Cpu -> Marco \cup {-1, 0}] /\ pc' \in [Cpu -> Paso]
        /\ UNCHANGED <<marcoVars, cacheVars, pedido, pos, acceso, respuesta, pisada, ejecuta>>
    BY <1>1, <1>4 DEF TipoHilos, SegundaHallada, Paso
  <2> QED BY <2>1, <1>1 DEF TipoHilos, marcoVars, cacheVars
<1> QED BY <1>1, <1>2, <1>3, <1>4, FormasDeAcceder

(* Types after the steps of the CPU, of the kernel's thread and of the keyboard. *)
LEMMA TipoRestoGuarda ==
  ASSUME InvHilos, TipoMarcos,
         \/ HiloKernel \/ flushCache \/ \E c \in Cpu : NextCpu(c)
  PROVE  TipoHilos'
<1>1. TipoHilos
  BY DEF InvHilos
<1>2. ASSUME NEW c \in Cpu, NextCpu(c)
      PROVE  TipoHilos'
  <2>1. ASSUME NEW p \in Pid, Ejecutar(c, p) PROVE TipoHilos'
    <3>1. ejecuta' \in [Cpu -> Pid \cup {Nadie}] /\ UNCHANGED <<marcoVars, cacheVars, hiloVars>>
      BY <1>1, <2>1 DEF TipoHilos, Ejecutar
    <3> QED BY <3>1, <1>1 DEF TipoHilos, marcoVars, cacheVars, hiloVars
  <2>2. CASE Soltar(c)
    <3>1. ejecuta' \in [Cpu -> Pid \cup {Nadie}] /\ UNCHANGED <<marcoVars, cacheVars, hiloVars>>
      BY <1>1, <2>2 DEF TipoHilos, Soltar
    <3> QED BY <3>1, <1>1 DEF TipoHilos, marcoVars, cacheVars, hiloVars
  <2>3. CASE Recibir(c)
    <3>1. /\ pedido' \in [Cpu -> [pid : Pid \cup {Nadie}, pag : Nat]]
          /\ pc' \in [Cpu -> Paso] /\ pisada' \in [Cpu -> BOOLEAN]
          /\ respuesta' \in [Cpu -> {"nada", "bien", "falla", "blanco"}]
          /\ acceso' \in [Cpu -> [op : Operacion \cup {"nada"}, tramo : Tramo]]
          /\ UNCHANGED <<marcoVars, cacheVars, pos, posBloque, ejecuta>>
      BY <1>1, <2>3 DEF TipoHilos, Recibir, SinPedido, SinAcceso, Paso, Tramo
    <3> QED BY <3>1, <1>1 DEF TipoHilos, marcoVars, cacheVars
  <2>4. ASSUME NEW g \in Pagina, Pedir(c, g) PROVE TipoHilos'
    <3>1. g \in Nat /\ ejecuta[c] \in Pid
      BY <1>1, <2>4, Numeros DEF TipoHilos, Pedir
    <3>2. /\ pedido' = [pedido EXCEPT ![c].pid = ejecuta[c], ![c].pag = g]
          /\ pc' = [pc EXCEPT ![c] = IF cacheActivada THEN "busca" ELSE "retardo"]
          /\ UNCHANGED <<marcoVars, cacheVars, pos, posBloque, acceso, respuesta, pisada, ejecuta>>
      BY <2>4 DEF Pedir
    <3>3. pedido' \in [Cpu -> [pid : Pid \cup {Nadie}, pag : Nat]]
      <4>1. pedido \in [Cpu -> [pid : Pid \cup {Nadie}, pag : Nat]]
        BY <1>1 DEF TipoHilos
      <4> QED BY <4>1, <3>1, <3>2
    <3>4. pc' \in [Cpu -> Paso]
      <4>1. (IF cacheActivada THEN "busca" ELSE "retardo") \in Paso
        BY DEF Paso
      <4>2. pc \in [Cpu -> Paso]
        BY <1>1 DEF TipoHilos
      <4> QED BY <4>1, <4>2, <3>2
    <3> QED BY <3>2, <3>3, <3>4, <1>1 DEF TipoHilos, marcoVars, cacheVars
  <2> QED BY <1>2, <2>1, <2>2, <2>3, <2>4 DEF NextCpu
<1>3. ASSUME NEW p \in Pid, reservarPagina(p) PROVE TipoHilos'
  BY <1>1, <1>3 DEF TipoHilos, reservarPagina, cacheVars, hiloVars
<1>4. ASSUME NEW p \in Pid, PedirFin(p) PROVE TipoHilos'
  BY <1>1, <1>4 DEF TipoHilos, PedirFin, marcoVars, cacheVars, hiloVars
<1>5. CASE liberarPagina
  BY <1>1, <1>5 DEF TipoHilos, liberarPagina, cacheVars, hiloVars
<1>6. CASE eliminarProcesoEnCache \/ flushCache
  <2>1. \A e \in Entrada : memCache'[e] = memCache[e] \/ memCache'[e] = EntradaLibre
    BY <1>1, <1>6 DEF eliminarProcesoEnCache, flushCache, SinProceso
  <2>2. EntradaLibre \in TipoEntrada
    BY DEF EntradaLibre, TipoEntrada
  <2>3. memCache' = [e \in Entrada |-> memCache'[e]]
    BY <1>6 DEF eliminarProcesoEnCache, flushCache, SinProceso
  <2>4. \A e \in Entrada : memCache'[e] \in TipoEntrada
    BY <2>1, <2>2, <1>1 DEF TipoHilos, TipoEntrada
  <2>5. memCache' \in [Entrada -> TipoEntrada]
    BY <2>3, <2>4
  <2>6. /\ framesOcupados' = framesOcupados /\ procActivos' \subseteq Pid
        /\ UNCHANGED <<mutexCache, hiloVars, ejecuta>>
    BY <1>1, <1>6 DEF TipoHilos, eliminarProcesoEnCache, flushCache, marcoVars
  <2> QED BY <2>5, <2>6, <1>1 DEF TipoHilos, TipoEntrada, hiloVars
<1> QED BY <1>2, <1>3, <1>4, <1>5, <1>6 DEF HiloKernel
-------------------------------------------------------------------------------
(* What a step of one CPU or of its thread leaves alone: the variables of the *)
(* other threads, and the entry that another thread is writing.               *)
Igual(c) ==
  /\ pc'[c] = pc[c] /\ pedido'[c] = pedido[c] /\ pos'[c] = pos[c] /\ posBloque'[c] = posBloque[c]
  /\ acceso'[c] = acceso[c] /\ respuesta'[c] = respuesta[c] /\ pisada'[c] = pisada[c]
  /\ ejecuta'[c] = ejecuta[c]
Respeta(c) ==
  /\ mutexCache' = c <=> mutexCache = c
  /\ mutexCache = c => UNCHANGED memCache

(* A step of one CPU leaves the threads of the others alone. *)
LEMMA SoloLoSuyo ==
  ASSUME InvHilos, NEW d \in Cpu, HiloCPU(d) \/ NextCpu(d), NEW c \in Cpu \ {d}
  PROVE  Igual(c) /\ Respeta(c)
<1>1. TipoHilos /\ PasoDe(d) /\ c # Nadie /\ d # Nadie
  BY ConstantesMemoria DEF InvHilos
<1>2. CASE CompararPid(d) \/ CompararPagina(d)
  BY <1>1, <1>2 DEF TipoHilos, CompararPid, CompararPagina, SeguirBuscando, Igual, Respeta, cacheVars
<1>3. CASE LeerBloque(d) \/ BuscarEnTabla(d) \/ cantVecesPidEnCache(d)
  BY <1>1, <1>3 DEF TipoHilos, LeerBloque, BuscarEnTabla, cantVecesPidEnCache, Igual, Respeta, cacheVars
<1>4. CASE sumarVecesUsada(d)
  BY <1>1, <1>4 DEF TipoHilos, sumarVecesUsada, Igual, Respeta
<1>5. CASE paginaAReemplazarEnCache(d) \/ paginaAReemplazarEnCacheDelPid(d)
  BY <1>1, <1>5 DEF TipoHilos, paginaAReemplazarEnCache, paginaAReemplazarEnCacheDelPid, Igual,
     Respeta, cacheVars
<1>6. CASE EscribirClave(d)
  BY <1>1, <1>6 DEF TipoHilos, EscribirClave, Igual, Respeta
<1>7. CASE EscribirBloque(d)
  <2>1. mutexCache = d
    BY <1>1, <1>7 DEF PasoDe, EscribirBloque
  <2> QED BY <1>1, <1>7, <2>1 DEF TipoHilos, EscribirBloque, Igual, Respeta
<1>8. ASSUME NEW op, NEW t, NEW r, Contesta(d, op, t, r) PROVE Igual(c) /\ Respeta(c)
  <2>1. /\ acceso'[c] = acceso[c] /\ respuesta'[c] = respuesta[c] /\ posBloque'[c] = posBloque[c]
        /\ pos'[c] = pos[c] /\ pc'[c] = pc[c] /\ UNCHANGED <<cacheVars, pedido, pisada, ejecuta>>
    <3>1. /\ acceso' = [acceso EXCEPT ![d] = [op |-> op, tramo |-> t]]
          /\ respuesta' = [respuesta EXCEPT ![d] = r]
          /\ posBloque' = [posBloque EXCEPT ![d] = -1] \/ UNCHANGED posBloque
          /\ pos' = [pos EXCEPT ![d] = 0] \/ UNCHANGED pos
          /\ pc' = [pc EXCEPT ![d] = "responde"]
          /\ UNCHANGED <<cacheVars, pedido, pisada, ejecuta>>
      BY <1>1, <1>8, AlContestar
    <3> QED BY <3>1, <1>1 DEF TipoHilos
  <2> QED BY <2>1 DEF Igual, Respeta, cacheVars
<1>9. ASSUME NEW op, NEW t, PrimeraParte(d, op, t) PROVE Igual(c) /\ Respeta(c)
  BY <1>1, <1>9 DEF TipoHilos, PrimeraParte, Igual, Respeta, cacheVars
<1>10. CASE SegundaHallada(d)
  BY <1>1, <1>10 DEF TipoHilos, SegundaHallada, Igual, Respeta, cacheVars
<1>11. CASE NextCpu(d)
  BY <1>1, <1>11 DEF TipoHilos, NextCpu, Ejecutar, Soltar, Recibir, Pedir, Igual, Respeta,
     cacheVars, hiloVars
<1> QED BY <1>1, <1>2, <1>3, <1>4, <1>5, <1>6, <1>7, <1>8, <1>9, <1>10, <1>11, FormasDeAcceder
        DEF HiloCPU

(* What the kernel's thread and the keyboard leave alone.                     *)
LEMMA SinHilos ==
  ASSUME InvHilos, HiloKernel \/ flushCache, NEW c \in Cpu
  PROVE  Igual(c) /\ Respeta(c)
<1>1. TipoHilos /\ PasoDe(c) /\ c # Nadie
  BY ConstantesMemoria DEF InvHilos
<1>2. UNCHANGED <<hiloVars, ejecuta, mutexCache>>
  BY DEF HiloKernel, reservarPagina, PedirFin, eliminarProcesoEnCache, liberarPagina, flushCache,
         cacheVars
<1>3. mutexCache = c => UNCHANGED memCache
  <2>1. mutexCache = c => cacheActivada
    BY <1>1 DEF PasoDe, ConCache
  <2> QED BY <2>1, <1>1 DEF HiloKernel, reservarPagina, PedirFin, eliminarProcesoEnCache,
             liberarPagina, flushCache, cacheVars
<1> QED BY <1>2, <1>3 DEF Igual, Respeta, hiloVars

(* A thread is where it was after a step that leaves its own variables alone. *)
LEMMA PasoAjeno ==
  ASSUME NEW c \in Cpu, PasoDe(c), Igual(c), Respeta(c)
  PROVE  PasoDe(c)'
<1>1. pc[c] = "bloque" => UNCHANGED memCache
  BY DEF PasoDe, Respeta
<1>2. pc[c] = "bloque" => EsClave(memCache'[pos'[c]], pedido'[c].pid, pedido'[c].pag)
  BY <1>1 DEF PasoDe, Igual
<1> QED BY <1>2 DEF PasoDe, Igual, Respeta

(* A thread's own step. *)
LEMMA PasoPropio ==
  ASSUME InvHilos, NEW c \in Cpu, HiloCPU(c) \/ NextCpu(c)
  PROVE  PasoDe(c)'
<1>1. TipoHilos /\ PasoDe(c) /\ c # Nadie
  BY ConstantesMemoria DEF InvHilos
<1> USE DEF PasoDe, ConCache, DeFallo, SinAcierto
<1>2. CASE CompararPid(c) \/ CompararPagina(c)
  <2>1. /\ pc[c] \in {"busca", "compara"} /\ pc'[c] \in {"busca", "compara", "acierto", "retardo"}
        /\ UNCHANGED <<cacheVars, pedido, posBloque, pisada, ejecuta>>
    BY <1>1, <1>2 DEF TipoHilos, CompararPid, CompararPagina, SeguirBuscando
  <2> QED BY <2>1, <1>1 DEF cacheVars, cacheActivada
<1>3. CASE LeerBloque(c)
  <2>1. pos[c] \in Entrada
    BY <1>1, <1>3, ConEntradas DEF LeerBloque, TipoHilos
  <2>2. memCache[pos[c]].numBloque # -1
    <3>1. memCache[pos[c]].numBloque \in Marco \cup {0}
      BY <2>1, <1>1 DEF TipoHilos
    <3> QED BY <3>1, Numeros
  <2> QED BY <2>2, <1>1, <1>3 DEF TipoHilos, LeerBloque, cacheVars, cacheActivada
<1>4. CASE sumarVecesUsada(c)
  BY <1>1, <1>4 DEF TipoHilos, sumarVecesUsada, cacheActivada
<1>5. CASE BuscarEnTabla(c)
  <2>1. \/ verificarPosHash(tabla, pedido[c].pid, pedido[c].pag) = -1
        \/ verificarPosHash(tabla, pedido[c].pid, pedido[c].pag) \in Marco
    BY Busqueda
  <2> QED BY <2>1, <1>1, <1>5 DEF TipoHilos, BuscarEnTabla, cacheVars, cacheActivada
<1>6. CASE cantVecesPidEnCache(c)
  BY <1>1, <1>6 DEF TipoHilos, cantVecesPidEnCache, cacheVars, cacheActivada
<1>7. CASE paginaAReemplazarEnCache(c) \/ paginaAReemplazarEnCacheDelPid(c)
  BY <1>1, <1>7 DEF TipoHilos, paginaAReemplazarEnCache, paginaAReemplazarEnCacheDelPid, cacheVars,
     cacheActivada
<1>8. CASE EscribirClave(c)
  <2>1. pos[c] \in Entrada /\ pos'[c] = pos[c] /\ pedido'[c] = pedido[c]
    BY <1>1, <1>8, ConEntradas DEF EscribirClave, TipoHilos
  <2>2. EsClave(memCache'[pos[c]], pedido[c].pid, pedido[c].pag)
    BY <1>1, <1>8, <2>1 DEF TipoHilos, EscribirClave, EsClave
  <2>3. pc'[c] = "bloque" /\ mutexCache' = c /\ pc[c] = "clave"
    BY <1>1, <1>8 DEF TipoHilos, EscribirClave
  <2>4. UNCHANGED <<posBloque, pisada, ejecuta>>
    BY <1>8 DEF EscribirClave
  <2> QED BY <2>1, <2>2, <2>3, <2>4, <1>1 DEF cacheActivada
<1>9. CASE EscribirBloque(c)
  BY <1>1, <1>9 DEF TipoHilos, EscribirBloque, cacheActivada
<1>10. ASSUME NEW op, NEW t, NEW r, Contesta(c, op, t, r) PROVE PasoDe(c)'
  <2>1. pc'[c] = "responde" /\ DePaso(c) /\ UNCHANGED <<cacheVars, pedido, pisada, ejecuta>>
    BY <1>1, <1>10, AlContestar DEF TipoHilos
  <2> QED BY <2>1, <1>1 DEF cacheVars, DePaso
<1>11. ASSUME NEW op, NEW t, PrimeraParte(c, op, t) PROVE PasoDe(c)'
  BY <1>1, <1>11 DEF TipoHilos, PrimeraParte, cacheVars
<1>12. CASE SegundaHallada(c)
  <2>1. MarcoDeLaSegunda(c) # -1
    BY <1>12, Numeros DEF SegundaHallada
  <2>2. /\ pc[c] = "segunda" /\ pc'[c] = "accede2" /\ posBloque'[c] = MarcoDeLaSegunda(c)
        /\ UNCHANGED <<cacheVars, pedido, pisada, ejecuta>>
    BY <1>1, <1>12 DEF TipoHilos, SegundaHallada
  <2> QED BY <2>1, <2>2, <1>1 DEF cacheVars
<1>13. CASE Recibir(c)
  BY <1>1, <1>13 DEF TipoHilos, Recibir, cacheVars
<1>14. CASE Soltar(c)
  BY <1>1, <1>14 DEF TipoHilos, Soltar, cacheVars, hiloVars
<1>15. ASSUME NEW p \in Pid, Ejecutar(c, p) PROVE PasoDe(c)'
  <2>1. pc[c] = "espera" /\ UNCHANGED <<cacheVars, hiloVars>>
    BY <1>1, <1>15, ConstantesMemoria DEF Ejecutar
  <2> QED BY <2>1, <1>1 DEF cacheVars, hiloVars
<1>16. ASSUME NEW g \in Pagina, Pedir(c, g) PROVE PasoDe(c)'
  <2>1. /\ pedido'[c].pid = ejecuta[c] /\ ejecuta[c] \in Pid /\ pc[c] = "espera"
        /\ pc'[c] = IF cacheActivada THEN "busca" ELSE "retardo"
        /\ UNCHANGED <<cacheVars, pisada, ejecuta>>
    BY <1>1, <1>16 DEF TipoHilos, Pedir
  <2> QED BY <2>1, <1>1 DEF cacheVars, cacheActivada
<1> QED BY <1>2, <1>3, <1>4, <1>5, <1>6, <1>7, <1>8, <1>9, <1>10, <1>11, <1>12, <1>13, <1>14,
           <1>15, <1>16, <1>1, FormasDeAcceder
        DEF HiloCPU, NextCpu

(* No two CPUs run one process. *)
LEMMA EnUnaCpuGuarda ==
  ASSUME InvHilos, Next
  PROVE  EnUnaCpu'
<1>1. TipoHilos /\ EnUnaCpu
  BY DEF InvHilos
<1>2. ASSUME NEW c \in Cpu, NEW p \in Pid, Ejecutar(c, p) PROVE EnUnaCpu'
  BY <1>1, <1>2 DEF TipoHilos, EnUnaCpu, Ejecutar
<1>3. ASSUME NEW c \in Cpu, Soltar(c) PROVE EnUnaCpu'
  BY <1>1, <1>3 DEF TipoHilos, EnUnaCpu, Soltar
<1>4. CASE UNCHANGED ejecuta
  BY <1>1, <1>4 DEF EnUnaCpu
<1>5. ASSUME NEW c \in Cpu, HiloCPU(c) PROVE UNCHANGED ejecuta
  BY <1>5 DEF HiloCPU, CompararPid, CompararPagina, LeerBloque, sumarVecesUsada, BuscarEnTabla,
     cantVecesPidEnCache, paginaAReemplazarEnCache, paginaAReemplazarEnCacheDelPid, EscribirClave,
     EscribirBloque, Acceder, DeMas, SinPagina, leerDatoInt,
     guardarDatoInt, StringEnUnaPagina, PrimeraParte, SegundaPagina, SegundaParte,
     Responder
<1>6. HiloKernel \/ flushCache => UNCHANGED ejecuta
  BY DEF HiloKernel, reservarPagina, PedirFin, eliminarProcesoEnCache, liberarPagina, flushCache
<1> QED BY <1>2, <1>3, <1>4, <1>5, <1>6 DEF Next, NextCpu, Recibir, Pedir

(* Each step is for the table one of those of the kernel's thread. *)
LEMMA CadaPasoMarcos ==
  ASSUME [Next]_vars
  PROVE  PasoMarcos
<1>1. ASSUME NEW c \in Cpu, HiloCPU(c) PROVE Mismos
  BY <1>1 DEF HiloCPU, CompararPid, CompararPagina, LeerBloque, sumarVecesUsada, BuscarEnTabla,
     cantVecesPidEnCache, paginaAReemplazarEnCache, paginaAReemplazarEnCacheDelPid, EscribirClave,
     EscribirBloque, Acceder, DeMas, SinPagina, leerDatoInt, guardarDatoInt, StringEnUnaPagina,
     PrimeraParte, SegundaPagina, SegundaParte, Responder, Mismos, marcoVars, kernelVars
<1>2. ASSUME NEW c \in Cpu, NextCpu(c) PROVE Mismos
  BY <1>2 DEF NextCpu, Ejecutar, Soltar, Recibir, Pedir, Mismos, marcoVars, kernelVars
<1>3. flushCache \/ UNCHANGED vars => Mismos
  BY DEF flushCache, vars, Mismos, marcoVars, kernelVars
<1> QED BY <1>1, <1>2, <1>3 DEF Next, HiloKernel, PasoMarcos

(* The threads' invariant. *)
LEMMA HilosGuarda ==
  ASSUME InvMarcos, InvHilos, [Next]_vars
  PROVE  InvHilos'
<1>1. CASE UNCHANGED vars
  BY <1>1 DEF vars, marcoVars, cacheVars, hiloVars, InvHilos, TipoHilos, EnUnaCpu, PasoDe
<1>2. CASE Next
  <2>1. TipoMarcos
    BY DEF InvMarcos
  <2>2. TipoHilos'
    BY <1>2, <2>1, TipoBusquedaGuarda, TipoAccesoGuarda, TipoRestoGuarda DEF Next, HiloCPU
  <2>3. ASSUME NEW c \in Cpu PROVE PasoDe(c)'
    BY <1>2, PasoPropio, PasoAjeno, SoloLoSuyo, SinHilos DEF Next, InvHilos
  <2> QED BY <2>2, <2>3, <1>2, EnUnaCpuGuarda DEF InvHilos
<1> QED BY <1>1, <1>2
-------------------------------------------------------------------------------
(* What the threads may rely on. A live process that is being served keeps    *)
(* its frames and its number of pages.                                        *)
LEMMA MarcosQuietos ==
  ASSUME InvMarcos, PasoMarcos, NEW p \in Pid, p \notin muertos', NEW g, NEW m \in Marco,
         tabla[m] = [pid |-> p, pag |-> g]
  PROVE  p \notin muertos /\ tabla'[m] = [pid |-> p, pag |-> g]
<1>1. tabla \in [Marco -> [pid : Pid \cup {-1}, pag : Pagina \cup {-1}]]
  BY DEF InvMarcos, TipoMarcos
<1>2. tabla[m] # Libre
  BY Numeros DEF Libre
<1>3. ASSUME NEW q \in Pid, reservarPagina(q) PROVE p \notin muertos /\ tabla'[m] = tabla[m]
  <2>1. Libres(tabla) # {} /\ Libres(tabla) \subseteq Nat
    BY <1>3, Numeros DEF reservarPagina, Libres
  <2>2. Primero(Libres(tabla)) # m
    BY <2>1, <1>2, HayPrimero DEF Libres
  <2> QED BY <2>2, <1>1, <1>3 DEF reservarPagina
<1>4. CASE liberarPagina
  <2>1. p # fin.pid
    BY <1>4 DEF liberarPagina, InvMarcos, FinBien
  <2>2. MarcoALiberar # -1 => tabla[MarcoALiberar].pid = fin.pid
    <3>1. PICK q, h, n : q = fin.pid /\ h = fin.pag /\ n = verificarPosHash(tabla, q, h)
      OBVIOUS
    <3>2. n # -1 => tabla[n] = [pid |-> q, pag |-> h]
      BY <3>1, Busqueda
    <3> QED BY <3>1, <3>2 DEF MarcoALiberar
  <2>3. MarcoALiberar = -1 \/ MarcoALiberar # m
    BY <2>1, <2>2
  <2> QED BY <2>3, <1>1, <1>4 DEF liberarPagina
<1> QED BY <1>3, <1>4 DEF PasoMarcos, PedirFin, eliminarProcesoEnCache, Mismos, marcoVars

(* The pages of a live process do not change while it is being served. *)
LEMMA PaginasQuietas ==
  ASSUME InvMarcos, InvHilos, PasoMarcos, NEW c \in Cpu, pc[c] # "espera",
         NEW p, p = pedido[c].pid, p \notin muertos', NEW g
  PROVE  p \in Pid /\ p \notin muertos /\ (DebeEstar(p, g)' <=> DebeEstar(p, g))
<1>1. p \in Pid /\ p = ejecuta[c]
  BY DEF InvHilos, PasoDe
<1>2. p \notin muertos /\ paginas'[p] = paginas[p]
  <2>1. ASSUME NEW q \in Pid, reservarPagina(q) PROVE p \notin muertos /\ paginas'[p] = paginas[p]
    <3>1. q # p
      BY <2>1, <1>1 DEF reservarPagina, Ocioso
    <3> QED BY <3>1, <2>1, <1>1 DEF reservarPagina, InvMarcos, TipoMarcos
  <2> QED BY <2>1, <1>1 DEF PasoMarcos, PedirFin, eliminarProcesoEnCache, liberarPagina, Mismos
<1>3. DebeEstar(p, g)' <=> DebeEstar(p, g)
  BY <1>1, <1>2 DEF DebeEstar
<1> QED BY <1>1, <1>2, <1>3

(* The frame of each thread, a page that was not found, the first page of a    *)
(* text that goes on in the next one, and what is answered.                   *)
AccesoDe(c) ==
  pc[c] \in ConBloque /\ posBloque[c] # -1 /\ pedido[c].pid \notin muertos /\ Vale(c)
    => posBloque[c] \in Marco /\ DelPedido(c)
NoEsta(c) ==
  pc[c] = "accede" /\ posBloque[c] = -1 /\ pedido[c].pid \notin muertos
    => ~DebeEstar(pedido[c].pid, pedido[c].pag)
PrimeraHallada(c) ==
  pc[c] \in {"segunda", "accede2"} =>
    /\ acceso[c].op \in DeString /\ acceso[c].tramo \in {"justo", "pasa"}
    /\ pedido[c].pid \notin muertos /\ ~pisada[c] => DebeEstar(pedido[c].pid, pedido[c].pag)
RespuestaDe(c) ==
  Atendido(c) =>
    /\ respuesta[c] = "bien" /\ (acceso[c].op \in DeInt => acceso[c].tramo = "dentro")
         => ~Falta(c)
    /\ respuesta[c] = "falla" /\ acceso[c].op \in Guarda /\ acceso[c].tramo = "dentro"
         => Falta(c)
AcuerdoDe(c) == AccesoDe(c) /\ NoEsta(c) /\ PrimeraHallada(c) /\ RespuestaDe(c)
InvAcuerdo == CacheConcuerda /\ \A c \in Cpu : AcuerdoDe(c)

(* What a thread relies on is not lost by the step of another. *)
LEMMA AcuerdoAjeno ==
  ASSUME InvMarcos, InvHilos, PasoMarcos, NEW c \in Cpu, Igual(c), AcuerdoDe(c)
  PROVE  AcuerdoDe(c)'
<1>1. /\ pc'[c] = pc[c] /\ pedido'[c] = pedido[c] /\ posBloque'[c] = posBloque[c]
      /\ respuesta'[c] = respuesta[c] /\ pisada'[c] = pisada[c] /\ acceso'[c] = acceso[c]
  BY DEF Igual
<1>2. AccesoDe(c)'
  <2>1. PICK g : g = Buscada(c)
    OBVIOUS
  <2>2. Buscada(c)' = g /\ (Vale(c)' <=> Vale(c))
    BY <1>1, <2>1 DEF Buscada, Vale
  <2>3. SUFFICES ASSUME pc[c] \in ConBloque, posBloque[c] # -1, pedido[c].pid \notin muertos', Vale(c)
                 PROVE  posBloque[c] \in Marco
                        /\ tabla'[posBloque[c]] = [pid |-> pedido[c].pid, pag |-> g]
    BY <1>1, <2>2 DEF AccesoDe, DelPedido
  <2>4. pedido[c].pid \in Pid /\ pedido[c].pid \notin muertos
    BY <2>3, PaginasQuietas DEF ConBloque
  <2>5. posBloque[c] \in Marco /\ tabla[posBloque[c]] = [pid |-> pedido[c].pid, pag |-> g]
    BY <2>1, <2>3, <2>4 DEF AccesoDe, DelPedido, AcuerdoDe
  <2> QED BY <2>3, <2>4, <2>5, MarcosQuietos
<1>3. ASSUME pc[c] # "espera", pedido[c].pid \notin muertos'
      PROVE  /\ pedido[c].pid \notin muertos
             /\ DebeEstar(pedido[c].pid, pedido[c].pag)' <=> DebeEstar(pedido[c].pid, pedido[c].pag)
             /\ Falta(c)' <=> Falta(c)
  <2>1. PICK p, g, h : p = pedido[c].pid /\ g = pedido[c].pag /\ h = pedido[c].pag + 1
    OBVIOUS
  <2>2. p \notin muertos /\ (DebeEstar(p, g)' <=> DebeEstar(p, g)) /\ (DebeEstar(p, h)' <=> DebeEstar(p, h))
    BY <2>1, <1>3, PaginasQuietas
  <2>3. /\ DebeEstar(pedido[c].pid, pedido[c].pag)' <=> DebeEstar(pedido[c].pid, pedido[c].pag)
        /\ DebeEstar(pedido[c].pid, pedido[c].pag + 1)' <=> DebeEstar(pedido[c].pid, pedido[c].pag + 1)
    BY <2>1, <2>2, <1>1 DEF DebeEstar
  <2> QED BY <2>1, <2>2, <2>3, <1>1 DEF Falta
<1>4. NoEsta(c)'
  BY <1>1, <1>3 DEF NoEsta, AcuerdoDe
<1>5. PrimeraHallada(c)'
  BY <1>1, <1>3 DEF PrimeraHallada, AcuerdoDe
<1>6. RespuestaDe(c)'
  <2>1. Atendido(c)' => Atendido(c) /\ pc[c] # "espera" /\ pedido[c].pid \notin muertos'
    BY <1>1, <1>3 DEF Atendido
  <2> QED BY <1>1, <1>3, <2>1 DEF RespuestaDe, AcuerdoDe
<1> QED BY <1>2, <1>4, <1>5, <1>6 DEF AcuerdoDe

(* A hit: the entry that has the key of the request says where its page is,   *)
(* for nobody is writing it.                                                  *)
LEMMA AciertoCierto ==
  ASSUME InvMarcos, InvHilos, InvAcuerdo, NEW c \in Cpu, pc[c] = "acierto",
         pedido[c].pid \notin muertos,
         EsClave(memCache[pos[c]], pedido[c].pid, pedido[c].pag)
  PROVE  /\ memCache[pos[c]].numBloque \in Marco
         /\ tabla[memCache[pos[c]].numBloque] = [pid |-> pedido[c].pid, pag |-> pedido[c].pag]
<1>1. /\ TipoHilos /\ PasoDe(c) /\ cacheActivada
      /\ pedido[c].pid = ejecuta[c] /\ ejecuta[c] \in Pid
  BY DEF InvHilos, PasoDe, ConCache
<1>2. pos[c] \in Entrada
  BY <1>1, ConEntradas DEF TipoHilos
<1>3. ~EnEscritura(pos[c])
  <2>1. SUFFICES ASSUME mutexCache # Nadie, pos[mutexCache] = pos[c] PROVE FALSE
    BY DEF EnEscritura
  <2>2. PICK d \in Cpu : d = mutexCache
    BY <2>1, <1>1 DEF TipoHilos
  <2>3. pc[d] = "bloque" /\ memCache[pos[c]].pid = pedido[d].pid /\ pedido[d].pid = ejecuta[d]
    BY <2>1, <2>2 DEF InvHilos, PasoDe, EsClave
  <2>4. ejecuta[d] = ejecuta[c] /\ ejecuta[c] # Nadie
    BY <2>3, <1>1, ConstantesMemoria DEF EsClave
  <2>5. d = c
    BY <2>4 DEF InvHilos, EnUnaCpu
  <2> QED BY <2>3, <2>5
<1> QED BY <1>1, <1>2, <1>3 DEF InvAcuerdo, CacheConcuerda, EsClave

(* A page whose frame the table has is one that must be there, and a page     *)
(* that the table has not is not.                                             *)
LEMMA SegunLaTabla ==
  ASSUME InvMarcos, NEW p \in Pid, NEW g \in Nat
  PROVE  /\ MarcosDe(tabla, p, g) = {} => ~DebeEstar(p, g)
         /\ \A m \in Marco : tabla[m] = [pid |-> p, pag |-> g] => DebeEstar(p, g)
<1>1. CASE g \in Pagina
  <2>1. DebeEstar(p, g) <=> MarcosDe(tabla, p, g) # {}
    BY <1>1 DEF InvMarcos, TablaFiel
  <2> QED BY <2>1 DEF MarcosDe
<1>2. CASE g \notin Pagina
  <2>1. ~(g < MaxPags[p])
    BY <1>2, Numeros
  <2>2. paginas[p] <= MaxPags[p] /\ paginas[p] \in Nat /\ MaxPags[p] \in Nat
    BY ConstantesMemoria DEF InvMarcos, Limite, TipoMarcos
  <2>3. ~DebeEstar(p, g)
    BY <2>1, <2>2 DEF DebeEstar
  <2>4. g # -1
    OBVIOUS
  <2>5. \A m \in Marco : tabla[m] # [pid |-> p, pag |-> g]
    BY <1>2, <2>4 DEF InvMarcos, TipoMarcos
  <2> QED BY <2>3, <2>5
<1> QED BY <1>1, <1>2

(* What a thread has when it uses a frame: the page that it looked for, if the *)
(* process lives.                                                             *)
LEMMA ConMarco ==
  ASSUME InvMarcos, InvHilos, NEW c \in Cpu, AcuerdoDe(c), pc[c] \in {"accede", "accede2"},
         posBloque[c] # -1, pedido[c].pid \notin muertos, Vale(c)
  PROVE  DebeEstar(pedido[c].pid, Buscada(c))
<1>1. PICK p, g : p = pedido[c].pid /\ g = Buscada(c)
  OBVIOUS
<1>2. p \in Pid /\ g \in Nat
  BY <1>1 DEF InvHilos, TipoHilos, PasoDe, Buscada
<1>3. posBloque[c] \in Marco /\ tabla[posBloque[c]] = [pid |-> p, pag |-> g]
  BY <1>1 DEF AcuerdoDe, AccesoDe, DelPedido, ConBloque
<1> QED BY <1>1, <1>2, <1>3, SegunLaTabla

(* The answer of a thread is the truth, as far as it goes. *)
LEMMA ContestarCierto ==
  ASSUME InvMarcos, InvHilos, InvAcuerdo, Mismos, NEW c \in Cpu, NEW op, NEW t, NEW r,
         Contesta(c, op, t, r)
  PROVE  AcuerdoDe(c)'
<1>1. TipoHilos /\ PasoDe(c) /\ AcuerdoDe(c)
  BY DEF InvHilos, InvAcuerdo
<1>2. /\ pc'[c] = "responde" /\ respuesta'[c] = r /\ acceso'[c].op = op /\ acceso'[c].tramo = t
      /\ UNCHANGED <<pisada, pedido, tabla, fin, paginas, muertos, alFin>>
  BY <1>1, AlContestar DEF TipoHilos, Mismos
<1>3. AccesoDe(c)' /\ NoEsta(c)' /\ PrimeraHallada(c)'
  BY <1>2 DEF AccesoDe, NoEsta, PrimeraHallada, ConBloque
<1>4. PICK p, g, h : p = pedido[c].pid /\ g = pedido[c].pag /\ h = pedido[c].pag + 1
  OBVIOUS
<1>5. Falta(c)' <=> ~DebeEstar(p, g) \/ (t = "pasa" /\ ~DebeEstar(p, h))
  BY <1>2, <1>4 DEF Falta, DebeEstar
<1>6. \A o : Falla(o) # "bien"
  BY DEF Falla
<1>7. SUFFICES ASSUME p \notin muertos, ~pisada[c]
               PROVE  /\ r = "bien" /\ (op \in DeInt => t = "dentro") => ~(Falta(c)')
                      /\ r = "falla" /\ op \in Guarda /\ t = "dentro" => Falta(c)'
  BY <1>2, <1>3, <1>4 DEF AcuerdoDe, RespuestaDe, Atendido
<1>8. CASE DeMas(c, op) /\ t = "excede" /\ r = Falla(op)
  BY <1>6, <1>8
<1>9. CASE SinPagina(c, op) /\ t = "dentro" /\ r = Falla(op)
  <2>1. ~DebeEstar(p, g)
    BY <1>1, <1>4, <1>7, <1>9 DEF SinPagina, NoEsta, AcuerdoDe
  <2> QED BY <2>1, <1>5, <1>6, <1>9
<1>10. CASE /\ pc[c] = "accede" /\ posBloque[c] # -1
            /\ t = "dentro" /\ op \in Guarda => r = "bien"
            /\ op \notin DeInt => t = "dentro"
  <2>1. Buscada(c) = g /\ Vale(c)
    BY <1>4, <1>7, <1>10 DEF Buscada, Vale
  <2>2. DebeEstar(p, g)
    BY <2>1, <1>1, <1>4, <1>7, <1>10, ConMarco
  <2> QED BY <2>2, <1>5, <1>10
<1>11. CASE pc[c] = "segunda" /\ op = acceso[c].op /\ t = acceso[c].tramo /\ r = Falla(op)
  BY <1>1, <1>6, <1>11 DEF AcuerdoDe, PrimeraHallada
<1>12. CASE pc[c] = "accede2" /\ op = acceso[c].op /\ t = acceso[c].tramo
  <2>1. Buscada(c) = h /\ Vale(c) /\ posBloque[c] # -1
    BY <1>1, <1>4, <1>12 DEF Buscada, Vale, PasoDe
  <2>2. DebeEstar(p, h)
    BY <2>1, <1>1, <1>4, <1>7, <1>12, ConMarco
  <2>3. DebeEstar(p, g) /\ t # "dentro"
    BY <1>1, <1>4, <1>7, <1>12 DEF AcuerdoDe, PrimeraHallada
  <2> QED BY <2>2, <2>3, <1>5
<1> QED BY <1>8, <1>9, <1>10, <1>11, <1>12 DEF Contesta

(* A thread's own step keeps the agreement. *)
LEMMA AcuerdoPropio ==
  ASSUME InvMarcos, InvHilos, InvAcuerdo, NEW c \in Cpu, HiloCPU(c) \/ NextCpu(c), Mismos
  PROVE  AcuerdoDe(c)'
<1>1. /\ TipoHilos /\ PasoDe(c) /\ AcuerdoDe(c)
      /\ UNCHANGED <<tabla, fin, paginas, muertos, alFin>>
  BY DEF InvHilos, InvAcuerdo, Mismos
<1>2. pc[c] # "espera" => pedido[c].pid \in Pid /\ pedido[c].pag \in Nat
  BY <1>1 DEF PasoDe, TipoHilos
<1> USE DEF ConBloque
<1>3. ASSUME pc'[c] \in {"busca", "compara", "acierto", "retardo", "espera"}
      PROVE  AcuerdoDe(c)'
  BY <1>3 DEF AcuerdoDe, AccesoDe, NoEsta, PrimeraHallada, RespuestaDe, Atendido
<1>4. ASSUME pc[c] \in ConBloque \ {"accede2"}, pc'[c] \in ConBloque \ {"accede2"},
             UNCHANGED <<pedido, posBloque, pisada>>, posBloque[c] # -1
      PROVE  AcuerdoDe(c)'
  BY <1>1, <1>4
  DEF AcuerdoDe, AccesoDe, NoEsta, PrimeraHallada, RespuestaDe, Atendido, DelPedido, Buscada, Vale
<1>5. CASE CompararPid(c) \/ CompararPagina(c) \/ Recibir(c) \/ Soltar(c)
           \/ \E g \in Pagina : Pedir(c, g)
  BY <1>1, <1>3, <1>5 DEF TipoHilos, CompararPid, CompararPagina, SeguirBuscando, Recibir, Soltar,
     Pedir, hiloVars
<1>6. CASE \E p \in Pid : Ejecutar(c, p)
  <2>1. pc[c] = "espera" /\ UNCHANGED pc
    BY <1>1, <1>6, ConstantesMemoria DEF Ejecutar, PasoDe, hiloVars
  <2> QED BY <2>1, <1>3
<1>7. CASE LeerBloque(c)
  <2>1. /\ pc[c] = "acierto" /\ pc'[c] = "suma" /\ posBloque'[c] = memCache[pos[c]].numBloque
        /\ UNCHANGED <<pedido, pos>>
        /\ pisada'[c] = ~EsClave(memCache[pos[c]], pedido[c].pid, pedido[c].pag)
    BY <1>1, <1>7 DEF TipoHilos, LeerBloque
  <2>2. AccesoDe(c)'
    <3>1. SUFFICES ASSUME pedido[c].pid \notin muertos,
                          EsClave(memCache[pos[c]], pedido[c].pid, pedido[c].pag)
                   PROVE  /\ posBloque'[c] \in Marco
                          /\ tabla[posBloque'[c]] = [pid |-> pedido[c].pid, pag |-> pedido[c].pag]
      BY <1>1, <2>1 DEF AccesoDe, DelPedido, Buscada, Vale
    <3> QED BY <2>1, <3>1, AciertoCierto
  <2> QED BY <2>1, <2>2 DEF AcuerdoDe, NoEsta, PrimeraHallada, RespuestaDe, Atendido
<1>8. CASE sumarVecesUsada(c)
  <2>1. pc[c] = "suma" /\ pc'[c] = "accede" /\ UNCHANGED <<pedido, posBloque, pisada>>
    BY <1>1, <1>8 DEF TipoHilos, sumarVecesUsada
  <2>2. posBloque[c] # -1
    BY <1>1, <2>1 DEF PasoDe
  <2> QED BY <2>1, <2>2, <1>4
<1>9. CASE cantVecesPidEnCache(c) \/ paginaAReemplazarEnCache(c)
           \/ paginaAReemplazarEnCacheDelPid(c) \/ EscribirClave(c) \/ EscribirBloque(c)
  <2>1. /\ pc[c] \in DeFallo /\ pc'[c] \in ConBloque \ {"accede2"}
        /\ UNCHANGED <<pedido, posBloque, pisada>>
    BY <1>1, <1>9 DEF TipoHilos, cantVecesPidEnCache, paginaAReemplazarEnCache, DeFallo,
       paginaAReemplazarEnCacheDelPid, EscribirClave, EscribirBloque
  <2>2. posBloque[c] # -1
    BY <1>1, <2>1, Numeros DEF PasoDe
  <2> QED BY <2>1, <2>2, <1>4 DEF DeFallo
<1>10. CASE BuscarEnTabla(c)
  <2>1. PICK m : m = verificarPosHash(tabla, pedido[c].pid, pedido[c].pag)
    OBVIOUS
  <2>2. /\ pc[c] = "retardo" /\ pc'[c] \in {"cuenta", "accede"} /\ posBloque'[c] = m
        /\ (m = -1 => pc'[c] = "accede") /\ UNCHANGED <<pedido, pisada>>
    BY <1>1, <1>10, <2>1 DEF TipoHilos, BuscarEnTabla
  <2>3. PICK p, g : p = pedido[c].pid /\ g = pedido[c].pag
    OBVIOUS
  <2>4. \/ MarcosDe(tabla, p, g) = {} /\ m = -1
        \/ m \in Marco /\ m # -1 /\ tabla[m] = [pid |-> p, pag |-> g]
    BY <2>1, <2>3, Busqueda
  <2>5. AccesoDe(c)'
    BY <1>1, <2>2, <2>3, <2>4 DEF AccesoDe, DelPedido, Buscada
  <2>6. m = -1 => ~DebeEstar(p, g)
    BY <2>2, <2>3, <2>4, <1>2, SegunLaTabla
  <2>7. NoEsta(c)'
    BY <1>1, <2>2, <2>3, <2>6 DEF NoEsta, DebeEstar
  <2> QED BY <2>2, <2>5, <2>7 DEF AcuerdoDe, PrimeraHallada, RespuestaDe, Atendido
<1>11. ASSUME NEW op, NEW t, NEW r, Contesta(c, op, t, r) PROVE AcuerdoDe(c)'
  BY <1>11, ContestarCierto
<1>12. ASSUME NEW op \in DeString, NEW t \in {"justo", "pasa"}, PrimeraParte(c, op, t)
       PROVE  AcuerdoDe(c)'
  <2>1. /\ pc[c] = "accede" /\ posBloque[c] # -1 /\ pc'[c] = "segunda"
        /\ acceso'[c].op = op /\ acceso'[c].tramo = t /\ UNCHANGED <<pedido, pisada>>
    BY <1>1, <1>12 DEF TipoHilos, PrimeraParte
  <2>2. pedido[c].pid \notin muertos /\ ~pisada[c] => DebeEstar(pedido[c].pid, pedido[c].pag)
    BY <1>1, <2>1, ConMarco DEF Buscada, Vale
  <2>3. PrimeraHallada(c)'
    BY <1>1, <1>12, <2>1, <2>2 DEF PrimeraHallada, DebeEstar
  <2> QED BY <2>1, <2>3 DEF AcuerdoDe, AccesoDe, NoEsta, RespuestaDe, Atendido
<1>13. CASE SegundaHallada(c)
  <2>1. PICK p, h, m : p = pedido[c].pid /\ h = pedido[c].pag + 1 /\ m = verificarPosHash(tabla, p, h)
    OBVIOUS
  <2>2. /\ pc[c] = "segunda" /\ m \in Marco /\ posBloque'[c] = m /\ pc'[c] = "accede2"
        /\ UNCHANGED <<pedido, pisada, acceso>>
    BY <1>1, <1>13, <2>1 DEF TipoHilos, SegundaHallada, MarcoDeLaSegunda
  <2>3. tabla[m] = [pid |-> p, pag |-> h]
    <3>1. m # -1
      BY <2>2, Numeros
    <3> QED BY <2>1, <3>1, Busqueda
  <2>4. AccesoDe(c)'
    BY <1>1, <2>1, <2>2, <2>3 DEF AccesoDe, DelPedido, Buscada
  <2>5. PrimeraHallada(c)'
    BY <1>1, <2>2 DEF PrimeraHallada, AcuerdoDe, DebeEstar
  <2> QED BY <2>2, <2>4, <2>5 DEF AcuerdoDe, NoEsta, RespuestaDe, Atendido
<1> QED BY <1>1, <1>5, <1>6, <1>7, <1>8, <1>9, <1>10, <1>11, <1>12, <1>13, FormasDeAcceder
        DEF HiloCPU, NextCpu

(* The thread that writes an entry does nothing else until it has finished.   *)
LEMMA QuienEscribe ==
  ASSUME InvHilos, NEW c \in Cpu, HiloCPU(c) \/ NextCpu(c), mutexCache = c
  PROVE  EscribirBloque(c)
<1>1. pc[c] = "bloque" /\ ejecuta[c] # Nadie
  BY ConstantesMemoria DEF InvHilos, PasoDe
<1> QED BY <1>1 DEF HiloCPU, NextCpu, CompararPid, CompararPagina, LeerBloque, sumarVecesUsada,
     BuscarEnTabla, cantVecesPidEnCache, paginaAReemplazarEnCache, paginaAReemplazarEnCacheDelPid,
     EscribirClave, Acceder, DeMas, SinPagina, leerDatoInt,
     guardarDatoInt, StringEnUnaPagina, PrimeraParte, SegundaPagina, SegundaParte,
     Ejecutar, Soltar, Recibir, Pedir

(* The steps that change the cache, and how. *)
LEMMA CambiosDeCache ==
  ASSUME InvHilos, [Next]_vars
  PROVE  \/ /\ UNCHANGED cacheVars /\ \A d \in Cpu : mutexCache = d => pos'[d] = pos[d]
         \/ /\ UNCHANGED <<mutexCache, pos>>
            /\ \A e \in Entrada : memCache'[e] = memCache[e] \/ memCache'[e] = EntradaLibre
         \/ \E c \in Cpu : sumarVecesUsada(c) \/ EscribirClave(c) \/ EscribirBloque(c)
<1>1. ASSUME NEW c \in Cpu, HiloCPU(c) \/ NextCpu(c),
             ~(sumarVecesUsada(c) \/ EscribirClave(c) \/ EscribirBloque(c))
      PROVE  UNCHANGED cacheVars /\ \A d \in Cpu : mutexCache = d => pos'[d] = pos[d]
  <2>1. UNCHANGED cacheVars
    BY <1>1 DEF HiloCPU, NextCpu, CompararPid, CompararPagina, LeerBloque, BuscarEnTabla,
       cantVecesPidEnCache, paginaAReemplazarEnCache, paginaAReemplazarEnCacheDelPid,
       Acceder, DeMas, SinPagina, leerDatoInt,
     guardarDatoInt, StringEnUnaPagina, PrimeraParte, SegundaPagina, SegundaParte,
     Responder,
       Ejecutar, Soltar, Recibir, Pedir
  <2>2. mutexCache # c
    BY <1>1, QuienEscribe
  <2> QED BY <2>1, <2>2, <1>1, SoloLoSuyo DEF Igual
<1>2. HiloKernel \/ flushCache =>
        /\ UNCHANGED <<mutexCache, pos>>
        /\ \A e \in Entrada : memCache'[e] = memCache[e] \/ memCache'[e] = EntradaLibre
  BY DEF HiloKernel, reservarPagina, PedirFin, eliminarProcesoEnCache, liberarPagina, flushCache,
         cacheVars, hiloVars, SinProceso
<1>3. UNCHANGED vars => UNCHANGED cacheVars /\ UNCHANGED pos
  BY DEF vars, hiloVars
<1> QED BY <1>1, <1>2, <1>3 DEF Next

(* The entries of the live processes stay true. *)
LEMMA CacheGuarda ==
  ASSUME InvMarcos, InvHilos, InvAcuerdo, [Next]_vars
  PROVE  CacheConcuerda'
<1>1. TipoHilos /\ PasoMarcos
  BY CadaPasoMarcos DEF InvHilos
<1>2. ASSUME NEW e \in Entrada, NEW p \in Pid, NEW g, NEW b \in Marco, p \notin muertos',
             tabla[b] = [pid |-> p, pag |-> g]
      PROVE  tabla'[b] = [pid |-> p, pag |-> g]
  BY <1>1, <1>2, MarcosQuietos
<1>3. ASSUME NEW e \in Entrada, memCache'[e].pid \in Pid \ muertos',
             memCache'[e].pid = memCache[e].pid, memCache'[e].numPag = memCache[e].numPag,
             memCache'[e].numBloque = memCache[e].numBloque, ~EnEscritura(e)
      PROVE  /\ memCache'[e].numBloque \in Marco
             /\ tabla'[memCache'[e].numBloque]
                  = [pid |-> memCache'[e].pid, pag |-> memCache'[e].numPag]
  <2>1. muertos \subseteq muertos'
    BY <1>1 DEF PasoMarcos, reservarPagina, PedirFin, eliminarProcesoEnCache, liberarPagina, Mismos
  <2>2. /\ memCache[e].numBloque \in Marco
        /\ tabla[memCache[e].numBloque] = [pid |-> memCache[e].pid, pag |-> memCache[e].numPag]
    BY <1>3, <2>1 DEF InvAcuerdo, CacheConcuerda
  <2> QED BY <2>2, <1>2, <1>3
<1>4. SUFFICES ASSUME NEW e \in Entrada, memCache'[e].pid \in Pid \ muertos', ~EnEscritura(e)'
               PROVE  /\ memCache'[e].numBloque \in Marco
                      /\ tabla'[memCache'[e].numBloque]
                           = [pid |-> memCache'[e].pid, pag |-> memCache'[e].numPag]
  BY DEF CacheConcuerda
<1>5. ASSUME UNCHANGED cacheVars, \A d \in Cpu : mutexCache = d => pos'[d] = pos[d]
      PROVE  memCache'[e] = memCache[e] /\ ~EnEscritura(e)
  BY <1>1, <1>4, <1>5 DEF cacheVars, EnEscritura, TipoHilos
<1>6. ASSUME UNCHANGED <<mutexCache, pos>>, memCache'[e] = memCache[e] \/ memCache'[e] = EntradaLibre
      PROVE  memCache'[e] = memCache[e] /\ ~EnEscritura(e)
  BY <1>4, <1>6, Numeros DEF EnEscritura, EntradaLibre
<1>7. ASSUME NEW c \in Cpu, sumarVecesUsada(c)
      PROVE  /\ memCache'[e].pid = memCache[e].pid /\ memCache'[e].numPag = memCache[e].numPag
             /\ memCache'[e].numBloque = memCache[e].numBloque /\ ~EnEscritura(e)
  BY <1>1, <1>7 DEF sumarVecesUsada, EnEscritura, TipoHilos
<1>8. ASSUME NEW c \in Cpu, EscribirClave(c)
      PROVE  memCache'[e] = memCache[e] /\ ~EnEscritura(e)
  <2>1. mutexCache = Nadie /\ mutexCache' = c /\ UNCHANGED pos /\ c # Nadie
    BY <1>8, ConstantesMemoria DEF EscribirClave
  <2>2. e # pos[c]
    BY <2>1, <1>4 DEF EnEscritura
  <2> QED BY <2>1, <2>2, <1>1, <1>8 DEF EscribirClave, EnEscritura, TipoHilos
<1>9. ASSUME NEW c \in Cpu, EscribirBloque(c), e # pos[c]
      PROVE  memCache'[e] = memCache[e] /\ ~EnEscritura(e)
  <2>1. mutexCache = c
    BY <1>9 DEF EscribirBloque, InvHilos, PasoDe
  <2> QED BY <2>1, <1>1, <1>9 DEF EscribirBloque, EnEscritura, TipoHilos
<1>10. ASSUME NEW c \in Cpu, EscribirBloque(c), e = pos[c]
       PROVE  /\ memCache'[e].numBloque \in Marco
              /\ tabla'[memCache'[e].numBloque]
                   = [pid |-> memCache'[e].pid, pag |-> memCache'[e].numPag]
  <2>1. /\ pc[c] = "bloque" /\ posBloque[c] \in Marco /\ ~pisada[c]
        /\ memCache[e].pid = pedido[c].pid /\ memCache[e].numPag = pedido[c].pag
    BY <1>10 DEF EscribirBloque, InvHilos, PasoDe, DeFallo, SinAcierto, EsClave
  <2>2. /\ memCache'[e].numBloque = posBloque[c] /\ memCache'[e].pid = memCache[e].pid
        /\ memCache'[e].numPag = memCache[e].numPag /\ UNCHANGED <<tabla, muertos>>
    BY <1>1, <1>10 DEF EscribirBloque, TipoHilos, marcoVars, kernelVars
  <2>3. tabla[posBloque[c]] = [pid |-> pedido[c].pid, pag |-> pedido[c].pag]
    BY <2>1, <2>2, <1>4, Numeros
    DEF InvAcuerdo, AcuerdoDe, AccesoDe, ConBloque, DelPedido, Buscada, Vale
  <2> QED BY <2>1, <2>2, <2>3
<1> QED BY <1>3, <1>4, <1>5, <1>6, <1>7, <1>8, <1>9, <1>10, CambiosDeCache

(* The table and the kernel's variables are left alone by a CPU. *)
LEMMA CpuSinMarcos ==
  ASSUME NEW c \in Cpu, HiloCPU(c) \/ NextCpu(c)
  PROVE  Mismos
<1>1. HiloCPU(c) => Mismos
  BY DEF HiloCPU, CompararPid, CompararPagina, LeerBloque, sumarVecesUsada, BuscarEnTabla,
     cantVecesPidEnCache, paginaAReemplazarEnCache, paginaAReemplazarEnCacheDelPid, EscribirClave,
     EscribirBloque, Acceder, DeMas, SinPagina, leerDatoInt, guardarDatoInt, StringEnUnaPagina,
     PrimeraParte, SegundaPagina, SegundaParte, Responder, Mismos, marcoVars, kernelVars
<1>2. NextCpu(c) => Mismos
  BY DEF NextCpu, Ejecutar, Soltar, Recibir, Pedir, Mismos, marcoVars, kernelVars
<1> QED BY <1>1, <1>2

(* The agreement of the threads with the table is kept by every step. *)
LEMMA AcuerdoGuarda ==
  ASSUME InvMarcos, InvHilos, InvAcuerdo, [Next]_vars
  PROVE  InvAcuerdo'
<1>1. PasoMarcos
  BY CadaPasoMarcos
<1>2. ASSUME NEW c \in Cpu PROVE AcuerdoDe(c)'
  <2>1. AcuerdoDe(c)
    BY DEF InvAcuerdo
  <2>2. CASE Igual(c)
    BY <1>1, <2>1, <2>2, AcuerdoAjeno
  <2>3. CASE HiloCPU(c) \/ NextCpu(c)
    <3>1. Mismos
      BY <2>3, CpuSinMarcos
    <3> QED BY <3>1, <2>3, AcuerdoPropio
  <2>4. UNCHANGED vars => Igual(c)
    BY DEF vars, hiloVars, Igual
  <2>5. ASSUME NEW d \in Cpu \ {c}, HiloCPU(d) \/ NextCpu(d) PROVE Igual(c)
    BY <2>5, SoloLoSuyo
  <2> QED BY <2>2, <2>3, <2>4, <2>5, SinHilos DEF Next
<1> QED BY <1>2, CacheGuarda DEF InvAcuerdo
-------------------------------------------------------------------------------
(* What holds when the process starts. *)
LEMMA AlEmpezar ==
  ASSUME Init
  PROVE  InvMarcos /\ InvHilos /\ InvAcuerdo
<1>1. TipoMarcos /\ FinBien /\ Limite
  BY ConstantesMemoria DEF Init, TipoMarcos, FinBien, Limite, Libre, SinFin
<1>2. TablaFiel
  <2>1. ASSUME NEW p \in Pid, NEW g \in Pagina
        PROVE  MarcosDe(tabla, p, g) = {} /\ ~DebeEstar(p, g)
    BY Numeros DEF Init, MarcosDe, Libre, DebeEstar
  <2>2. \A m \in Marco : tabla[m] = Libre
    BY DEF Init
  <2> QED BY <2>1, <2>2 DEF TablaFiel
<1>3. TipoHilos
  BY ConstantesMemoria DEF Init, TipoHilos, EntradaLibre, SinPedido, SinAcceso, Tramo, Paso,
     Posicion
<1>4. EnUnaCpu /\ \A c \in Cpu : PasoDe(c)
  BY ConstantesMemoria DEF Init, EnUnaCpu, PasoDe, ConCache, DeFallo, SinAcierto
<1>5. InvAcuerdo
  BY Numeros DEF Init, InvAcuerdo, AcuerdoDe, CacheConcuerda, AccesoDe, NoEsta, PrimeraHallada,
     RespuestaDe, Atendido, ConBloque, EntradaLibre
<1> QED BY <1>1, <1>2, <1>3, <1>4, <1>5 DEF InvMarcos, InvHilos

(* The invariants hold in every state that memory reaches. *)
THEOREM InvariantesMemoria == Spec => [](InvMarcos /\ InvHilos /\ InvAcuerdo)
<1>1. InvMarcos /\ InvHilos /\ InvAcuerdo /\ [Next]_vars => (InvMarcos /\ InvHilos /\ InvAcuerdo)'
  BY CadaPasoMarcos, MarcosGuarda, HilosGuarda, AcuerdoGuarda
<1> QED BY <1>1, AlEmpezar, PTL DEF Spec

(* Every variable keeps its type (memoria.h and the locals of memoria.c). *)
THEOREM TiposDeMemoria == Spec => []TipoMemoria
<1>1. InvMarcos /\ InvHilos => TipoMemoria
  BY DEF InvMarcos, TipoMarcos, InvHilos, TipoHilos, TipoMemoria
<1> QED BY <1>1, InvariantesMemoria, PTL

(* Each page of a process is in one frame. What a process had when its end was *)
(* asked for is all released, and what the kernel reserves for it later, which *)
(* it does if the process was running, is not (reservarPagina, kernel.c:311,  *)
(* and eliminarProcesoEnMemoria).                                             *)
THEOREM TablaSiempreFiel == Spec => []TablaFiel
<1>1. InvMarcos => TablaFiel
  BY DEF InvMarcos
<1> QED BY <1>1, InvariantesMemoria, PTL

(* An entry of a live process says where its page is, though the threads read *)
(* the cache without its lock (actualizarCache and eliminarProcesoEnCache).   *)
THEOREM CacheSiempreConcuerda == Spec => []CacheConcuerda
<1>1. InvAcuerdo => CacheConcuerda
  BY DEF InvAcuerdo
<1> QED BY <1>1, InvariantesMemoria, PTL

(* The frame that a thread uses is that of the page it was asked for, while    *)
(* the process is not ended and, in a hit, if the entry was still that of the *)
(* page when the frame was read from it (estaLaPagEnCache and what follows).  *)
THEOREM AccesoSiemprePropio == Spec => []AccesoPropio
<1>1. InvAcuerdo => AccesoPropio
  BY DEF InvAcuerdo, AcuerdoDe, AccesoDe, AccesoPropio
<1> QED BY <1>1, InvariantesMemoria, PTL

(* A live process whose hit was not overwritten: what it is told that was done *)
(* was done in pages that are all there, and what is refused to a store inside *)
(* a page is refused because the page is missing (the four operations).       *)
THEOREM RespuestaSiempreCierta == Spec => []RespuestaCierta
<1>1. InvAcuerdo => RespuestaCierta
  BY DEF InvAcuerdo, AcuerdoDe, RespuestaDe, RespuestaCierta
<1> QED BY <1>1, InvariantesMemoria, PTL
-----------------------------------------------------------------------------
(* What the memory process counts: the frames in use, the active processes    *)
(* and the entries of the cache that each process has.                        *)

(* The frames in use, and the processes that own one. Memory is told about a  *)
(* process with pages of numbers that exist.                                  *)
Usados == Marco \ Libres(tabla)
ConDueno == \A m \in Marco : tabla[m].pid \in Pid => tabla[m].pag \in Pagina
Duenos == {p \in Pid : \E m \in Marco : tabla[m].pid = p}
EnRetirada == IF fin.paso = "memoria" THEN {fin.pid} ELSE {}
Activos == procActivos = Duenos \ EnRetirada
InvCuentas ==
  /\ IsFiniteSet(Usados) /\ framesOcupados = bloquesAdm + Cardinality(Usados)
  /\ ConDueno /\ Activos

(* A page that is added. *)
LEMMA ReservaCuenta ==
  ASSUME InvMarcos, InvCuentas, NEW p \in Pid, reservarPagina(p)
  PROVE  InvCuentas'
<1>1. Libres(tabla) # {} /\ Libres(tabla) \subseteq Nat /\ Libres(tabla) \subseteq Marco
  BY Numeros DEF reservarPagina, Libres
<1>2. PICK m \in Marco : tabla[m] = Libre /\ m = Primero(Libres(tabla))
  BY <1>1, HayPrimero DEF Libres
<1>3. PICK g \in Pagina : g = paginas[p]
  <2>1. paginas[p] \in Nat /\ paginas[p] < MaxPags[p]
    BY DEF reservarPagina, InvMarcos, TipoMarcos
  <2> QED BY <2>1, Numeros
<1>4. /\ tabla' = [tabla EXCEPT ![m] = [pid |-> p, pag |-> g]]
      /\ framesOcupados' = framesOcupados + 1 /\ procActivos' = procActivos \cup {p}
      /\ fin' = fin /\ fin.paso = "nada"
      /\ tabla \in [Marco -> [pid : Pid \cup {-1}, pag : Pagina \cup {-1}]]
  BY <1>2, <1>3 DEF reservarPagina, InvMarcos, TipoMarcos
<1>5. /\ tabla'[m] = [pid |-> p, pag |-> g]
      /\ \A n \in Marco \ {m} : tabla'[n] = tabla[n]
  BY <1>4
<1>6. tabla'[m] # Libre
  BY <1>5, Numeros DEF Libre
<1>7. Usados' = Usados \cup {m} /\ m \notin Usados
  BY <1>2, <1>5, <1>6 DEF Usados, Libres
<1>8. /\ IsFiniteSet(Usados') /\ Cardinality(Usados') = Cardinality(Usados) + 1
      /\ Cardinality(Usados) \in Nat
  BY <1>7, FS_AddElement, FS_CardinalityType DEF InvCuentas
<1>9. framesOcupados' = bloquesAdm + Cardinality(Usados')
  BY <1>4, <1>8, ConstantesMemoria DEF InvCuentas
<1>10. ConDueno'
  BY <1>5 DEF InvCuentas, ConDueno
<1>11. Duenos' = Duenos \cup {p}
  <2>1. tabla[m].pid \notin Pid
    BY <1>2, Numeros DEF Libre
  <2> QED BY <2>1, <1>5 DEF Duenos
<1>12. Activos'
  BY <1>4, <1>11 DEF InvCuentas, Activos, EnRetirada
<1> QED BY <1>8, <1>9, <1>10, <1>12 DEF InvCuentas

(* A page that is released; the last one was when the next is not found. *)
LEMMA LiberarCuenta ==
  ASSUME InvMarcos, InvCuentas, liberarPagina
  PROVE  InvCuentas'
<1>0. PICK p, g, m : p = fin.pid /\ g = fin.pag /\ m = verificarPosHash(tabla, p, g)
  OBVIOUS
<1>1. /\ p \in muertos /\ p \in Pid /\ g \in Nat /\ fin.paso = "memoria"
      /\ UNCHANGED procActivos
  BY <1>0 DEF InvMarcos, TipoMarcos, FinBien, liberarPagina
<1>2. /\ tabla \in [Marco -> [pid : Pid \cup {-1}, pag : Pagina \cup {-1}]]
      /\ fin \in [paso : {"nada", "cache", "memoria"}, pid : Pid \cup {Nadie}, pag : Nat]
  BY DEF InvMarcos, TipoMarcos
<1>3. CASE m = -1
  <2>1. MarcosDe(tabla, p, g) = {}
    <3>1. verificarPosHash(tabla, p, g) = -1
      BY <1>0, <1>3
    <3> QED BY <3>1, Busqueda, Zenon
  <2>2. UNCHANGED <<tabla, framesOcupados>> /\ fin'.paso = "nada"
    BY <1>0, <1>3 DEF liberarPagina, MarcoALiberar, SinFin
  <2>3. paginas[p] \in Nat /\ MaxPags[p] \in Nat /\ paginas[p] <= MaxPags[p]
    BY <1>1, ConstantesMemoria DEF InvMarcos, TipoMarcos, Limite
  <2>4. g >= paginas[p]
    <3>1. SUFFICES ASSUME g < paginas[p] PROVE FALSE
      BY <1>1, <2>3
    <3>2. g \in Pagina
      BY <3>1, <1>1, <2>3, Numeros
    <3>3. DebeEstar(p, g)
      BY <3>1, <1>0, <1>1 DEF DebeEstar
    <3> QED BY <3>2, <3>3, <2>1, <1>1 DEF InvMarcos, TablaFiel
  <2>5. ASSUME NEW n \in Marco, tabla[n].pid = p PROVE FALSE
    <3>1. PICK h \in Pagina : tabla[n] = [pid |-> p, pag |-> h]
      BY <2>5, <1>1, <1>2 DEF InvCuentas, ConDueno
    <3>2. DebeEstar(p, h)
      BY <3>1, <1>1 DEF InvMarcos, TablaFiel, MarcosDe
    <3>3. h \in Nat
      BY Numeros
    <3>4. alFin[p] = paginas[p]
      BY <1>0, <1>1 DEF InvMarcos, FinBien
    <3> QED BY <3>2, <3>3, <3>4, <2>3, <2>4, <1>0, <1>1 DEF DebeEstar
  <2>6. Activos'
    <3>1. Duenos' = Duenos /\ p \notin Duenos
      BY <2>2, <2>5 DEF Duenos
    <3> QED BY <3>1, <2>2, <1>0, <1>1 DEF InvCuentas, Activos, EnRetirada
  <2>7. Usados' = Usados
    BY <2>2 DEF Usados
  <2> QED BY <2>2, <2>6, <2>7 DEF InvCuentas, ConDueno
<1>4. CASE m # -1
  <2>1. m \in Marco /\ tabla[m] = [pid |-> p, pag |-> g]
    BY <1>0, <1>4, Busqueda
  <2>2. tabla' = [tabla EXCEPT ![m] = Libre] /\ fin' = [fin EXCEPT !.pag = g + 1]
        /\ framesOcupados' = framesOcupados - 1
    BY <1>0, <1>4 DEF liberarPagina, MarcoALiberar
  <2>3. /\ tabla'[m] = Libre /\ \A n \in Marco \ {m} : tabla'[n] = tabla[n]
        /\ fin'.paso = "memoria" /\ fin'.pid = p
    BY <2>1, <2>2, <1>0, <1>1, <1>2
  <2>4. tabla[m] # Libre
    BY <2>1, <1>1, Numeros DEF Libre
  <2>5. Usados' = Usados \ {m} /\ m \in Usados
    BY <2>1, <2>3, <2>4 DEF Usados, Libres
  <2>6. /\ IsFiniteSet(Usados') /\ Cardinality(Usados') = Cardinality(Usados) - 1
        /\ Cardinality(Usados) \in Nat
    BY <2>5, FS_RemoveElement, FS_CardinalityType DEF InvCuentas
  <2>7. framesOcupados' = bloquesAdm + Cardinality(Usados')
    BY <2>2, <2>6, ConstantesMemoria DEF InvCuentas
  <2>8. ConDueno'
    BY <2>3, Numeros DEF InvCuentas, ConDueno, Libre
  <2>9. Duenos' \ {p} = Duenos \ {p}
    <3>1. ASSUME NEW q \in Pid \ {p}
          PROVE  (\E n \in Marco : tabla'[n].pid = q) <=> (\E n \in Marco : tabla[n].pid = q)
      <4>1. tabla[m].pid # q /\ tabla'[m].pid # q
        BY <2>1, <2>3, Numeros DEF Libre
      <4> QED BY <4>1, <2>1, <2>3
    <3> QED BY <3>1 DEF Duenos
  <2>10. Activos'
    BY <2>3, <2>9, <1>0, <1>1 DEF InvCuentas, Activos, EnRetirada
  <2> QED BY <2>6, <2>7, <2>8, <2>10 DEF InvCuentas
<1> QED BY <1>3, <1>4

(* Every step keeps the counts. *)
LEMMA CuentasGuarda ==
  ASSUME InvMarcos, InvCuentas, [Next]_vars
  PROVE  InvCuentas'
<1>1. ASSUME UNCHANGED <<tabla, framesOcupados, procActivos, fin>> PROVE InvCuentas'
  BY <1>1 DEF InvCuentas, Usados, ConDueno, Activos, Duenos, EnRetirada
<1>2. CASE eliminarProcesoEnCache
  <2>1. /\ UNCHANGED <<tabla, framesOcupados>> /\ procActivos' = procActivos \ {fin.pid}
        /\ fin' = [fin EXCEPT !.paso = "memoria"] /\ fin.paso = "cache"
    BY <1>2 DEF eliminarProcesoEnCache
  <2>2. EnRetirada = {} /\ EnRetirada' = {fin.pid} /\ Duenos' = Duenos
    BY <2>1 DEF EnRetirada, InvMarcos, TipoMarcos, Duenos
  <2>3. Activos'
    BY <2>1, <2>2 DEF InvCuentas, Activos
  <2> QED BY <2>1, <2>3 DEF InvCuentas, Usados, ConDueno
<1>3. ASSUME NEW p \in Pid, PedirFin(p) PROVE InvCuentas'
  <2>1. /\ UNCHANGED <<tabla, framesOcupados, procActivos>>
        /\ fin.paso = "nada" /\ fin'.paso = "cache"
    BY <1>3 DEF PedirFin, marcoVars
  <2> QED BY <2>1 DEF InvCuentas, Usados, ConDueno, Activos, Duenos, EnRetirada
<1>4. ASSUME NEW c \in Cpu, HiloCPU(c) \/ NextCpu(c)
      PROVE  UNCHANGED <<tabla, framesOcupados, procActivos, fin>>
  <2>1. HiloCPU(c) => UNCHANGED <<marcoVars, fin>>
    BY DEF HiloCPU, CompararPid, CompararPagina, LeerBloque, sumarVecesUsada, BuscarEnTabla,
       cantVecesPidEnCache, paginaAReemplazarEnCache, paginaAReemplazarEnCacheDelPid,
       EscribirClave, EscribirBloque, Acceder, DeMas, SinPagina, leerDatoInt,
     guardarDatoInt, StringEnUnaPagina, PrimeraParte, SegundaPagina, SegundaParte,
     Responder, kernelVars
  <2>2. NextCpu(c) => UNCHANGED <<marcoVars, fin>>
    BY DEF NextCpu, Ejecutar, Soltar, Recibir, Pedir, kernelVars
  <2> QED BY <1>4, <2>1, <2>2 DEF marcoVars
<1>5. flushCache \/ UNCHANGED vars => UNCHANGED <<tabla, framesOcupados, procActivos, fin>>
  BY DEF flushCache, vars, marcoVars, kernelVars
<1> QED BY <1>1, <1>2, <1>3, <1>4, <1>5, ReservaCuenta, LiberarCuenta DEF Next, HiloKernel

(* framesOcupados is the number of frames in use, and the list of active      *)
(* processes is that of those that own some (reservarPagina, liberarPagina    *)
(* and eliminarProcesoDeActivos).                                             *)
THEOREM CuentasSiempreExactas == Spec => []CuentasExactas
<1>1. Init => InvCuentas
  <2>1. ASSUME Init PROVE Usados = {} /\ Duenos = {} /\ EnRetirada = {}
    BY <2>1, Numeros DEF Init, Usados, Libres, Duenos, EnRetirada, Libre, SinFin
  <2>2. ASSUME Init PROVE ConDueno
    BY <2>2, Numeros DEF Init, ConDueno, Libre
  <2> QED BY <2>1, <2>2, FS_EmptySet, ConstantesMemoria DEF Init, InvCuentas, Activos
<1>2. InvMarcos /\ InvCuentas /\ [Next]_vars => InvCuentas'
  BY CuentasGuarda
<1>3. InvCuentas => CuentasExactas
  BY DEF InvCuentas, CuentasExactas, Usados, Activos, Duenos, EnRetirada
<1> QED BY <1>1, <1>2, <1>3, InvariantesMemoria, PTL DEF Spec
-------------------------------------------------------------------------------
(* The entries of a process: all, and those it has beside the one that its    *)
(* thread has chosen. The thread that counted them finds no more later.       *)
Entradas(p) == EntradasDe(memCache, p)
CuotaDe(c) ==
  /\ pc[c] = "global" => Cardinality(Entradas(pedido[c].pid)) < entradas_x_proc
  /\ pc[c] = "clave" => Cardinality(Entradas(pedido[c].pid) \ {pos[c]}) < entradas_x_proc
InvCuota == CuotaRespetada /\ \A c \in Cpu : CuotaDe(c)

(* The entries are a finite number. *)
LEMMA EntradasFinitas ==
  ASSUME NEW S, S \subseteq Entrada
  PROVE  IsFiniteSet(S) /\ Cardinality(S) \in Nat
<1>1. IsFiniteSet(Entrada)
  BY FS_Interval, ConstantesMemoria DEF Entrada
<1> QED BY <1>1, FS_Subset, FS_CardinalityType

(* Fewer entries are within the quota too. *)
LEMMA Menos ==
  ASSUME NEW S, NEW T, S \subseteq Entrada, T \subseteq S
  PROVE  Cardinality(T) \in Nat /\ Cardinality(S) \in Nat /\ Cardinality(T) <= Cardinality(S)
  BY EntradasFinitas, FS_Subset

(* Only the thread that writes the key of an entry gives one to a process, and *)
(* to the process that it serves.                                             *)
LEMMA SoloClaveAgrega ==
  ASSUME InvHilos, [Next]_vars, NEW p \in Pid
  PROVE  \/ Entradas(p)' \subseteq Entradas(p)
         \/ \E c \in Cpu : /\ EscribirClave(c) /\ pedido[c].pid = p
                           /\ Entradas(p)' \subseteq Entradas(p) \cup {pos[c]}
<1>1. TipoHilos
  BY DEF InvHilos
<1>2. UNCHANGED cacheVars => Entradas(p)' = Entradas(p)
  BY DEF cacheVars, Entradas, EntradasDe
<1>3. (\A e \in Entrada : memCache'[e] = memCache[e] \/ memCache'[e] = EntradaLibre)
        => Entradas(p)' \subseteq Entradas(p)
  <2>1. p # 0 /\ EntradaLibre.pid = 0
    BY Numeros DEF EntradaLibre
  <2> QED BY <2>1 DEF Entradas, EntradasDe
<1>4. ASSUME NEW c \in Cpu, sumarVecesUsada(c) \/ EscribirBloque(c)
      PROVE  Entradas(p)' \subseteq Entradas(p)
  <2>1. ASSUME NEW e \in Entrada PROVE memCache'[e].pid = memCache[e].pid
    <3>1. CASE sumarVecesUsada(c)
      BY <1>1, <3>1 DEF TipoHilos, sumarVecesUsada
    <3>2. CASE EscribirBloque(c)
      BY <1>1, <3>2 DEF TipoHilos, EscribirBloque
    <3> QED BY <1>4, <3>1, <3>2
  <2> QED BY <2>1 DEF Entradas, EntradasDe
<1>5. ASSUME NEW c \in Cpu, EscribirClave(c)
      PROVE  \/ Entradas(p)' \subseteq Entradas(p)
             \/ pedido[c].pid = p /\ Entradas(p)' \subseteq Entradas(p) \cup {pos[c]}
  <2>1. /\ \A e \in Entrada \ {pos[c]} : memCache'[e].pid = memCache[e].pid
        /\ pos[c] \in Entrada => memCache'[pos[c]].pid = pedido[c].pid
    BY <1>1, <1>5 DEF TipoHilos, EscribirClave
  <2> QED BY <2>1 DEF Entradas, EntradasDe
<1> QED BY <1>2, <1>3, <1>4, <1>5, CambiosDeCache

(* A thread that is choosing an entry keeps its count while others work.      *)
LEMMA CuotaAjena ==
  ASSUME InvHilos, InvCuota, [Next]_vars, NEW c \in Cpu, Igual(c)
  PROVE  CuotaDe(c)'
<1>1. SUFFICES ASSUME pc[c] \in {"global", "clave"} PROVE CuotaDe(c)'
  BY DEF CuotaDe, Igual
<1>2. PICK p \in Pid : p = pedido[c].pid /\ p = ejecuta[c] /\ p # Nadie
  BY <1>1, ConstantesMemoria DEF InvHilos, PasoDe
<1>3. Entradas(p)' \subseteq Entradas(p)
  <2>1. ASSUME NEW d \in Cpu, EscribirClave(d), pedido[d].pid = p PROVE FALSE
    <3>1. pc[d] = "clave" /\ ejecuta[d] = p /\ pc'[d] = "bloque"
      BY <2>1 DEF EscribirClave, InvHilos, TipoHilos, PasoDe
    <3>2. d = c
      BY <3>1, <1>2 DEF InvHilos, EnUnaCpu
    <3> QED BY <3>1, <3>2 DEF Igual
  <2> QED BY <2>1, SoloClaveAgrega
<1>4. PICK x : x = pos[c]
  OBVIOUS
<1>5. /\ pc'[c] = pc[c] /\ pedido'[c].pid = p /\ pos'[c] = x
  BY <1>2, <1>4 DEF Igual
<1>6. Entradas(p) \subseteq Entrada
  BY DEF Entradas, EntradasDe
<1>7. CASE pc[c] = "global"
  <2>1. Cardinality(Entradas(p)) < entradas_x_proc
    BY <1>2, <1>7 DEF InvCuota, CuotaDe
  <2>2. Cardinality(Entradas(p)') < entradas_x_proc
    BY <2>1, <1>3, <1>6, Menos, ConstantesMemoria
  <2> QED BY <2>2, <1>5, <1>7 DEF CuotaDe, Entradas
<1>8. CASE pc[c] = "clave"
  <2>1. Cardinality(Entradas(p) \ {x}) < entradas_x_proc
    BY <1>2, <1>4, <1>8 DEF InvCuota, CuotaDe
  <2>2. Cardinality(Entradas(p)' \ {x}) < entradas_x_proc
    <3>1. Entradas(p)' \ {x} \subseteq Entradas(p) \ {x} /\ Entradas(p) \ {x} \subseteq Entrada
      BY <1>3, <1>6
    <3> QED BY <2>1, <3>1, Menos, ConstantesMemoria
  <2> QED BY <2>2, <1>5, <1>8 DEF CuotaDe, Entradas
<1> QED BY <1>1, <1>7, <1>8

(* A thread that counts, chooses and writes. *)
LEMMA CuotaPropia ==
  ASSUME InvHilos, InvCuota, NEW c \in Cpu, HiloCPU(c) \/ NextCpu(c)
  PROVE  CuotaDe(c)'
<1>1. TipoHilos /\ PasoDe(c)
  BY DEF InvHilos
<1>2. CASE pc'[c] \notin {"global", "clave"}
  BY <1>2 DEF CuotaDe
<1>3. CASE cantVecesPidEnCache(c)
  <2>1. pc'[c] = "global" => TieneCupo(pedido[c].pid)
    BY <1>1, <1>3 DEF cantVecesPidEnCache, TipoHilos
  <2> QED BY <1>1, <1>3, <2>1 DEF cantVecesPidEnCache, TipoHilos, CuotaDe, Entradas, TieneCupo,
          cacheVars
<1>4. ASSUME pc'[c] = "clave", UNCHANGED <<memCache, pedido>>,
             Cardinality(Entradas(pedido[c].pid) \ {pos'[c]}) < entradas_x_proc
      PROVE  CuotaDe(c)'
  BY <1>4 DEF CuotaDe, Entradas
<1>5. PICK p : p = pedido[c].pid
  OBVIOUS
<1>6. Entradas(p) \subseteq Entrada
  BY DEF Entradas, EntradasDe
<1>7. CASE paginaAReemplazarEnCache(c)
  <2>1. Cardinality(Entradas(p)) < entradas_x_proc
    BY <1>5, <1>7 DEF InvCuota, CuotaDe, paginaAReemplazarEnCache
  <2>2. Cardinality(Entradas(p) \ {pos'[c]}) < entradas_x_proc
    BY <2>1, <1>6, Menos, ConstantesMemoria
  <2> QED BY <2>2, <1>1, <1>4, <1>5, <1>7 DEF paginaAReemplazarEnCache, TipoHilos, cacheVars
<1>8. CASE paginaAReemplazarEnCacheDelPid(c)
  <2>1. p \in Pid
    BY <1>1, <1>5, <1>8 DEF PasoDe, paginaAReemplazarEnCacheDelPid
  <2>2. Cardinality(Entradas(p)) <= entradas_x_proc
    BY <2>1 DEF InvCuota, CuotaRespetada, Entradas
  <2>3. pos'[c] = IF Entradas(p) = {} THEN 0 ELSE Primero(Entradas(p))
    BY <1>1, <1>5, <1>8 DEF paginaAReemplazarEnCacheDelPid, TipoHilos, Entradas
  <2>4. Cardinality(Entradas(p) \ {pos'[c]}) < entradas_x_proc
    <3>1. CASE Entradas(p) = {}
      BY <3>1, FS_EmptySet, ConstantesMemoria
    <3>2. CASE Entradas(p) # {}
      <4>1. pos'[c] \in Entradas(p)
        BY <3>2, <2>3, HayPropia DEF Entradas
      <4>2. IsFiniteSet(Entradas(p)) /\ Cardinality(Entradas(p)) \in Nat
        BY <1>6, EntradasFinitas
      <4>3. Cardinality(Entradas(p) \ {pos'[c]}) = Cardinality(Entradas(p)) - 1
        BY <4>1, <4>2, FS_RemoveElement
      <4> QED BY <4>2, <4>3, <2>2, ConstantesMemoria
    <3> QED BY <3>1, <3>2
  <2> QED BY <2>4, <1>1, <1>4, <1>5, <1>8 DEF paginaAReemplazarEnCacheDelPid, TipoHilos, cacheVars
<1>9. ASSUME NEW op, NEW t, NEW r, Contesta(c, op, t, r) PROVE CuotaDe(c)'
  BY <1>1, <1>2, <1>9, AlContestar DEF TipoHilos
<1>10. CASE NextCpu(c)
  <2>1. \A q \in Pid : Ejecutar(c, q) => pc[c] = "espera" /\ UNCHANGED pc
    BY <1>1, ConstantesMemoria DEF Ejecutar, PasoDe, hiloVars
  <2> QED BY <2>1, <1>1, <1>2, <1>10 DEF NextCpu, Soltar, Recibir, Pedir, TipoHilos, hiloVars
<1>11. CASE CompararPid(c) \/ CompararPagina(c) \/ LeerBloque(c) \/ sumarVecesUsada(c)
            \/ BuscarEnTabla(c) \/ EscribirClave(c) \/ EscribirBloque(c)
            \/ (\E op, t : PrimeraParte(c, op, t)) \/ SegundaHallada(c)
  BY <1>1, <1>2, <1>11 DEF CompararPid, CompararPagina, SeguirBuscando, LeerBloque, sumarVecesUsada,
     BuscarEnTabla, EscribirClave, EscribirBloque, PrimeraParte, SegundaHallada, TipoHilos
<1> QED BY <1>1, <1>3, <1>7, <1>8, <1>9, <1>10, <1>11, FormasDeAcceder DEF HiloCPU

(* The quota is kept by every step. *)
LEMMA CuotaGuarda ==
  ASSUME InvHilos, InvCuota, [Next]_vars
  PROVE  InvCuota'
<1>1. ASSUME NEW c \in Cpu PROVE CuotaDe(c)'
  <2>1. UNCHANGED vars => Igual(c)
    BY DEF vars, hiloVars, Igual
  <2>2. ASSUME NEW d \in Cpu \ {c}, HiloCPU(d) \/ NextCpu(d) PROVE Igual(c)
    BY <2>2, SoloLoSuyo
  <2> QED BY <2>1, <2>2, CuotaPropia, CuotaAjena, SinHilos DEF Next
<1>2. ASSUME NEW p \in Pid PROVE Cardinality(Entradas(p)') <= entradas_x_proc
  <2>1. Entradas(p) \subseteq Entrada /\ Entradas(p)' \subseteq Entrada
        /\ Cardinality(Entradas(p)) <= entradas_x_proc
    BY DEF Entradas, EntradasDe, InvCuota, CuotaRespetada
  <2>2. CASE Entradas(p)' \subseteq Entradas(p)
    BY <2>1, <2>2, Menos, ConstantesMemoria
  <2>3. ASSUME NEW c \in Cpu, EscribirClave(c), pedido[c].pid = p,
               Entradas(p)' \subseteq Entradas(p) \cup {pos[c]}
        PROVE  Cardinality(Entradas(p)') <= entradas_x_proc
    <3>1. PICK x : x = pos[c]
      OBVIOUS
    <3>2. Cardinality(Entradas(p) \ {x}) < entradas_x_proc
      BY <2>3, <3>1 DEF InvCuota, CuotaDe, EscribirClave
    <3>3. /\ Entradas(p)' \ {x} \subseteq Entradas(p) \ {x}
          /\ Entradas(p) \ {x} \subseteq Entrada
      BY <2>1, <2>3, <3>1
    <3>4. /\ Cardinality(Entradas(p)' \ {x}) < entradas_x_proc
          /\ Cardinality(Entradas(p)' \ {x}) \in Nat
      BY <3>2, <3>3, Menos, ConstantesMemoria
    <3>5. IsFiniteSet(Entradas(p)') /\ Cardinality(Entradas(p)') \in Nat
      BY <2>1, EntradasFinitas
    <3>6. Cardinality(Entradas(p)') <= Cardinality(Entradas(p)' \ {x}) + 1
      <4>1. Cardinality(Entradas(p)' \ {x}) = IF x \in Entradas(p)'
                                             THEN Cardinality(Entradas(p)') - 1
                                             ELSE Cardinality(Entradas(p)')
        BY <3>5, FS_RemoveElement
      <4> QED BY <4>1, <3>5
    <3> QED BY <3>4, <3>5, <3>6, ConstantesMemoria
  <2> QED BY <2>2, <2>3, SoloClaveAgrega
<1> QED BY <1>1, <1>2 DEF InvCuota, CuotaRespetada, Entradas

(* No process has more entries than entradas_x_proc, although its entries are *)
(* counted before the new one is written and other threads write in between   *)
(* (cantVecesPidEnCache, actualizarCache).                                    *)
THEOREM CuotaSiempreRespetada == Spec => []CuotaRespetada
<1>1. Init => InvCuota
  <2>1. ASSUME Init, NEW p \in Pid PROVE EntradasDe(memCache, p) = {}
    BY <2>1, Numeros DEF Init, EntradasDe, EntradaLibre
  <2>2. Init => \A c \in Cpu : CuotaDe(c)
    BY DEF Init, CuotaDe
  <2> QED BY <2>1, <2>2, FS_EmptySet, ConstantesMemoria DEF InvCuota, CuotaRespetada
<1>2. InvHilos /\ InvCuota /\ [Next]_vars => InvCuota'
  BY CuotaGuarda
<1>3. InvCuota => CuotaRespetada
  BY DEF InvCuota
<1> QED BY <1>1, <1>2, <1>3, InvariantesMemoria, PTL DEF Spec
===============================================================================
