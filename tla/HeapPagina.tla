------------------------------ MODULE HeapPagina ------------------------------
(***************************************************************************)
(* The heap of one process (heapmemo.c).  The kernel keeps in each heap    *)
(* page a chain of blocks: a header of Cabecera bytes, with isUsed and     *)
(* size, and the bytes it describes.  A page is modelled as the set of the *)
(* blocks of its chain; a walk along the chain sees them in the order of   *)
(* "ini", the place of the header.  Each request is served by the only     *)
(* thread of the kernel from end to end.  Scripts release only what they   *)
(* hold, and ask for no negative sizes.                                    *)
(***************************************************************************)
EXTENDS Integers, Sequences

CONSTANTS
  TamPage,    (* tamPage, the frame size of the memory                       *)
  Cabecera,   (* _getTamanioBloque(): 5 bytes in the code                    *)
  Pedidos,    (* sizes that the script asks for                              *)
  Marcos,     (* bound: frames of the memory                                 *)
  Byte,       (* values of a byte: 256                                       *)
  Basura      (* what the three upper bytes of a size nobody wrote may hold  *)

ASSUME ConstantesHeap ==
  /\ Cabecera \in Nat \ {0}
  /\ TamPage \in Nat /\ TamPage > 2 * Cabecera
  /\ Pedidos \subseteq Nat
  /\ Marcos \in Nat
  /\ Byte \in Nat \ {0}
  /\ Basura \subseteq Nat

VARIABLES
  paginas,    (* the heap pages of the process, in order                     *)
  vivas,      (* what the script has been given and has not released         *)
  marcos,     (* frames that the memory has free                             *)
  termino     (* the process was ended by a failed request                   *)

vars == <<paginas, vivas, marcos, termino>>

Bloques == [ini : Nat, tam : Nat, usado : BOOLEAN]
Porciones == [pagina : Nat \ {0}, ini : Nat, tam : Nat]

Bloque(ini, tam, usado) == [ini |-> ini, tam |-> tam, usado |-> usado]

(* Where the header of the next block is.                                  *)
Siguiente(b) == b.ini + Cabecera + b.tam

TamanioMaximo == TamPage - 2 * Cabecera

CrearPagina == {Bloque(0, TamPage - Cabecera, FALSE)}

Init ==
  /\ paginas = <<>>
  /\ vivas = {}
  /\ marcos = Marcos
  /\ termino = FALSE
-----------------------------------------------------------------------------
(* (variant: used blocks are taken too)                                    *)
DisponibleUsado(b, n) == b.tam > n + Cabecera

(* A block is taken only if something is left after the new header.        *)
Disponible(b, n) == ~b.usado /\ b.tam > n + Cabecera

Cabe(P, n) == \E b \in P : Disponible(b, n)

(* _obtenerBloqueLibre: first fit.                                         *)
EsBloqueLibre(P, n, b) ==
  /\ b \in P /\ Disponible(b, n)
  /\ \A a \in P : Disponible(a, n) => b.ini <= a.ini

(* (variant: the header of the rest is not discounted)                     *)
PartirDeMas(P, b, n) ==
  (P \ {b}) \cup {Bloque(b.ini, n, TRUE), Bloque(b.ini + Cabecera + n, b.tam - n, FALSE)}

(* _reservarEspacioPagina: the block and a free one with the rest.         *)
Partir(P, b, n) ==
  (P \ {b}) \cup {Bloque(b.ini, n, TRUE),
                  Bloque(b.ini + Cabecera + n, b.tam - (Cabecera + n), FALSE)}

Libres(P) == {b \in P : ~b.usado}

(* _compactar walks the page once.  A run of free blocks begins at b and   *)
(* ends at f, where there is a used block or the end of the page.          *)
AbreRacha(P, b) == b \in Libres(P) /\ \A a \in Libres(P) : Siguiente(a) # b.ini

CierraRacha(P, b, f) ==
  /\ \E a \in Libres(P) : b.ini <= a.ini /\ Siguiente(a) = f
  /\ \A a \in P : b.ini <= a.ini /\ a.ini < f => ~a.usado
  /\ \A a \in Libres(P) : a.ini # f

(* The header of a fused block is copied from a struct whose size begins   *)
(* at byte 4 with a memcpy of 5 bytes: only the low byte of size arrives,  *)
(* the other three are those of the memory that malloc() returned.         *)
TamEscrito(b, f, basura) ==
  IF f = Siguiente(b) THEN b.tam
  ELSE ((f - b.ini - Cabecera) % Byte) + Byte * basura

Rachas(P) == {x \in Libres(P) \X {Siguiente(a) : a \in P} :
                AbreRacha(P, x[1]) /\ CierraRacha(P, x[1], x[2])}

(* (variant: nothing is fused)                                             *)
NoCompactar(P, basura) == P

Compactar(P, basura) ==
  {b \in P : b.usado}
    \cup {Bloque(x[1].ini, TamEscrito(x[1], x[2], basura), FALSE) : x \in Rachas(P)}

(* _liberarEspacio.                                                        *)
Soltar(P, b) == (P \ {b}) \cup {Bloque(b.ini, b.tam, FALSE)}
-----------------------------------------------------------------------------
(* What the script is given of block b of page k: the bytes after its      *)
(* header.  The position sent is page * tamPage + offset.                  *)
Porcion(k, b) == [pagina |-> k, ini |-> b.ini + Cabecera, tam |-> b.tam]

Entregar(k, b, n) == vivas' = vivas \cup {Porcion(k, Bloque(b.ini, n, TRUE))}

(* The first page that has room.                                           *)
AlocarEnPagina(n) ==
  /\ ~termino /\ n <= TamanioMaximo
  /\ \E k \in DOMAIN paginas : \E b \in paginas[k] :
       /\ EsBloqueLibre(paginas[k], n, b)
       /\ \A j \in 1..(k - 1) : ~Cabe(paginas[j], n)
       /\ paginas' = [paginas EXCEPT ![k] = Partir(@, b, n)]
       /\ Entregar(k, b, n)
  /\ UNCHANGED <<marcos, termino>>

NingunaTieneLugar(n) == \A k \in DOMAIN paginas : ~Cabe(paginas[k], n)

(* A new page, when there is a frame for it.                               *)
AlocarEnPaginaNueva(n) ==
  /\ ~termino /\ n <= TamanioMaximo
  /\ NingunaTieneLugar(n) /\ marcos > 0
  /\ \E b \in CrearPagina :
       /\ Disponible(b, n)
       /\ paginas' = Append(paginas, Partir(CrearPagina, b, n))
       /\ Entregar(Len(paginas) + 1, b, n)
  /\ marcos' = marcos - 1
  /\ UNCHANGED termino

(* The kernel ends the process and the memory gets all its pages back.     *)
TerminarProceso ==
  /\ termino' = TRUE
  /\ paginas' = <<>>
  /\ vivas' = {}
  /\ marcos' = marcos + Len(paginas)

AlocarDemasiado(n) == ~termino /\ n > TamanioMaximo /\ TerminarProceso

(* No frame is left; or a page has no room even when it is new, and then   *)
(* the loop asks for frames until there is none.                           *)
AlocarSinMemoria(n) ==
  /\ ~termino /\ n <= TamanioMaximo
  /\ NingunaTieneLugar(n)
  /\ marcos = 0 \/ ~Cabe(CrearPagina, n)
  /\ TerminarProceso

(* liberarMemoriaHeap, with the page and the offset of the pointer.        *)
Liberar(v) ==
  /\ ~termino
  /\ \E b \in paginas[v.pagina], basura \in Basura :
       /\ b.ini = v.ini - Cabecera
       /\ paginas' = [paginas EXCEPT ![v.pagina] = Compactar(Soltar(@, b), basura)]
  /\ vivas' = vivas \ {v}
  /\ UNCHANGED <<marcos, termino>>

(* Other processes take frames and give them back.                         *)
OtrosProcesos ==
  /\ \/ marcos > 0 /\ marcos' = marcos - 1
     \/ marcos + Len(paginas) < Marcos /\ marcos' = marcos + 1
  /\ UNCHANGED <<paginas, vivas, termino>>

Next ==
  \/ \E n \in Pedidos : \/ AlocarEnPagina(n) \/ AlocarEnPaginaNueva(n)
                        \/ AlocarDemasiado(n) \/ AlocarSinMemoria(n)
  \/ \E v \in vivas : Liberar(v)
  \/ OtrosProcesos

Spec == Init /\ [][Next]_vars
-----------------------------------------------------------------------------
(* Types: no block has a negative size (the rest of a split, which the     *)
(* code keeps unsigned) and the process has no more pages than frames.     *)
TipoHeap ==
  /\ paginas \in Seq(SUBSET Bloques)
  /\ vivas \subseteq Porciones
  /\ marcos \in Nat /\ marcos + Len(paginas) <= Marcos
  /\ termino \in BOOLEAN

TeselaDe(P) ==
  /\ \E b \in P : b.ini = 0
  /\ \A b \in P :
       /\ b.ini = 0 \/ \E a \in P : Siguiente(a) = b.ini
       /\ Siguiente(b) = TamPage \/ \E c \in P : c.ini = Siguiente(b)
       /\ Siguiente(b) <= TamPage
  /\ \A b, c \in P : b = c \/ Siguiente(b) <= c.ini \/ Siguiente(c) <= b.ini

(* The blocks of a page tile it: the chain that every search and every     *)
(* compaction follows covers the page exactly, with no hole, no overlap    *)
(* and no header out of place, after any sequence of requests.             *)
Tesela == \A k \in DOMAIN paginas : TeselaDe(paginas[k])

SinLibresContiguosEn(P) == \A b, c \in Libres(P) : Siguiente(b) # c.ini

(* No two free blocks are neighbours: what is released is available as one *)
(* piece, so a page without allocations is one free block again.           *)
SinLibresContiguos == \A k \in DOMAIN paginas : SinLibresContiguosEn(paginas[k])

(* The used blocks are exactly what the script holds: nothing it holds is  *)
(* given twice or taken back, nothing it released stays used.              *)
UsadosSonVivas ==
  /\ \A v \in vivas : /\ v.pagina \in DOMAIN paginas
                      /\ \E b \in paginas[v.pagina] : b.usado /\ v = Porcion(v.pagina, b)
  /\ \A k \in DOMAIN paginas : \A b \in paginas[k] : b.usado => Porcion(k, b) \in vivas

Asig == INSTANCE Asignador WITH ocupado <- vivas

(* ALOCAR and LIBERAR are an allocator: what a script is given lies inside *)
(* one page and overlaps nothing that it holds, whatever was released and  *)
(* fused before.                                                           *)
CumpleAsignador == Asig!Spec
=============================================================================
